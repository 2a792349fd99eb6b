------------------------------ MODULE StreamOps ------------------------------
(***************************************************************************)
(* lib.Stream.Process (lib/base.go) as operators on its two ring buffers   *)
(* and on the liblzma coder between them.  One round of its loop reads     *)
(* from the source if inBuf is empty (Fetches), calls lzma_code on the     *)
(* contiguous parts of the rings (Encoded, Decoded), writes outBuf to the  *)
(* destination (Delivered, Flushes) and returns if one of the three has    *)
(* something to say (Verdict).  The specifications Reader and Lzma chain   *)
(* these steps.                                                            *)
(*                                                                         *)
(* Data is a sequence of units.  A unit of compressed data stands for one  *)
(* unit of plain data, a positive number; the unit EndUnit ends it.        *)
(***************************************************************************)
EXTENDS Integers, Sequences, SequencesExt

EndUnit == -6

Lesser(a, b) == IF a <= b THEN a ELSE b
-----------------------------------------------------------------------------
(***************************************************************************)
(* A BufferPipe in mode RingPoll: q is what it holds, at is where in the   *)
(* ring of the given size that starts.                                     *)
(***************************************************************************)
Ring(size) == [size |-> size, at |-> 0, q |-> <<>>]

IsRing(b) ==
    /\ b \in [size : Nat, at : Nat, q : Seq(Int)]
    /\ b.at < b.size /\ Len(b.q) <= b.size

\* What it holds, up to the end of the ring.
ReadSlice(b) == SubSeq(b.q, 1, Lesser(Len(b.q), b.size - b.at))

\* Mutant: what the ring holds is forgotten.
WriteSliceToEnd(b) == b.size - b.at

\* The free units, up to the end of the ring.
WriteSlice(b) ==
    IF b.at + Len(b.q) < b.size THEN b.size - (b.at + Len(b.q))
    ELSE b.size - Len(b.q)

WriteMark(b, units) ==
    [size |-> b.size, at |-> b.at, q |-> b.q \o units]

ReadMark(b, n) ==
    [size |-> b.size, at |-> (b.at + n) % b.size,
     q |-> SubSeq(b.q, n + 1, Len(b.q))]
-----------------------------------------------------------------------------
(***************************************************************************)
(* The round.                                                              *)
(***************************************************************************)
\* src.Read while inBuf is empty and no read has failed: rest is what the
\* source still has.  It may read short, and tell the end or an error at once
\* or by the next read.
Fetches(inBuf, rdErr, rest, fails) ==
    LET most == Lesser(WriteSlice(inBuf), Len(rest))
    IN  IF inBuf.q # <<>> \/ rdErr # "nil"
        THEN {[n |-> 0, err |-> rdErr]}
        ELSE [n : 1 .. most, err : {"nil"}]
             \cup [n : {Len(rest)} \cap {most}, err : {"EOF"}]
             \cup [n : 0 .. most, err : IF fails THEN {"err"} ELSE {}]

\* The state of a coder.  held: units not yet put out; skip: the units of a
\* header, which a decoder takes first and puts nothing out for; ended: its end
\* is reached; stalled: the last call made no progress.
Coder(units, skip) ==
    [held |-> units, skip |-> skip, ended |-> FALSE, stalled |-> FALSE]

IsCoder(z) ==
    z \in [held : Seq(Int), skip : Nat, ended : BOOLEAN, stalled : BOOLEAN]

\* What lzma_code says of a call that goes on: the first one without progress
\* is OK, the second a BUF_ERROR.
Called(z, took, put, held) ==
    LET idle == took = 0 /\ put = <<>>
    IN  [took |-> took, put |-> put,
         ret |-> IF idle /\ z.stalled THEN "BUF_ERROR" ELSE "OK",
         z |-> [held |-> held, skip |-> z.skip - Lesser(z.skip, took),
                ended |-> FALSE, stalled |-> idle]]

\* The call that reaches the end; once there, a coder says so again.
Ended(z, took, put) ==
    [took |-> took, put |-> put, ret |-> "STREAM_END",
     z |-> [held |-> <<>>, skip |-> z.skip - Lesser(z.skip, took),
            ended |-> TRUE, stalled |-> FALSE]]

\* Decoders stop for want of input or of space or at the end unit, whichever
\* comes first, and keep at most one unit to themselves.
Decoded(z, in, space) ==
    LET Before(c) == \A i \in 1 .. c : in[i] # EndUnit
        AtEnd(c) == c < Len(in) /\ in[c + 1] = EndUnit
        After(c) ==
          LET units == z.held \o SubSeq(in, z.skip + 1, c)
              p == Lesser(space, Len(units))
              put == SubSeq(units, 1, p)
              rest == SubSeq(units, p + 1, Len(units))
          IN  IF AtEnd(c) /\ rest = <<>>
              THEN {Ended(z, c + 1, put)}
              ELSE {r \in {Called(z, c, put, rest)} :
                      (c = Len(in) \/ AtEnd(c) \/ p = space) /\ Len(rest) <= 1}
    IN  IF z.ended THEN {Ended(z, 0, <<>>)}
        ELSE UNION {After(c) : c \in {n \in 0 .. Len(in) : Before(n)}}

\* Encoders keep what they like until LZMA_FINISH; then they stop for want of
\* space or after the end unit.
Encoded(z, in, space, code) ==
    LET all == z.held \o in
        Units(c) == z.held \o SubSeq(in, 1, c)
        After(c, p) == Called(z, c, SubSeq(Units(c), 1, p),
                              SubSeq(Units(c), p + 1, Len(Units(c))))
        Stops(c, p) == p = space \/ (code = "RUN" /\ c = Len(in))
    IN  IF z.ended THEN {Ended(z, 0, <<>>)}
        ELSE IF code = "FINISH" /\ Len(all) < space
        THEN {Ended(z, Len(in), Append(all, EndUnit))}
        ELSE UNION {{After(c, p) :
                       p \in {n \in 0 .. Lesser(space, Len(Units(c))) :
                                Stops(c, n)}} :
                    c \in 0 .. Len(in)}

\* "Temporary error, just feed more": a BUF_ERROR is ignored unless the input
\* or the space offered was empty.
Ignored(ret, fed, space) ==
    IF ret = "BUF_ERROR" /\ fed /\ space > 0 THEN "OK" ELSE ret

\* Mutant: all of outBuf is marked as read, not what dst.Write took.
DeliveredAll(buf, room) ==
    [put |-> SubSeq(buf.q, 1, Lesser(room, Len(buf.q))),
     rest |-> ReadMark(buf, Len(buf.q)),
     err |-> IF room < Len(buf.q) THEN "short" ELSE "nil"]

\* dst.Write into a slice with the given room, until outBuf is empty or the
\* slice is full.
Delivered(buf, room) ==
    LET k == Lesser(room, Len(buf.q))
    IN  [put |-> SubSeq(buf.q, 1, k), rest |-> ReadMark(buf, k),
         err |-> IF k < Len(buf.q) THEN "short" ELSE "nil"]

\* dst.Write into a sink that takes all, or fails after a part of it.
Flushes(buf, fails) ==
    {[put |-> buf.q, rest |-> ReadMark(buf, Len(buf.q)), err |-> "nil"]}
    \cup {[put |-> SubSeq(buf.q, 1, k), rest |-> ReadMark(buf, k),
           err |-> "sink"] :
            k \in IF fails THEN 0 .. Len(buf.q) - 1 ELSE {}}

\* Mutant: the coder's end or error does not wait for outBuf to be drained,
\* and comes before that of the destination.
VerdictCoderFirst(wrErr, ret, rdErr, outBuf, inBuf) ==
    IF ret # "OK" THEN ret
    ELSE IF wrErr # "nil" THEN wrErr
    ELSE IF rdErr # "nil" /\ outBuf.q = <<>> /\ inBuf.q = <<>> THEN rdErr
    ELSE "more"

\* Mutant: the end of the source is told before inBuf is drained.
VerdictSourceEarly(wrErr, ret, rdErr, outBuf, inBuf) ==
    IF wrErr # "nil" THEN wrErr
    ELSE IF ret # "OK" /\ outBuf.q = <<>> THEN ret
    ELSE IF rdErr # "nil" /\ outBuf.q = <<>> THEN rdErr
    ELSE "more"

\* Mutant: an error of the destination waits for outBuf to be drained, too.
VerdictDrained(wrErr, ret, rdErr, outBuf, inBuf) ==
    IF outBuf.q # <<>> THEN "more"
    ELSE IF wrErr # "nil" THEN wrErr
    ELSE IF ret # "OK" THEN ret
    ELSE IF rdErr # "nil" /\ inBuf.q = <<>> THEN rdErr
    ELSE "more"

\* The switch at the end of the round: which error Process returns, if any.
Verdict(wrErr, ret, rdErr, outBuf, inBuf) ==
    IF wrErr # "nil" THEN wrErr
    ELSE IF ret # "OK" /\ outBuf.q = <<>> THEN ret
    ELSE IF rdErr # "nil" /\ outBuf.q = <<>> /\ inBuf.q = <<>> THEN rdErr
    ELSE "more"
=============================================================================
