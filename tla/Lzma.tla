-------------------------------- MODULE Lzma --------------------------------
(***************************************************************************)
(* Package lzma: a writer of the LZMA alone format, and a reader of what   *)
(* it wrote.  Both are a lib.Stream, whose coder and rings outlive every   *)
(* call, and one call of Process per Read, Write or Close.                 *)
(*                                                                         *)
(* First a client writes to a sink that may fail and recover.  Given an    *)
(* error, it goes on where the count returned by Write says, or closes.    *)
(* Then, whether or not it has closed, the file is opened for reading,     *)
(* perhaps with something behind it, from a source that may fail and       *)
(* recover too.                                                            *)
(***************************************************************************)
EXTENDS StreamOps

CONSTANTS Total,   \* bound: the units the client has to write
          Slice,   \* bound: the units of one slice passed to Write or Read
          Sizes,   \* the sizes tried for the rings; 64 KiB in the code
          Failures \* bound: how often the sink may fail, and the source

ASSUME LzmaAssumption ==
    /\ Total \in Nat /\ Slice \in Nat /\ Failures \in Nat
    /\ Sizes \subseteq Nat \ {0}

HeaderUnit == -1
Junk == -9

Units(n) == [j \in 1 .. n |-> j]
Alone(n) == <<HeaderUnit>> \o Units(n) \o <<EndUnit>>

VARIABLES
    role,     \* "writer", then "reader"
    cl,       \* "idle", "write", "close" or "read"
    src,      \* what the source passed to Process still has
    inBuf, z, outBuf, \* the Stream: rings, and the coder between them
    dst,      \* what the destinations have taken: a file, then its data
    room,     \* what is left of the slice passed to Read
    rdErr,    \* rdErr of the running Process call
    closed,   \* w.closed, r.closed
    result,   \* what the last call returned; "ok" is nil
    accepted, \* the units Write has returned as written
    outcome,  \* history: how the Close that did the work ended
    intact,   \* history: is the file complete, with nothing behind it?
    failed,   \* history: how often sink or source failed
    told,     \* history: has Read returned a data error?
    empty     \* history: has a slice of length zero been passed?

stream == <<inBuf, z, outBuf, dst>>
vars == <<role, cl, src, stream, room, rdErr, closed, result, accepted,
          outcome, intact, failed, told, empty>>

TypeOK ==
    /\ role \in {"writer", "reader"}
    /\ cl \in IF role = "writer" THEN {"idle", "write", "close"}
                                 ELSE {"idle", "read"}
    /\ src \in Seq(Int) /\ dst \in Seq(Int)
    /\ IsRing(inBuf) /\ IsRing(outBuf) /\ IsCoder(z)
    /\ room \in 0 .. Slice
    /\ rdErr \in {"nil", "EOF", "err"}
    /\ closed \in BOOLEAN /\ intact \in BOOLEAN
    /\ told \in BOOLEAN /\ empty \in BOOLEAN
    /\ result \in {"ok", "EOF", "cut", "data", "buf", "sink", "err"}
    /\ accepted \in 0 .. Total
    /\ outcome \in {"none", "ok", "failed"}
    /\ failed \in 0 .. Failures

\* NewWriter: the header of the file waits in the encoder.
Init ==
    /\ role = "writer" /\ cl = "idle" /\ closed = FALSE
    /\ \E n \in Sizes : inBuf = Ring(n) /\ outBuf = Ring(n)
    /\ z = Coder(<<HeaderUnit>>, 0)
    /\ src = <<>> /\ dst = <<>> /\ room = 0 /\ rdErr = "nil"
    /\ result = "ok" /\ accepted = 0 /\ outcome = "none"
    /\ intact = FALSE /\ failed = 0 /\ told = FALSE /\ empty = FALSE
-----------------------------------------------------------------------------
(***************************************************************************)
(* The writer.                                                             *)
(***************************************************************************)
\* The next n units, from the first that was not accepted.
Write(n) ==
    /\ role = "writer" /\ cl = "idle" /\ ~closed
    /\ accepted + n <= Total
    /\ cl' = "write" /\ rdErr' = "nil"
    /\ src' = [j \in 1 .. n |-> accepted + j]
    /\ empty' = (empty \/ n = 0)
    /\ UNCHANGED <<role, stream, room, closed, result, accepted, outcome,
                   intact, failed, told>>

\* Mutant: the count is what the encoder has taken, not what entered inBuf.
CountedCoded(f, d) == d.took

\* inCnt, which Write returns, counts what has been read from the slice.
Counted(f, d) == f.n

Returns(r) == cl' = "idle" /\ result' = r

\* What a round leaves in the rings and in the coder.
Settle(in, d, w) ==
    /\ inBuf' = ReadMark(in, d.took)
    /\ z' = d.z
    /\ outBuf' = w.rest
    /\ dst' = dst \o w.put

\* Process(lib.RUN, w.wr, ioutil.NewReader(data)), with io.EOF ignored.
processWrite ==
    /\ cl = "write"
    /\ \E f \in Fetches(inBuf, rdErr, src, FALSE) :
         LET in == WriteMark(inBuf, SubSeq(src, 1, f.n))
             fed == ReadSlice(in)
             space == WriteSlice(outBuf)
         IN  \E d \in Encoded(z, fed, space, "RUN") :
               \E w \in Flushes(WriteMark(outBuf, d.put), failed < Failures) :
                 LET v == Verdict(w.err, Ignored(d.ret, fed # <<>>, space),
                                  f.err, w.rest, ReadMark(in, d.took))
                 IN  /\ Settle(in, d, w)
                     /\ src' = SubSeq(src, f.n + 1, Len(src))
                     /\ rdErr' = f.err
                     /\ accepted' = accepted + Counted(f, d)
                     /\ failed' = IF w.err = "sink" THEN failed + 1 ELSE failed
                     /\ CASE v = "more" -> UNCHANGED <<cl, result>>
                          [] v = "EOF" -> Returns("ok")
                          [] v = "sink" -> Returns("sink")
                          [] OTHER -> Returns("buf")
    /\ UNCHANGED <<role, room, closed, outcome, intact, told, empty>>

Close ==
    /\ role = "writer" /\ cl = "idle"
    /\ IF closed THEN result' = "ok" /\ UNCHANGED cl
                 ELSE cl' = "close" /\ UNCHANGED result
    /\ closed' = TRUE
    /\ UNCHANGED <<role, src, stream, room, rdErr, accepted, outcome, intact,
                   failed, told, empty>>

\* Process(lib.FINISH, w.wr, nil), with STREAM_END ignored.
processClose ==
    /\ cl = "close"
    /\ LET fed == ReadSlice(inBuf)
           space == WriteSlice(outBuf)
       IN  \E d \in Encoded(z, fed, space, "FINISH") :
             \E w \in Flushes(WriteMark(outBuf, d.put), failed < Failures) :
               LET v == Verdict(w.err, Ignored(d.ret, TRUE, space), "nil",
                                w.rest, ReadMark(inBuf, d.took))
               IN  /\ Settle(inBuf, d, w)
                   /\ failed' = IF w.err = "sink" THEN failed + 1 ELSE failed
                   /\ CASE v = "more" -> UNCHANGED <<cl, result, outcome>>
                        [] v = "STREAM_END" -> outcome' = "ok" /\ Returns("ok")
                        [] v = "sink" -> outcome' = "failed" /\ Returns("sink")
                        [] OTHER -> outcome' = "failed" /\ Returns("buf")
    /\ UNCHANGED <<role, src, room, rdErr, closed, accepted, intact, told,
                   empty>>
-----------------------------------------------------------------------------
(***************************************************************************)
(* The reader.                                                             *)
(***************************************************************************)
\* The file is opened.  If something is behind it, it is complete: what a
\* decoder makes of foreign bytes in the middle of its data is anything.
NewReader(tail) ==
    /\ role = "writer" /\ cl = "idle"
    /\ tail # <<>> => dst = Alone(accepted)
    /\ role' = "reader"
    /\ src' = dst \o tail
    /\ intact' = (src' = Alone(accepted))
    /\ inBuf' = Ring(inBuf.size) /\ outBuf' = Ring(outBuf.size)
    /\ z' = Coder(<<>>, 1)
    /\ dst' = <<>> /\ rdErr' = "nil" /\ closed' = FALSE /\ result' = "ok"
    /\ failed' = 0 /\ empty' = FALSE
    /\ UNCHANGED <<cl, room, accepted, outcome, told>>

\* A client may go on after io.EOF or an error.
Read(n) ==
    /\ role = "reader" /\ cl = "idle" /\ ~closed
    /\ cl' = "read" /\ room' = n /\ rdErr' = "nil"
    /\ empty' = (empty \/ n = 0)
    /\ UNCHANGED <<role, src, stream, closed, result, accepted, outcome,
                   intact, failed, told>>

CloseReader ==
    /\ role = "reader" /\ cl = "idle"
    /\ closed' = TRUE
    /\ UNCHANGED <<role, cl, src, stream, room, rdErr, result, accepted,
                   outcome, intact, failed, told, empty>>

\* r.rd.Read of one unit, at the end: the source has no more, has more (which
\* is lost), or fails.
Probes(rest, fails) ==
    {[result |-> IF rest = <<>> THEN "EOF" ELSE "data",
      rest |-> SubSeq(rest, 2, Len(rest)), fail |-> 0]}
    \cup [result : {"data"}, rest : {rest}, fail : IF fails THEN {1} ELSE {}]

\* Mutant: what is behind the end is only looked for in the source.
AllConsumedBySource(left, rest, fails) == Probes(rest, fails)

\* "Ensure all input consumed": at the end of the stream neither inBuf nor
\* the source may have more.
AllConsumed(left, rest, fails) ==
    IF left = <<>> THEN Probes(rest, fails)
    ELSE {[result |-> "data", rest |-> rest, fail |-> 0]}

\* What Read returns for the error of Process: a full slice is none, the end
\* of the source is ErrUnexpectedEOF, STREAM_END is io.EOF.
Reports(v, left, rest, fails) ==
    IF v = "STREAM_END" THEN AllConsumed(left, rest, fails)
    ELSE {[result |-> CASE v = "short" -> "ok"
                        [] v = "EOF" -> "cut"
                        [] v = "BUF_ERROR" -> "buf"
                        [] OTHER -> v,
           rest |-> rest, fail |-> 0]}

\* Process(lib.RUN, ioutil.NewWriter(data), r.rd).
processRead ==
    /\ cl = "read"
    /\ \E f \in Fetches(inBuf, rdErr, src, failed < Failures) :
         LET in == WriteMark(inBuf, SubSeq(src, 1, f.n))
             fed == ReadSlice(in)
             space == WriteSlice(outBuf)
             fails == IF f.err = "err" /\ rdErr = "nil" THEN failed + 1
                                                        ELSE failed
         IN  \E d \in Decoded(z, fed, space) :
               LET w == Delivered(WriteMark(outBuf, d.put), room)
                   left == ReadMark(in, d.took)
                   v == Verdict(w.err, Ignored(d.ret, fed # <<>>, space),
                                f.err, w.rest, left)
               IN  \E r \in Reports(v, left.q, SubSeq(src, f.n + 1, Len(src)),
                                    fails < Failures) :
                     /\ Settle(in, d, w)
                     /\ room' = room - Len(w.put)
                     /\ rdErr' = f.err
                     /\ src' = r.rest
                     /\ failed' = fails + r.fail
                     /\ IF v = "more" THEN UNCHANGED <<cl, result>>
                                      ELSE Returns(r.result)
    /\ told' = (told \/ result' = "data")
    /\ UNCHANGED <<role, closed, accepted, outcome, intact, empty>>

Process == processWrite \/ processClose \/ processRead

Next ==
    \/ Process \/ Close \/ CloseReader
    \/ \E n \in 0 .. Slice : Write(n) \/ Read(n)
    \/ \E tail \in {<<>>, <<Junk>>} : NewReader(tail)

Spec == Init /\ [][Next]_vars

\* A call that has been made runs on.
FairSpec == Spec /\ WF_vars(Process)
-----------------------------------------------------------------------------
(***************************************************************************)
(* Properties.                                                             *)
(***************************************************************************)
\* Nothing is lost or repeated on the way through the Stream, whatever fails,
\* however far a write or a read gets, and wherever the client goes on.  What
\* the sink, the two rings and the encoder hold is, in order, exactly what Write
\* has said to have accepted.  What a reader has handed out or holds is the
\* beginning of that, and with what is left of the file (and a unit behind it)
\* it is all that the file held.
Conserved ==
    LET ahead == dst \o outBuf.q \o z.held
        open == IF z.ended THEN <<>> ELSE <<EndUnit>>
        begun == IF z.skip = 0 THEN <<HeaderUnit>> ELSE <<>>
        done == IF z.ended THEN <<EndUnit>> ELSE <<>>
        all == begun \o ahead \o done \o inBuf.q \o src
    IN  IF role = "writer"
        THEN ahead \o inBuf.q \o open = Alone(accepted)
        ELSE /\ IsPrefix(ahead, Units(accepted))
             /\ IsPrefix(all, Append(Alone(accepted), Junk))
             /\ intact => all = Alone(accepted)

\* The Close that did the work, and it alone, tells whether the file is
\* complete: a second Close returns nil in any case.
CloseTellsComplete ==
    role = "writer" /\ outcome # "none" =>
      (outcome = "ok") = (dst = Alone(accepted))

\* Read's io.EOF means that the writer was closed without an error, that all
\* it accepted has been handed out, and that nothing is behind it or a data
\* error has said so.
EOFMeansIntact ==
    role = "reader" /\ result = "EOF" =>
      outcome = "ok" /\ dst = Units(accepted) /\ (intact \/ told)

\* No error without a cause.  BUF_ERROR, which liblzma means for its caller,
\* is only seen by a client that passes empty slices, or whose sink or source
\* has failed twice, or that reads a file that is not intact; an intact file is
\* neither cut nor bad, except that a source that fails at its end counts as bad.
ErrorsExplained ==
    /\ result = "buf" => empty \/ failed >= 2 \/ (role = "reader" /\ ~intact)
    /\ result \in {"cut", "data"} => ~intact \/ failed > 0

\* Every Write, Close and Read returns.
CallsReturn == cl # "idle" ~> cl = "idle"
=============================================================================
