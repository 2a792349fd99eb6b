------------------------------- MODULE Reader -------------------------------
(***************************************************************************)
(* xz/reader.go with maxWorkers = WorkersSync.  Read calls Stream.Process  *)
(* for the blocks, with the caller's slice as destination, and for the     *)
(* index, without one.  All of it runs in the client's goroutine; what is  *)
(* hard is that the two rings are shared by all the parts of a file and    *)
(* outlive the calls.                                                      *)
(*                                                                         *)
(* A file is a sequence of units, the size of the padding quantum.         *)
(***************************************************************************)
EXTENDS StreamOps, FiniteSets

CONSTANTS Files,       \* the xz files considered
          Truncated,   \* may the file be cut off anywhere?
          SourceFails, \* are there sources that fail?
          Rings,       \* bound: the sizes tried for rdBuf and wrBuf
          MaxRead      \* bound: the largest slice passed to Read

Header == <<-1, -2>>
Footer == <<-3, -4>>
BlockStart == -5
IndexStart == -7
IndexEnd == -8
Pad == -9

IsData(t) == t > 0

\* The format: unit u may come after unit t.  Every unit of an index but the
\* last is an IndexStart.
Follows(t, u) ==
    /\ t = Header[1] => u = Header[2]
    /\ t \in {Header[2], EndUnit} => u \in {BlockStart, IndexStart}
    /\ t = BlockStart \/ IsData(t) => u = EndUnit \/ IsData(u)
    /\ t = IndexStart => u \in {IndexStart, IndexEnd}
    /\ t = IndexEnd => u = Footer[1]
    /\ t = Footer[1] => u = Footer[2]
    /\ t \in {Footer[2], Pad} => u \in {Header[1], Pad}

\* A file, or the beginning of one: streams, with padding behind them.
Formed(f) ==
    /\ f # <<>> => f[1] = Header[1]
    /\ \A i \in 1 .. Len(f) - 1 : Follows(f[i], f[i + 1])

ASSUME ReaderAssumption ==
    /\ Files \subseteq Seq(Int) /\ \A f \in Files : Formed(f)
    /\ Truncated \in BOOLEAN /\ SourceFails \in BOOLEAN
    /\ Rings \subseteq Nat /\ \A r \in Rings : r >= Len(Header)
    /\ MaxRead \in Nat

\* The plain data of a file: its data units, in order.
DataCount(f, n) == Cardinality({i \in 1 .. n : IsData(f[i])})
DataAt(f, k) ==
    CHOOSE i \in 1 .. Len(f) : IsData(f[i]) /\ DataCount(f, i) = k
Data(f) == [k \in 1 .. DataCount(f, Len(f)) |-> f[DataAt(f, k)]]

\* Does the file end where a stream, or its padding, ends?
Whole(f) == f # <<>> /\ Last(f) \in {Last(Footer), Pad}

VARIABLES
    file,   \* what r.rd yields
    faulty, \* may r.rd fail?
    pos,    \* units of it read so far
    rdBuf,  \* the ring of compressed data
    wrBuf,  \* the ring of plain data
    state,  \* r.state; readBlock is "data" once r.stream is there
    z,      \* r.stream, the decoder of the open block
    fed,    \* has the index decoder been given input with FINISH?
    rdErr,  \* rdErr of the running Process call: "nil", "EOF" or "err"
    cl,     \* "idle" or "read"
    room,   \* what is left of the slice passed to Read
    result, \* what the last Read returned: "ok" (nil), "EOF" or "err"
    out     \* history: the plain units handed to the client

env == <<file, faulty>>
vars == <<file, faulty, pos, rdBuf, wrBuf, state, z, fed, rdErr, cl, room,
          result, out>>

TypeOK ==
    /\ file \in Seq(Int)
    /\ faulty \in BOOLEAN
    /\ pos \in 0 .. Len(file)
    /\ IsRing(rdBuf) /\ IsRing(wrBuf) /\ IsCoder(z)
    /\ state \in {"init", "header", "block", "data", "index", "footer",
                  "padding"}
    /\ fed \in BOOLEAN
    /\ rdErr \in {"nil", "EOF", "err"}
    /\ cl \in {"idle", "read"}
    /\ room \in 0 .. MaxRead
    /\ result \in {"ok", "EOF", "err"}
    /\ out \in Seq(Nat)

Init ==
    /\ \E f \in Files : \E n \in 0 .. Len(f) :
         /\ n < Len(f) => Truncated
         /\ file = SubSeq(f, 1, n)
    /\ \E n \in Rings : rdBuf = Ring(n) /\ wrBuf = Ring(n)
    /\ faulty \in {FALSE, SourceFails}
    /\ pos = 0
    /\ state = "init" /\ z = Coder(<<>>, 0) /\ fed = FALSE
    /\ rdErr = "nil"
    /\ cl = "idle" /\ room = 0 /\ result = "ok" /\ out = <<>>
-----------------------------------------------------------------------------
\* A client that was given an error calls no more; after io.EOF it may.
Read(n) ==
    /\ cl = "idle" /\ result # "err"
    /\ cl' = "read" /\ room' = n /\ rdErr' = "nil"
    /\ UNCHANGED <<env, pos, rdBuf, wrBuf, state, z, fed, result, out>>

Returns(r) == cl' = "idle" /\ result' = r

\* What r.rd has not yielded yet.
Rest == SubSeq(file, pos + 1, Len(file))
-----------------------------------------------------------------------------
(***************************************************************************)
(* readFull and the states that use it.                                    *)
(***************************************************************************)
\* Mutant: the ring grows with what is read.
FilledBeyond(size) == WriteMark(rdBuf, Rest)

\* rdBuf.ReadFrom(r.rd), if less than size is there, fills the ring.
Filled(size) ==
    IF Len(rdBuf.q) >= size THEN rdBuf
    ELSE WriteMark(rdBuf, SubSeq(Rest, 1, Lesser(Len(Rest),
                                            rdBuf.size - Len(rdBuf.q))))

\* Mutant: the file may not end after a footer.
CanEOFBeforeStream(s) == s = "header"

\* Where the end of the file is no error.
CanEOF(s) == s \in {"header", "padding"}

\* What Read does with the units it got: take some of them from the ring and
\* go on in the next state; "bad" is an error.
Move(took, next) == [took |-> took, next |-> next]

\* The first size units of the ring.
Got(size) == SubSeq(Filled(size).q, 1, size)

\* readFull(size, ...) and the move for the units got, if there are enough of
\* them.  The slice it returns is longer than size when it had to join two
\* pieces; the decoders of headers look at the first size bytes, and a unit of
\* padding is never in two pieces.
readFull(size, move) ==
    \/ /\ faulty /\ Len(rdBuf.q) < size
       /\ Returns("err")
       /\ UNCHANGED <<pos, rdBuf, state>>
    \/ LET buf == Filled(size)
       IN  /\ pos' = pos + Len(buf.q) - Len(rdBuf.q)
           /\ IF Len(buf.q) < size
              THEN /\ rdBuf' = buf
                   /\ Returns(IF CanEOF(state) /\ buf.q = <<>> THEN "EOF"
                                                               ELSE "err")
                   /\ UNCHANGED state
              ELSE /\ rdBuf' = ReadMark(buf, move.took)
                   /\ IF move.next = "bad"
                      THEN Returns("err") /\ UNCHANGED state
                      ELSE state' = move.next /\ UNCHANGED <<cl, result>>

HeaderMove(got) == Move(Len(Header), IF got = Header THEN "block" ELSE "bad")

readHeader ==
    /\ cl = "read" /\ state \in {"init", "header"}
    /\ readFull(Len(Header), HeaderMove(Got(Len(Header))))
    /\ UNCHANGED <<env, wrBuf, z, fed, rdErr, room, out>>

\* The first byte tells a block from the index; the block's header is taken.
BlockMove(got) ==
    IF got = <<BlockStart>> THEN Move(1, "data")
    ELSE Move(0, IF got = <<IndexStart>> THEN "index" ELSE "bad")

openBlock ==
    /\ cl = "read" /\ state = "block"
    /\ readFull(1, BlockMove(Got(1)))
    /\ z' = IF state' = "data" THEN Coder(<<>>, 0) ELSE z
    /\ rdErr' = "nil"
    /\ UNCHANGED <<env, wrBuf, fed, room, out>>

FooterMove(got) == Move(Len(Footer), IF got = Footer THEN "padding" ELSE "bad")

readFooter ==
    /\ cl = "read" /\ state = "footer"
    /\ readFull(Len(Footer), FooterMove(Got(Len(Footer))))
    /\ UNCHANGED <<env, wrBuf, z, fed, rdErr, room, out>>

\* Mutant: the padding is not taken from the ring.
SkipPaddingUnmarked == Move(0, "padding")

SkipPadding == Move(1, "padding")

PaddingMove(got) == IF got = <<Pad>> THEN SkipPadding ELSE Move(0, "header")

\* One round of the padding loop; the next stream follows, or the end.
readPadding ==
    /\ cl = "read" /\ state = "padding"
    /\ readFull(1, PaddingMove(Got(1)))
    /\ UNCHANGED <<env, wrBuf, z, fed, rdErr, room, out>>
-----------------------------------------------------------------------------
(***************************************************************************)
(* The states that call Process: a step is one round of its loop.          *)
(***************************************************************************)
\* Process(lib.RUN, wr, r.rd): the client gets what fits, a full slice ends
\* the call, STREAM_END ends the block.
processBlock ==
    /\ cl = "read" /\ state = "data"
    /\ \E f \in Fetches(rdBuf, rdErr, Rest, faulty) :
         LET buf == WriteMark(rdBuf, SubSeq(Rest, 1, f.n))
             in == ReadSlice(buf)
             space == WriteSlice(wrBuf)
         IN  \E d \in Decoded(z, in, space) :
               LET w == Delivered(WriteMark(wrBuf, d.put), room)
                   left == ReadMark(buf, d.took)
                   v == Verdict(w.err, Ignored(d.ret, in # <<>>, space),
                                f.err, w.rest, left)
               IN  /\ pos' = pos + f.n
                   /\ rdBuf' = left
                   /\ wrBuf' = w.rest
                   /\ out' = out \o w.put
                   /\ room' = room - Len(w.put)
                   /\ z' = d.z
                   /\ state' = IF v = "STREAM_END" THEN "block" ELSE state
                   /\ rdErr' = f.err
                   /\ CASE v \in {"more", "STREAM_END"} ->
                             UNCHANGED <<cl, result>>
                        [] v = "short" -> Returns("ok")
                        [] v = "EOF" -> Returns("EOF")
                        [] OTHER -> Returns("err")
    /\ UNCHANGED <<env, fed>>

\* The index decoder takes the units up to the end of the index.  Given new
\* input after FINISH, it refuses it.
IndexDecoded(in, again) ==
    IF again THEN [took : {0}, ret : {"PROG_ERROR"}]
    ELSE LET Open(n) == \A i \in 1 .. n : in[i] # IndexEnd
         IN  [took : {n \in {Len(in)} : Open(n)}, ret : {"OK"}]
             \cup [took : {n \in 1 .. Len(in) :
                             in[n] = IndexEnd /\ Open(n - 1)},
                   ret : {"STREAM_END"}]

\* Process(lib.FINISH, nil, r.rd) of the index decoder; a second piece of
\* input is a PROG_ERROR, and every Read starts with a new decoder.
readIndex ==
    /\ cl = "read" /\ state = "index"
    /\ \E f \in Fetches(rdBuf, rdErr, Rest, faulty) :
         LET buf == WriteMark(rdBuf, SubSeq(Rest, 1, f.n))
             in == ReadSlice(buf)
         IN  \E d \in IndexDecoded(in, fed /\ in # <<>>) :
               LET left == ReadMark(buf, d.took)
                   v == Verdict("nil", d.ret, f.err, wrBuf, left)
               IN  /\ pos' = pos + f.n
                   /\ rdBuf' = left
                   /\ fed' = (v = "more")
                   /\ state' = IF v = "STREAM_END" THEN "footer" ELSE state
                   /\ rdErr' = f.err
                   /\ CASE v \in {"more", "STREAM_END"} ->
                             UNCHANGED <<cl, result>>
                        [] v = "EOF" -> Returns("EOF")
                        [] OTHER -> Returns("err")
    /\ UNCHANGED <<env, wrBuf, z, room, out>>

Step ==
    \/ readHeader \/ openBlock \/ processBlock \/ readIndex \/ readFooter
    \/ readPadding

Next == Step \/ \E n \in 0 .. MaxRead : Read(n)

Spec == Init /\ [][Next]_vars

\* A call that has been made runs on.
FairSpec == Spec /\ WF_vars(Step)
-----------------------------------------------------------------------------
(***************************************************************************)
(* Properties.                                                             *)
(***************************************************************************)
\* Whatever the sizes of the slices and of the reads, and wherever the file
\* is cut or the source fails, the client gets the data in order and without
\* a gap or a repetition: what a full slice leaves in wrBuf and in the
\* decoder comes first in the next call.
DeliveredInOrder == IsPrefix(out, Data(file))

\* io.EOF never comes early: a complete file has been handed out in full.  A
\* file that is cut off gives io.EOF only if it ends inside a block or an
\* index, where Process passes on the io.EOF of the source; at a header or a
\* footer readFull refuses it.
EOFMeansAll ==
    result = "EOF" => IF Whole(file) THEN out = Data(file)
                                     ELSE state \in {"data", "index"}

\* A complete file is read without an error.
GoodFileReads == Whole(file) /\ ~faulty => result # "err"

\* ... as far as the code bears it out: a complete file that fits in the ring
\* is read without an error other than that of its source.  (One that does
\* not may have its index met in more than one piece, which is PROG_ERROR, or
\* empty slices meet a full wrBuf twice, which is BUF_ERROR.)
FittingFileReads ==
    result = "err" /\ Whole(file) /\ Len(file) <= rdBuf.size => faulty

\* Every Read returns: no round of Process and of the padding loop repeats
\* without progress.
ReadReturns == cl = "read" ~> cl = "idle"
=============================================================================
