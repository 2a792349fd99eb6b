------------------------------ MODULE SyncWriter ------------------------------
(***************************************************************************)
(* xz/writer.go with maxWorkers = WorkersSync and a positive chunk size:   *)
(* Write collects a chunk in rdBuf and, when it is full, encodes it into   *)
(* wrBuf and writes it before it goes on; Close does the same for the last *)
(* chunk and adds the index and the footer.  Everything runs in the        *)
(* client's goroutine; what is hard is a failure in the middle of a step,  *)
(* because the buffers are reused and no error is remembered: the client   *)
(* may go on writing after an error, and it may close.                     *)
(*                                                                         *)
(* Units of data are 1, 2, 3, ... as in XzStream.  The file is kept with   *)
(* its history: tried has an entry for every chunk that has gone through   *)
(* blockEncodeSync, and the file is what the entries have put out.         *)
(***************************************************************************)
EXTENDS Naturals, Sequences, FiniteSets

CONSTANTS ChunkSize, \* chunkSize, in units
          Total,     \* bound: the units the client has to write
          MaxWrite,  \* bound: the units of one Write call
          Faults     \* what may fail: "encode", "write", "index", "trailer"

ASSUME SyncAssumption ==
    /\ ChunkSize \in Nat \ {0}
    /\ Total \in Nat \ {0}
    /\ MaxWrite \in 1 .. Total
    /\ Faults \subseteq {"encode", "write", "index", "trailer"}

VARIABLES
    cl,      \* "idle", in Write: "loop"; in Close: "trail"; and for both
             \* the steps of blockEncodeSync: "encode", "index", "emit"
    todo,    \* units the running Write call still has to place
    sent,    \* units accepted by rdBuf so far
    rdBuf,   \* the chunk being collected
    wrBuf,   \* what has been encoded and not yet written
    closed,  \* w.closed
    wrote,   \* "ok" until a Write call has returned an error
    outcome, \* how Close ended: "none", "ok" or "err"
    tried,   \* the chunks that blockEncodeSync was called for, in order
    records, \* w.index: uncompressed sizes appended
    trailer  \* the index and footer in the file

vars == <<cl, todo, sent, rdBuf, wrBuf, closed, wrote, outcome, tried,
          records, trailer>>

Unit == 1 .. Total

\* Bytes in wrBuf that are no data: the header and the beginning of a block
\* whose encoding failed.
Rest == 0

Cell == {Rest} \cup Unit

Step == {"encode", "index", "write"}

\* chunk: what was to be written; res: "ok" or the step that failed; out:
\* what was handed to wr.Write, which has put out a part of it if it failed.
Try == [chunk : Seq(Unit), res : {"ok"} \cup Step, out : Seq(Cell)]

TypeOK ==
    /\ cl \in {"idle", "loop", "encode", "index", "emit", "trail"}
    /\ todo \in 0 .. MaxWrite
    /\ sent \in 0 .. Total
    /\ rdBuf \in Seq(Unit) /\ Len(rdBuf) <= ChunkSize
    /\ wrBuf \in Seq(Cell)
    /\ closed \in BOOLEAN
    /\ wrote \in {"ok", "err"}
    /\ outcome \in {"none", "ok", "err"}
    /\ tried \in Seq(Try)
    /\ records \in Seq(Nat)
    /\ trailer \in Seq(Nat)

Init ==
    /\ cl = "idle" /\ todo = 0 /\ sent = 0
    /\ rdBuf = <<>> /\ wrBuf = <<>>
    /\ closed = FALSE /\ wrote = "ok" /\ outcome = "none"
    /\ tried = <<>> /\ records = <<>> /\ trailer = <<>>
-----------------------------------------------------------------------------
\* Write tests w.closed only: it is open to a client that was given an error.
Write(n) ==
    /\ cl = "idle" /\ ~closed
    /\ sent + n <= Total
    /\ todo' = n
    /\ cl' = "loop"
    /\ UNCHANGED <<sent, rdBuf, wrBuf, closed, wrote, outcome, tried, records,
                   trailer>>

\* rdBuf.Write takes what fits; a short write leads to blockEncodeSync.
WriteFills ==
    /\ cl = "loop"
    /\ LET room == ChunkSize - Len(rdBuf)
           k == IF todo <= room THEN todo ELSE room
       IN  /\ rdBuf' = rdBuf \o [j \in 1 .. k |-> sent + j]
           /\ sent' = sent + k
           /\ todo' = todo - k
           /\ cl' = IF k = todo THEN "idle" ELSE "encode"
    /\ UNCHANGED <<wrBuf, closed, wrote, outcome, tried, records, trailer>>

\* Close encodes what is left, if anything is.
Close ==
    /\ cl = "idle" /\ ~closed
    /\ closed' = TRUE
    /\ cl' = IF Len(rdBuf) > 0 THEN "encode" ELSE "trail"
    /\ UNCHANGED <<todo, sent, rdBuf, wrBuf, wrote, outcome, tried, records,
                   trailer>>

\* The chunk in rdBuf has been dealt with; the deferred rdBuf.Reset.
Done(res, out) ==
    /\ tried' = Append(tried, [chunk |-> rdBuf, res |-> res, out |-> out])
    /\ rdBuf' = <<>>

\* The panic of blockEncodeSync becomes the error of Write or of Close.
Fails(step, out) ==
    /\ step \in Faults
    /\ Done(step, out)
    /\ cl' = "idle"
    /\ todo' = 0
    /\ IF closed THEN outcome' = "err" /\ UNCHANGED wrote
                 ELSE wrote' = "err" /\ UNCHANGED outcome

\* blockEncode(w.wrBuf, w.rdBuf).  A compressed block goes behind what wrBuf
\* holds; if it does not fit, wrBuf is rolled back and holds the literal
\* block alone.  When it fails (a wrBuf without space for a header is such a
\* failure too), wrBuf may have got a part of the block, and it is not reset.
blockEncode ==
    /\ cl = "encode"
    /\ \/ /\ wrBuf' \in {wrBuf \o rdBuf, rdBuf}
          /\ cl' = "index"
          /\ UNCHANGED <<todo, rdBuf, wrote, outcome, tried>>
       \/ /\ Fails("encode", <<>>)
          /\ wrBuf' \in {wrBuf, Append(wrBuf, Rest)}
    /\ UNCHANGED <<sent, closed, records, trailer>>

\* w.index.Append comes before the block is written, and before wrBuf.Reset
\* is deferred: when it fails, the block stays in wrBuf.
appendIndex ==
    /\ cl = "index"
    /\ \/ /\ records' = Append(records, Len(rdBuf))
          /\ cl' = "emit"
          /\ UNCHANGED <<todo, rdBuf, wrote, outcome, tried>>
       \/ /\ Fails("index", <<>>)
          /\ UNCHANGED records
    /\ UNCHANGED <<sent, wrBuf, closed, trailer>>

\* Mutant: wrBuf is not reset.
ResetNot == UNCHANGED wrBuf

\* The deferred wrBuf.Reset.
Reset == wrBuf' = <<>>

Emits ==
    /\ Done("ok", wrBuf)
    /\ Reset
    /\ cl' = IF closed THEN "trail" ELSE "loop"
    /\ UNCHANGED <<todo, wrote, outcome>>

\* Mutant: wrBuf is reset only behind the check of the error.
EmitFailsDirty == Fails("write", wrBuf) /\ UNCHANGED wrBuf

EmitFails == Fails("write", wrBuf) /\ Reset

\* w.wr.Write(data), then both deferred resets.
writeBlock ==
    /\ cl = "emit"
    /\ Emits \/ EmitFails
    /\ UNCHANGED <<sent, closed, records, trailer>>

CloseWritesTrailer ==
    /\ cl = "trail"
    /\ \/ trailer' = records /\ outcome' = "ok"
       \/ "trailer" \in Faults /\ outcome' = "err" /\ UNCHANGED trailer
    /\ cl' = "idle"
    /\ UNCHANGED <<todo, sent, rdBuf, wrBuf, closed, wrote, tried, records>>

Next ==
    \/ \E n \in 1 .. MaxWrite : Write(n)
    \/ WriteFills \/ Close \/ blockEncode \/ appendIndex \/ writeBlock
    \/ CloseWritesTrailer

Spec == Init /\ [][Next]_vars
-----------------------------------------------------------------------------
\* The chunks written before anything failed.
Sound == {k \in DOMAIN tried : \A j \in 1 .. k : tried[j].res = "ok"}

\* The promise of a Writer ends with the first call that fails, be it Write
\* or Close: a Close that succeeds after a failed Write is no success.
Stream == INSTANCE XzStream WITH
    accepted <- sent,
    blocks <- [k \in Sound |-> tried[k].out],
    index <- IF wrote = "err" THEN <<>> ELSE trailer,
    outcome <- IF wrote = "err" THEN "err" ELSE outcome

\* Until the first call that returns an error the blocks are the data, in
\* order and each unit once, across all reuses of the two buffers; if no call
\* has failed, Close leaves all the data and an index of exactly the blocks.
ImplementsStream == Stream!Spec

\* The units dealt with by the first k tries.
Upto(k) == IF k = 0 THEN 0 ELSE Stream!Last(tried[k].chunk)

\* Writes past an error: the chunks follow each other without a gap or an
\* overlap, whatever has failed, so what a failed call has lost is its own
\* chunk.
ChunksFollow ==
    /\ \A k \in DOMAIN tried :
         tried[k].chunk = Stream!Units(Upto(k - 1), Upto(k))
    /\ rdBuf = Stream!Units(Upto(Len(tried)), sent)

EndsWith(s, t) ==
    /\ Len(t) <= Len(s)
    /\ \A j \in 1 .. Len(t) : s[(Len(s) - Len(t)) + j] = t[j]

\* A chunk whose call has not failed is in the file whole and alone; only a
\* chunk that follows one whose encoding or index.Append failed may come
\* behind the rest of that one, and no later chunk does.
WholeOrAfterRest ==
    \A k \in DOMAIN tried :
      tried[k].res = "ok" =>
        \/ tried[k].out = tried[k].chunk
        \/ /\ k > 1 /\ tried[k - 1].res \in {"encode", "index"}
           /\ EndsWith(tried[k].out, tried[k].chunk)

\* index.Append comes first: a block whose write failed is listed, one whose
\* encoding or index.Append failed is not.
Listed ==
    cl # "emit" =>
      Len(records) =
        Cardinality({k \in DOMAIN tried : tried[k].res \in {"ok", "write"}})

\* What the client knows about its data when it writes and closes past any
\* number of errors: what every call has lost, where a block may be damaged
\* without an error of its own call, and which blocks the index lists.
LossesAreKnown == ChunksFollow /\ WholeOrAfterRest /\ Listed
=============================================================================
