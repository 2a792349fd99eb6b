-------------------------- MODULE SyncWriterProofs --------------------------
(***************************************************************************)
(* Proofs about SyncWriter, for any chunk size, any amount of data, writes *)
(* of any size and any set of faults, with a client that goes on after     *)
(* errors: its losses are known, and until the first error the synchronous *)
(* Writer implements XzStream.                                             *)
(***************************************************************************)
EXTENDS SyncWriter, SequenceTheorems, FiniteSetTheorems, TLAPS

\* Some chunk has failed.
Failed == \E k \in 1 .. Len(tried) : tried[k].res # "ok"

\* A chunk that fails is told of, and Write fails over a chunk only.
ErrorsTold ==
    /\ wrote = "err" => Failed
    /\ Failed => wrote = "err" \/ outcome = "err"

\* Close is the last call, and what it returns is its last step.
CloseIsLast ==
    /\ closed => cl # "loop"
    /\ cl = "trail" => closed
    /\ outcome # "none" => closed /\ cl = "idle"
    /\ outcome = "none" => trailer = <<>>

\* A block is encoded only if there is something to encode, and the trailer
\* follows only when there is not.
ChunkPresent ==
    /\ cl \in {"encode", "index", "emit"} => rdBuf # <<>>
    /\ cl = "trail" => rdBuf = <<>>

\* The chunks end where the data in rdBuf begins.
CutInRange == Upto(Len(tried)) \in 0 .. sent

\* The last try has left before wrBuf was to be reset.
Tainted ==
    Len(tried) > 0 /\ tried[Len(tried)].res \in {"encode", "index"}

\* What wrBuf may hold besides the block.
BlockBehindRest ==
    IF cl \in {"index", "emit"}
    THEN wrBuf = rdBuf \/ (Tainted /\ EndsWith(wrBuf, rdBuf))
    ELSE wrBuf = <<>> \/ Tainted

\* The tries that have a record.
WithRecord == {k \in 1 .. Len(tried) : tried[k].res \in {"ok", "write"}}

RecordsCounted ==
    Len(records) =
      IF cl = "emit" THEN Cardinality(WithRecord) + 1
                     ELSE Cardinality(WithRecord)

\* Until a chunk fails the index has a record for every chunk, and one for the
\* block about to be written.
RecordsMatch ==
    /\ Len(records) = IF cl = "emit" THEN Len(tried) + 1 ELSE Len(tried)
    /\ \A k \in 1 .. Len(tried) : records[k] = Len(tried[k].chunk)
    /\ cl = "emit" => records[Len(tried) + 1] = Len(rdBuf)

\* The part of the invariant about the calls.
Calls == ErrorsTold /\ CloseIsLast /\ ChunkPresent

\* The part of the invariant about the data.
Contents ==
    /\ CutInRange /\ ChunksFollow
    /\ BlockBehindRest /\ WholeOrAfterRest
    /\ RecordsCounted /\ (~Failed => RecordsMatch)

SyncInv ==
    /\ TypeOK
    /\ sent + todo <= Total
    /\ Calls
    /\ Contents
-----------------------------------------------------------------------------
(***************************************************************************)
(* Lemmas about runs of units.                                             *)
(***************************************************************************)
\* A run of units is a sequence of known length.
LEMMA UnitsSeq ==
    ASSUME NEW lo \in Nat, NEW hi \in Nat, lo <= hi
    PROVE  /\ Stream!Units(lo, hi) \in Seq(Nat)
           /\ Len(Stream!Units(lo, hi)) = hi - lo
           /\ \A k \in 1 .. (hi - lo) : Stream!Units(lo, hi)[k] = lo + k
  BY DEF Stream!Units

\* A run that ends where it starts is empty.
LEMMA UnitsEmpty ==
    ASSUME NEW n \in Nat
    PROVE  Stream!Units(n, n) = <<>>
  BY UnitsSeq, EmptySeq

\* A run is extended by the units that follow it.
LEMMA UnitsExtend ==
    ASSUME NEW lo \in Nat, NEW hi \in Nat, lo <= hi, NEW k \in Nat
    PROVE  Stream!Units(lo, hi) \o [j \in 1 .. k |-> hi + j]
             = Stream!Units(lo, hi + k)
  <1> DEFINE a == Stream!Units(lo, hi)
             b == [j \in 1 .. k |-> hi + j]
             c == Stream!Units(lo, hi + k)
  <1>1. /\ a \in Seq(Nat) /\ Len(a) = hi - lo
        /\ \A j \in 1 .. (hi - lo) : a[j] = lo + j
    BY UnitsSeq
  <1>2. /\ b \in Seq(Nat) /\ Len(b) = k
        /\ \A j \in 1 .. k : b[j] = hi + j
    OBVIOUS
  <1>3. hi + k \in Nat /\ lo <= hi + k
    OBVIOUS
  <1>4. /\ c \in Seq(Nat) /\ Len(c) = hi + k - lo
        /\ \A j \in 1 .. (hi + k - lo) : c[j] = lo + j
    BY <1>3, UnitsSeq
  <1> HIDE DEF a, b, c
  <1>5. /\ a \o b \in Seq(Nat) /\ Len(a \o b) = Len(a) + Len(b)
        /\ \A j \in 1 .. Len(a) + Len(b) :
             (a \o b)[j] = IF j <= Len(a) THEN a[j] ELSE b[j - Len(a)]
    BY <1>1, <1>2, ConcatProperties
  <1>6. Len(a \o b) = Len(c) /\ \A j \in 1 .. Len(a \o b) : (a \o b)[j] = c[j]
    <2>1. Len(a \o b) = Len(c) /\ Len(c) = hi + k - lo
      BY <1>1, <1>2, <1>4, <1>5
    <2> SUFFICES ASSUME NEW j \in 1 .. (hi + k - lo)
                 PROVE  (a \o b)[j] = c[j]
      BY <2>1
    <2>2. c[j] = lo + j
      BY <1>4
    <2>3. CASE j <= hi - lo
      BY <1>1, <1>2, <1>5, <2>2, <2>3
    <2>4. CASE ~(j <= hi - lo)
      <3>1. j - (hi - lo) \in 1 .. k
        BY <2>4
      <3>2. b[j - (hi - lo)] = hi + (j - (hi - lo))
        BY <1>2, <3>1
      <3> QED BY <1>1, <1>2, <1>5, <2>2, <2>4, <3>2
    <2> QED BY <2>3, <2>4
  <1>7. a \o b = c
    BY <1>4, <1>5, <1>6, SeqEqual
  <1> QED BY <1>7 DEF a, b, c

\* What one round of WriteFills puts into rdBuf, and where it leads.
LEMMA FillsFields ==
    ASSUME TypeOK, sent + todo <= Total, WriteFills
    PROVE  \E k \in 0 .. todo :
             /\ rdBuf' = rdBuf \o [j \in 1 .. k |-> sent + j]
             /\ [j \in 1 .. k |-> sent + j] \in Seq(Unit)
             /\ Len(rdBuf') = Len(rdBuf) + k /\ Len(rdBuf') <= ChunkSize
             /\ sent' = sent + k /\ todo' = todo - k
             /\ \/ cl' = "idle"
                \/ cl' = "encode" /\ Len(rdBuf') = ChunkSize
  <1> DEFINE room == ChunkSize - Len(rdBuf)
             k == IF todo <= room THEN todo ELSE room
             new == [j \in 1 .. k |-> sent + j]
  <1>1. /\ rdBuf \in Seq(Unit) /\ Len(rdBuf) \in Nat
        /\ Len(rdBuf) <= ChunkSize /\ ChunkSize \in Nat
        /\ todo \in Nat /\ sent \in Nat /\ Total \in Nat
    BY SyncAssumption DEF TypeOK
  <1>2. room \in Nat /\ k \in 0 .. todo /\ k <= room
    BY <1>1
  <1>3. /\ rdBuf' = rdBuf \o new /\ sent' = sent + k /\ todo' = todo - k
        /\ cl' = IF k = todo THEN "idle" ELSE "encode"
    BY DEF WriteFills
  <1>4. k # todo => k = room
    OBVIOUS
  <1> HIDE DEF k
  <1>5. \A j \in 1 .. k : sent + j \in Unit
    BY <1>1, <1>2 DEF Unit
  <1>6. new \in Seq(Unit) /\ Len(new) = k
    BY <1>2, <1>5
  <1> HIDE DEF new
  <1>7. Len(rdBuf') = Len(rdBuf) + k
    BY <1>1, <1>3, <1>6, ConcatProperties
  <1>8. Len(rdBuf') <= ChunkSize /\ (k = room => Len(rdBuf') = ChunkSize)
    BY <1>1, <1>2, <1>7
  <1> QED BY <1>2, <1>3, <1>4, <1>6, <1>7, <1>8 DEF new

\* The end of a try: its chunk, its result and what it has put out.
LEMMA DoneFields ==
    ASSUME TypeOK, NEW res \in {"ok"} \cup Step,
           NEW out \in Seq(Cell), Done(res, out)
    PROVE  /\ tried' \in Seq(Try) /\ rdBuf' = <<>>
           /\ Len(tried') = Len(tried) + 1
           /\ \A k \in 1 .. Len(tried) : tried'[k] = tried[k]
           /\ tried'[Len(tried) + 1].chunk = rdBuf
           /\ tried'[Len(tried) + 1].res = res
           /\ tried'[Len(tried) + 1].out = out
  <1> DEFINE t == [chunk |-> rdBuf, res |-> res, out |-> out]
  <1>1. t \in Try /\ tried \in Seq(Try)
    BY DEF TypeOK, Try
  <1>2. tried' = Append(tried, t) /\ rdBuf' = <<>>
    BY DEF Done
  <1>3. t.chunk = rdBuf /\ t.res = res /\ t.out = out
    OBVIOUS
  <1> HIDE DEF t
  <1> QED BY <1>1, <1>2, <1>3, AppendProperties

\* A failed call returns, and tells.
LEMMA FailsFields ==
    ASSUME TypeOK, NEW step \in Step, NEW out \in Seq(Cell),
           Fails(step, out)
    PROVE  /\ cl' = "idle" /\ todo' = 0
           /\ wrote' \in {"ok", "err"} /\ outcome' \in {"none", "ok", "err"}
           /\ IF closed THEN outcome' = "err" /\ wrote' = wrote
                        ELSE wrote' = "err" /\ outcome' = outcome
           /\ Done(step, out)
  BY DEF TypeOK, Fails


\* Every step preserves the types and stays within the data there is.
LEMMA SyncTypeStep ==
    ASSUME TypeOK, sent + todo <= Total, [Next]_vars
    PROVE  (TypeOK /\ sent + todo <= Total)'
  <1>0. /\ ChunkSize \in Nat \ {0} /\ Total \in Nat /\ MaxWrite \in Nat
        /\ todo \in Nat /\ sent \in Nat /\ Len(rdBuf) \in Nat
    BY SyncAssumption DEF TypeOK
  <1>r. rdBuf \in Seq(Cell) /\ wrBuf \in Seq(Cell) /\ Rest \in Cell
    BY DEF TypeOK, Cell, Rest
  <1>e. Len(<<>>) <= ChunkSize /\ <<>> \in Seq(Unit) /\ 0 \in 0 .. MaxWrite
    BY <1>0
  <1>1. ASSUME NEW n \in 1 .. MaxWrite, Write(n)
        PROVE  (TypeOK /\ sent + todo <= Total)'
    BY <1>0, <1>1 DEF Write, TypeOK
  <1>2. CASE WriteFills
    <2>1. PICK k \in 0 .. todo :
             /\ rdBuf' = rdBuf \o [j \in 1 .. k |-> sent + j]
             /\ [j \in 1 .. k |-> sent + j] \in Seq(Unit)
             /\ Len(rdBuf') <= ChunkSize
             /\ sent' = sent + k /\ todo' = todo - k
             /\ cl' \in {"idle", "encode"}
      BY <1>2, FillsFields
    <2>2. rdBuf' \in Seq(Unit)
      BY <2>1, ConcatProperties DEF TypeOK
    <2>3. /\ todo' \in 0 .. MaxWrite /\ sent' \in 0 .. Total
          /\ sent' + todo' <= Total
      BY <1>0, <2>1 DEF TypeOK
    <2> QED BY <1>2, <2>1, <2>2, <2>3 DEF WriteFills, TypeOK
  <1>3. CASE Close
    BY <1>3 DEF Close, TypeOK
  <1>f. ASSUME NEW step \in Step, NEW out \in Seq(Cell),
               Fails(step, out), UNCHANGED <<sent, closed, records, trailer>>,
               wrBuf' \in Seq(Cell)
        PROVE  (TypeOK /\ sent + todo <= Total)'
    <2>1. /\ cl' = "idle" /\ todo' = 0 /\ Done(step, out)
          /\ wrote' \in {"ok", "err"} /\ outcome' \in {"none", "ok", "err"}
      BY <1>f, FailsFields
    <2>2. tried' \in Seq(Try) /\ rdBuf' = <<>>
      BY <1>f, <2>1, DoneFields
    <2> QED BY <1>0, <1>e, <1>f, <2>1, <2>2 DEF TypeOK
  <1>4. CASE blockEncode
    <2>1. UNCHANGED <<sent, closed, records, trailer>>
      BY <1>4 DEF blockEncode
    <2>2. CASE /\ wrBuf' \in {wrBuf \o rdBuf, rdBuf}
               /\ cl' = "index"
               /\ UNCHANGED <<todo, rdBuf, wrote, outcome, tried>>
      <3>1. wrBuf \o rdBuf \in Seq(Cell)
        BY <1>r, ConcatProperties
      <3>2. wrBuf' \in Seq(Cell)
        BY <1>r, <2>2, <3>1
      <3> QED BY <2>1, <2>2, <3>2 DEF TypeOK
    <2>3. CASE Fails("encode", <<>>) /\ wrBuf' \in {wrBuf, Append(wrBuf, Rest)}
      <3>0. Append(wrBuf, Rest) \in Seq(Cell)
        BY <1>r, AppendProperties
      <3>1. wrBuf' \in Seq(Cell)
        BY <1>r, <2>3, <3>0
      <3>2. "encode" \in Step /\ <<>> \in Seq(Cell)
        BY DEF Step
      <3> QED BY <1>f, <2>1, <2>3, <3>1, <3>2
    <2> QED BY <1>4, <2>2, <2>3 DEF blockEncode
  <1>5. CASE appendIndex
    <2>1. UNCHANGED <<sent, wrBuf, closed, trailer>>
      BY <1>5 DEF appendIndex
    <2>2. CASE /\ records' = Append(records, Len(rdBuf))
               /\ cl' = "emit"
               /\ UNCHANGED <<todo, rdBuf, wrote, outcome, tried>>
      BY <1>0, <2>1, <2>2, AppendProperties DEF TypeOK
    <2>3. CASE Fails("index", <<>>) /\ UNCHANGED records
      <3>1. /\ "index" \in Step /\ <<>> \in Seq(Cell)
            /\ wrBuf' \in Seq(Cell)
        BY <2>1 DEF Step, TypeOK
      <3> QED BY <1>f, <2>1, <2>3, <3>1
    <2> QED BY <1>5, <2>2, <2>3 DEF appendIndex
  <1>6. CASE writeBlock
    <2>1. /\ UNCHANGED <<sent, closed, records, trailer>>
          /\ wrBuf' = <<>>
          /\ "write" \in Step /\ wrBuf \in Seq(Cell)
          /\ <<>> \in Seq(Cell)
      BY <1>6 DEF writeBlock, Emits, EmitFails, Reset, Step, TypeOK
    <2>2. CASE Emits
      <3>1. /\ Done("ok", wrBuf) /\ cl' = IF closed THEN "trail" ELSE "loop"
            /\ UNCHANGED <<todo, wrote, outcome>>
        BY <2>2 DEF Emits
      <3>2. tried' \in Seq(Try) /\ rdBuf' = <<>>
        BY <2>1, <3>1, DoneFields
      <3> QED BY <1>0, <1>e, <2>1, <3>1, <3>2 DEF TypeOK
    <2>3. CASE EmitFails
      BY <1>f, <2>1, <2>3 DEF EmitFails
    <2> QED BY <1>6, <2>2, <2>3 DEF writeBlock
  <1>7. CASE CloseWritesTrailer
    BY <1>7 DEF CloseWritesTrailer, TypeOK
  <1>8. CASE UNCHANGED vars
    BY <1>8 DEF vars, TypeOK
  <1> QED BY <1>1, <1>2, <1>3, <1>4, <1>5, <1>6, <1>7, <1>8 DEF Next
-----------------------------------------------------------------------------
(***************************************************************************)
(* What the end of a try does to the history.                              *)
(***************************************************************************)
\* The chunk of a try is all that was pending; the next one begins behind it.
LEMMA ChunkDone ==
    ASSUME TypeOK, CutInRange, ChunksFollow, rdBuf # <<>>,
           NEW res \in {"ok"} \cup Step, NEW out \in Seq(Cell),
           Done(res, out), sent' = sent
    PROVE  (CutInRange /\ ChunksFollow)'
  <1>0. PICK n \in Nat : n = Len(tried)
    BY DEF TypeOK
  <1>1. /\ n \in Nat /\ n = Len(tried) /\ DOMAIN tried = 1 .. n
        /\ rdBuf \in Seq(Unit) /\ sent \in Nat
    BY <1>0 DEF TypeOK
  <1>2. /\ Len(tried') = n + 1 /\ rdBuf' = <<>> /\ DOMAIN tried' = 1 .. (n + 1)
        /\ \A k \in 1 .. n : tried'[k] = tried[k]
        /\ tried'[n + 1].chunk = rdBuf
    BY <1>1, DoneFields
  <1>3. /\ Upto(n) \in 0 .. sent
        /\ rdBuf = Stream!Units(Upto(n), sent)
        /\ \A k \in 1 .. n :
              tried[k].chunk = Stream!Units(Upto(k - 1), Upto(k))
    BY <1>1 DEF CutInRange, ChunksFollow
  <1>4. \A k \in 0 .. n : Upto(k)' = Upto(k)
    BY <1>1, <1>2 DEF Upto
  <1>5. Upto(n + 1)' = sent
    <2>1. /\ Len(rdBuf) = sent - Upto(n)
          /\ \A k \in 1 .. (sent - Upto(n)) : rdBuf[k] = Upto(n) + k
      <3>1. Upto(n) \in Nat /\ Upto(n) <= sent
        BY <1>1, <1>3
      <3> QED BY <1>1, <1>3, <3>1, UnitsSeq
    <2>2. Len(rdBuf) > 0
      BY <1>1
    <2>3. rdBuf[Len(rdBuf)] = sent
      BY <1>1, <1>3, <2>1, <2>2
    <2>4. Upto(n + 1)' = rdBuf[Len(rdBuf)]
      BY <1>1, <1>2 DEF Upto, Stream!Last
    <2> QED BY <2>3, <2>4
  <1>6. ASSUME NEW k \in 1 .. (n + 1)
        PROVE  tried'[k].chunk = Stream!Units(Upto(k - 1)', Upto(k)')
    <2>1. CASE k \in 1 .. n
      <3>1. k - 1 \in 0 .. n /\ k \in 0 .. n
        BY <1>1, <2>1
      <3> QED BY <1>2, <1>3, <1>4, <2>1, <3>1
    <2>2. CASE k = n + 1
      <3>1. k - 1 = n /\ n \in 0 .. n
        BY <1>1, <2>2
      <3> QED BY <1>2, <1>3, <1>4, <1>5, <2>2, <3>1
    <2> QED BY <1>1, <2>1, <2>2
  <1>e. Upto(Len(tried))' = sent
    <2>1. Upto(Len(tried))' = Upto(n + 1)'
      BY <1>2 DEF Upto
    <2> QED BY <1>5, <2>1
  <1>7. rdBuf' = Stream!Units(Upto(Len(tried))', sent')
    BY <1>1, <1>2, <1>e, UnitsEmpty
  <1>8. Upto(Len(tried))' \in 0 .. sent'
    BY <1>1, <1>e
  <1> QED BY <1>2, <1>6, <1>7, <1>8 DEF CutInRange, ChunksFollow

\* A try that succeeds has put out its chunk, behind a rest at most.
LEMMA RestDone ==
    ASSUME TypeOK, WholeOrAfterRest,
           NEW res \in {"ok"} \cup Step, NEW out \in Seq(Cell),
           Done(res, out),
           res = "ok" => out = rdBuf \/ (Tainted /\ EndsWith(out, rdBuf))
    PROVE  /\ WholeOrAfterRest'
           /\ Tainted' <=> res \in {"encode", "index"}
           /\ Failed' <=> Failed \/ res # "ok"
  <1> DEFINE n == Len(tried)
  <1>1. n \in Nat /\ DOMAIN tried = 1 .. n
    BY DEF TypeOK
  <1>2. /\ Len(tried') = n + 1 /\ DOMAIN tried' = 1 .. (n + 1)
        /\ \A k \in 1 .. n : tried'[k] = tried[k]
        /\ tried'[n + 1].chunk = rdBuf /\ tried'[n + 1].res = res
        /\ tried'[n + 1].out = out
    BY <1>1, DoneFields
  <1>3. Tainted' <=> res \in {"encode", "index"}
    BY <1>1, <1>2 DEF Tainted
  <1>4. Failed' <=> Failed \/ res # "ok"
    BY <1>1, <1>2 DEF Failed
  <1>5. ASSUME NEW k \in 1 .. (n + 1), tried'[k].res = "ok"
        PROVE  \/ tried'[k].out = tried'[k].chunk
               \/ /\ k > 1 /\ tried'[k - 1].res \in {"encode", "index"}
                  /\ EndsWith(tried'[k].out, tried'[k].chunk)
    <2>1. CASE k \in 1 .. n
      <3>1. k > 1 => k - 1 \in 1 .. n
        BY <1>1, <2>1
      <3>2. tried'[k] = tried[k] /\ (k > 1 => tried'[k - 1] = tried[k - 1])
        BY <1>2, <2>1, <3>1
      <3> QED BY <1>1, <1>5, <2>1, <3>2 DEF WholeOrAfterRest
    <2>2. CASE k = n + 1
      <3>1. Tainted => n > 0 /\ tried[n].res \in {"encode", "index"}
        BY DEF Tainted
      <3>2. n > 0 => k > 1 /\ k - 1 = n /\ tried'[n] = tried[n]
        BY <1>1, <1>2, <2>2
      <3> QED BY <1>2, <1>5, <2>2, <3>1, <3>2
    <2> QED BY <1>1, <2>1, <2>2
  <1>6. WholeOrAfterRest'
    BY <1>2, <1>5 DEF WholeOrAfterRest
  <1> QED BY <1>3, <1>4, <1>6

\* A try adds to those that have a record if it came as far as wr.Write.
LEMMA CountDone ==
    ASSUME TypeOK, NEW res \in {"ok"} \cup Step, NEW out \in Seq(Cell),
           Done(res, out)
    PROVE  /\ Cardinality(WithRecord) \in Nat
           /\ Cardinality(WithRecord') =
                IF res \in {"ok", "write"} THEN Cardinality(WithRecord) + 1
                                           ELSE Cardinality(WithRecord)
  <1> DEFINE n == Len(tried)
  <1>1. n \in Nat
    BY DEF TypeOK
  <1>2. /\ Len(tried') = n + 1
        /\ \A k \in 1 .. n : tried'[k] = tried[k]
        /\ tried'[n + 1].res = res
    BY DoneFields
  <1>3. IsFiniteSet(WithRecord)
    <2>1. IsFiniteSet(1 .. n)
      BY <1>1, FS_Interval
    <2> QED BY <2>1, FS_Subset DEF WithRecord
  <1>4. n + 1 \notin WithRecord
    BY <1>1 DEF WithRecord
  <1>5. WithRecord' = IF res \in {"ok", "write"} THEN WithRecord \cup {n + 1}
                                                 ELSE WithRecord
    BY <1>1, <1>2 DEF WithRecord
  <1> QED BY <1>3, <1>4, <1>5, FS_CardinalityType, FS_AddElement
-----------------------------------------------------------------------------
(***************************************************************************)
(* The invariant.                                                          *)
(***************************************************************************)
\* A failed try leaves the invariant in place.
LEMMA FailsInv ==
    ASSUME SyncInv, cl \in {"encode", "index", "emit"},
           NEW step \in Step, NEW out \in Seq(Cell), Fails(step, out),
           wrBuf' = <<>> \/ step \in {"encode", "index"},
           step = "write" <=> cl = "emit",
           UNCHANGED <<sent, closed, records, trailer>>
    PROVE  (Calls /\ Contents)'
  <1>0. TypeOK /\ Calls /\ Contents
    BY DEF SyncInv
  <1>1. /\ cl' = "idle" /\ Done(step, out)
        /\ IF closed THEN outcome' = "err" /\ wrote' = wrote
                     ELSE wrote' = "err" /\ outcome' = outcome
    BY <1>0, FailsFields
  <1>2. rdBuf' = <<>>
    BY <1>1 DEF Done
  <1>3. step # "ok" /\ step \in {"ok"} \cup Step
    BY DEF Step
  <1>4. outcome = "none" /\ trailer = <<>> /\ rdBuf # <<>>
    BY <1>0 DEF Calls, CloseIsLast, ChunkPresent
  <1>5. (CutInRange /\ ChunksFollow)'
    BY <1>0, <1>1, <1>3, <1>4, ChunkDone DEF Contents
  <1>6. /\ WholeOrAfterRest' /\ Failed'
        /\ Tainted' <=> step \in {"encode", "index"}
    BY <1>0, <1>1, <1>3, RestDone DEF Contents
  <1>7. BlockBehindRest'
    BY <1>1, <1>6 DEF BlockBehindRest
  <1>8. RecordsCounted'
    BY <1>0, <1>1, <1>3, CountDone DEF Contents, RecordsCounted, Step
  <1>9. Calls'
    BY <1>0, <1>1, <1>2, <1>4, <1>6
       DEF Calls, ErrorsTold, CloseIsLast, ChunkPresent
  <1> QED BY <1>5, <1>6, <1>7, <1>8, <1>9 DEF Contents

\* Where the chunk and the history stay as they are, so does what is said of
\* them alone.
LEMMA HistorySame ==
    ASSUME SyncInv, UNCHANGED <<rdBuf, sent, tried>>
    PROVE  /\ (CutInRange /\ ChunksFollow /\ WholeOrAfterRest)'
           /\ (Tainted' <=> Tainted) /\ (Failed' <=> Failed)
           /\ WithRecord' = WithRecord
  BY DEF SyncInv, Contents, CutInRange, ChunksFollow, WholeOrAfterRest,
         Tainted, Failed, WithRecord, Upto

\* A sequence is behind whatever it is appended to.
LEMMA ConcatEnds ==
    ASSUME NEW s \in Seq(Cell), NEW t \in Seq(Cell)
    PROVE  EndsWith(s \o t, t)
  <1> DEFINE u == s \o t
  <1>1. /\ u \in Seq(Cell) /\ Len(u) = Len(s) + Len(t)
        /\ \A j \in 1 .. Len(s) + Len(t) :
             u[j] = IF j <= Len(s) THEN s[j] ELSE t[j - Len(s)]
    BY ConcatProperties
  <1>2. Len(s) \in Nat /\ Len(t) \in Nat
    OBVIOUS
  <1> HIDE DEF u
  <1>3. ASSUME NEW j \in 1 .. Len(t)
        PROVE  u[(Len(u) - Len(t)) + j] = t[j]
    <2>1. /\ (Len(u) - Len(t)) + j = Len(s) + j
          /\ Len(s) + j \in 1 .. Len(s) + Len(t)
          /\ ~(Len(s) + j <= Len(s)) /\ (Len(s) + j) - Len(s) = j
      BY <1>1, <1>2
    <2> QED BY <1>1, <2>1
  <1>4. Len(t) <= Len(u)
    BY <1>1, <1>2
  <1>5. EndsWith(u, t)
    BY <1>3, <1>4 DEF EndsWith
  <1> QED BY <1>5 DEF u

\* Every step preserves the invariant.
LEMMA SyncInvStep == SyncInv /\ [Next]_vars => SyncInv'
  <1> SUFFICES ASSUME SyncInv, [Next]_vars PROVE (Calls /\ Contents)'
    BY SyncTypeStep DEF SyncInv
  <1>0. TypeOK /\ Calls /\ Contents /\ sent + todo <= Total
    BY DEF SyncInv
  <1>n. <<>> \in Seq(Cell) /\ wrBuf \in Seq(Cell)
    BY <1>0 DEF TypeOK
  <1>1. ASSUME NEW n \in 1 .. MaxWrite, Write(n)
        PROVE  (Calls /\ Contents)'
    <2>1. /\ cl = "idle" /\ cl' = "loop" /\ ~closed
          /\ UNCHANGED <<sent, rdBuf, wrBuf, closed, wrote, outcome, tried,
                         records, trailer>>
      BY <1>1 DEF Write
    <2>2. Calls'
      BY <1>0, <2>1, HistorySame
         DEF Calls, ErrorsTold, CloseIsLast, ChunkPresent
    <2> QED BY <1>0, <2>1, <2>2, HistorySame
        DEF Contents, BlockBehindRest, RecordsCounted, RecordsMatch
  <1>2. CASE WriteFills
    <2>1. PICK k \in 0 .. todo :
             /\ rdBuf' = rdBuf \o [j \in 1 .. k |-> sent + j]
             /\ sent' = sent + k
             /\ \/ cl' = "idle"
                \/ cl' = "encode" /\ Len(rdBuf') = ChunkSize
      BY <1>0, <1>2, FillsFields
    <2>2. /\ cl = "loop"
          /\ UNCHANGED <<wrBuf, closed, wrote, outcome, tried, records,
                         trailer>>
      BY <1>2 DEF WriteFills
    <2>3. Len(rdBuf') = ChunkSize => rdBuf' # <<>>
      BY SyncAssumption
    <2>4. Calls'
      BY <1>0, <2>1, <2>2, <2>3
         DEF Calls, ErrorsTold, Failed, CloseIsLast, ChunkPresent
    <2>5. Upto(Len(tried))' = Upto(Len(tried))
      BY <2>2 DEF Upto
    <2>6. (CutInRange /\ ChunksFollow)'
      <3>1. /\ Upto(Len(tried)) \in Nat /\ sent \in Nat /\ k \in Nat
            /\ Upto(Len(tried)) <= sent
            /\ rdBuf = Stream!Units(Upto(Len(tried)), sent)
        BY <1>0 DEF Contents, CutInRange, ChunksFollow, TypeOK
      <3>2. rdBuf' = Stream!Units(Upto(Len(tried)), sent + k)
        BY <2>1, <3>1, UnitsExtend
      <3>3. CutInRange'
        BY <2>1, <2>5, <3>1 DEF CutInRange
      <3>4. rdBuf' = Stream!Units(Upto(Len(tried))', sent')
        BY <2>1, <2>5, <3>2
      <3>5. \A j \in DOMAIN tried' :
               tried'[j].chunk = Stream!Units(Upto(j - 1)', Upto(j)')
        BY <1>0, <2>2 DEF Contents, ChunksFollow, Upto
      <3> QED BY <3>3, <3>4, <3>5 DEF ChunksFollow
    <2>7. (BlockBehindRest /\ WholeOrAfterRest /\ RecordsCounted)'
      BY <1>0, <2>1, <2>2
         DEF Contents, BlockBehindRest, WholeOrAfterRest, RecordsCounted,
             Tainted, WithRecord
    <2>8. (~Failed => RecordsMatch)'
      BY <1>0, <2>1, <2>2 DEF Contents, Failed, RecordsMatch
    <2> QED BY <2>4, <2>6, <2>7, <2>8 DEF Contents
  <1>3. CASE Close
    <2>1. /\ cl = "idle" /\ ~closed /\ closed'
          /\ cl' = IF Len(rdBuf) > 0 THEN "encode" ELSE "trail"
          /\ UNCHANGED <<sent, rdBuf, wrBuf, wrote, outcome, tried, records,
                         trailer>>
      BY <1>3 DEF Close
    <2>2. (Len(rdBuf) > 0) = (rdBuf # <<>>)
      BY <1>0 DEF TypeOK
    <2>3. Calls'
      BY <1>0, <2>1, <2>2, HistorySame
         DEF Calls, ErrorsTold, CloseIsLast, ChunkPresent
    <2> QED BY <1>0, <2>1, <2>3, HistorySame
        DEF Contents, BlockBehindRest, RecordsCounted, RecordsMatch
  <1>4. CASE blockEncode
    <2>1. cl = "encode" /\ UNCHANGED <<sent, closed, records, trailer>>
      BY <1>4 DEF blockEncode
    <2>2. CASE /\ wrBuf' \in {wrBuf \o rdBuf, rdBuf}
               /\ cl' = "index"
               /\ UNCHANGED <<todo, rdBuf, wrote, outcome, tried>>
      <3>1. Calls'
        BY <1>0, <2>1, <2>2, HistorySame
           DEF Calls, ErrorsTold, CloseIsLast, ChunkPresent
      <3>2. rdBuf \in Seq(Unit) /\ rdBuf \in Seq(Cell)
        BY <1>0 DEF TypeOK, Cell
      <3>3. EndsWith(wrBuf \o rdBuf, rdBuf)
        BY <1>n, <3>2, ConcatEnds
      <3>4. wrBuf = <<>> \/ Tainted
        BY <1>0, <2>1 DEF Contents, BlockBehindRest
      <3>5. wrBuf = <<>> => wrBuf \o rdBuf = rdBuf
        BY <3>2, ConcatEmptySeq
      <3>6. wrBuf' = rdBuf \/ (Tainted /\ EndsWith(wrBuf', rdBuf))
        BY <2>2, <3>3, <3>4, <3>5
      <3>7. BlockBehindRest'
        BY <2>1, <2>2, <3>6, HistorySame DEF BlockBehindRest
      <3> QED BY <1>0, <2>1, <2>2, <3>1, <3>7, HistorySame
          DEF Contents, RecordsCounted, RecordsMatch
    <2>3. CASE Fails("encode", <<>>)
      BY <1>n, <2>1, <2>3, FailsInv DEF Step
    <2> QED BY <1>4, <2>2, <2>3 DEF blockEncode
  <1>5. CASE appendIndex
    <2>1. cl = "index" /\ UNCHANGED <<sent, wrBuf, closed, trailer>>
      BY <1>5 DEF appendIndex
    <2>2. CASE /\ records' = Append(records, Len(rdBuf))
               /\ cl' = "emit"
               /\ UNCHANGED <<todo, rdBuf, wrote, outcome, tried>>
      <3>1. Calls'
        BY <1>0, <2>1, <2>2, HistorySame
           DEF Calls, ErrorsTold, CloseIsLast, ChunkPresent
      <3>2. /\ records \in Seq(Nat) /\ Len(rdBuf) \in Nat
            /\ Len(tried) \in Nat
        BY <1>0 DEF TypeOK
      <3>3. /\ Len(records') = Len(records) + 1
            /\ \A k \in 1 .. Len(records) : records'[k] = records[k]
            /\ records'[Len(records) + 1] = Len(rdBuf)
        BY <2>2, <3>2, AppendProperties
      <3>4. RecordsCounted'
        BY <1>0, <2>1, <2>2, <3>3, HistorySame DEF Contents, RecordsCounted
      <3>5. (~Failed => RecordsMatch)'
        BY <1>0, <2>1, <2>2, <3>2, <3>3, HistorySame
           DEF Contents, RecordsMatch
      <3> QED BY <1>0, <2>1, <2>2, <3>1, <3>4, <3>5, HistorySame
          DEF Contents, BlockBehindRest
    <2>3. CASE Fails("index", <<>>) /\ UNCHANGED records
      BY <1>n, <2>1, <2>3, FailsInv DEF Step
    <2> QED BY <1>5, <2>2, <2>3 DEF appendIndex
  <1>6. CASE writeBlock
    <2>1. /\ cl = "emit" /\ wrBuf' = <<>>
          /\ UNCHANGED <<sent, closed, records, trailer>>
      BY <1>6 DEF writeBlock, Emits, EmitFails, Reset
    <2>2. CASE Emits
      <3>1. /\ Done("ok", wrBuf) /\ rdBuf' = <<>>
            /\ cl' = IF closed THEN "trail" ELSE "loop"
            /\ UNCHANGED <<todo, wrote, outcome>>
        BY <2>2 DEF Emits, Done
      <3>2. /\ wrBuf = rdBuf \/ (Tainted /\ EndsWith(wrBuf, rdBuf))
            /\ rdBuf # <<>>
        BY <1>0, <2>1
           DEF Contents, BlockBehindRest, Calls, ChunkPresent
      <3>3. "ok" \in {"ok"} \cup Step
        OBVIOUS
      <3>4. (CutInRange /\ ChunksFollow)'
        BY <1>0, <1>n, <2>1, <3>1, <3>2, <3>3, ChunkDone DEF Contents
      <3>5. /\ WholeOrAfterRest' /\ ~Tainted'
            /\ Failed' <=> Failed
        BY <1>0, <1>n, <3>1, <3>2, <3>3, RestDone DEF Contents
      <3>6. BlockBehindRest'
        BY <2>1, <3>1 DEF BlockBehindRest
      <3>7. RecordsCounted'
        <4>1. Cardinality(WithRecord') = Cardinality(WithRecord) + 1
          BY <1>0, <1>n, <3>1, <3>3, CountDone
        <4>2. Len(records) = Cardinality(WithRecord) + 1
          BY <1>0, <2>1 DEF Contents, RecordsCounted
        <4> QED BY <2>1, <3>1, <4>1, <4>2 DEF RecordsCounted
      <3>8. (~Failed => RecordsMatch)'
        <4> SUFFICES ASSUME ~Failed' PROVE RecordsMatch'
          OBVIOUS
        <4>1. RecordsMatch
          BY <1>0, <3>5 DEF Contents
        <4>2. /\ Len(tried') = Len(tried) + 1 /\ Len(tried) \in Nat
              /\ \A k \in 1 .. Len(tried) : tried'[k] = tried[k]
              /\ tried'[Len(tried) + 1].chunk = rdBuf
          BY <1>0, <1>n, <3>1, <3>3, DoneFields DEF TypeOK
        <4>3. cl' # "emit"
          BY <3>1
        <4> QED BY <2>1, <4>1, <4>2, <4>3 DEF RecordsMatch
      <3>9. Calls'
        BY <1>0, <2>1, <3>1, <3>5
           DEF Calls, ErrorsTold, CloseIsLast, ChunkPresent
      <3> QED BY <3>4, <3>5, <3>6, <3>7, <3>8, <3>9 DEF Contents
    <2>3. CASE EmitFails
      BY <1>n, <2>1, <2>3, FailsInv DEF EmitFails, Step
    <2> QED BY <1>6, <2>2, <2>3 DEF writeBlock
  <1>7. CASE CloseWritesTrailer
    <2>1. /\ cl = "trail" /\ cl' = "idle"
          /\ outcome' = "ok" \/ outcome' = "err"
          /\ UNCHANGED <<sent, rdBuf, wrBuf, closed, wrote, tried, records>>
      BY <1>7 DEF CloseWritesTrailer
    <2>2. Failed => wrote = "err"
      BY <1>0, <2>1 DEF Calls, ErrorsTold, CloseIsLast
    <2>3. Calls'
      BY <1>0, <2>1, <2>2, HistorySame
         DEF Calls, ErrorsTold, CloseIsLast, ChunkPresent
    <2> QED BY <1>0, <2>1, <2>3, HistorySame
        DEF Contents, BlockBehindRest, RecordsCounted, RecordsMatch
  <1>8. CASE UNCHANGED vars
    BY <1>0, <1>8, HistorySame
       DEF vars, Calls, ErrorsTold, CloseIsLast, ChunkPresent, Contents,
           BlockBehindRest, RecordsCounted, RecordsMatch
  <1> QED BY <1>1, <1>2, <1>3, <1>4, <1>5, <1>6, <1>7, <1>8 DEF Next

\* The invariant holds in a Writer that has just been made.
LEMMA SyncInvInit == Init => SyncInv
  <1> SUFFICES ASSUME Init PROVE SyncInv
    OBVIOUS
  <1>1. TypeOK /\ sent + todo <= Total
    <2>1. /\ 0 \in 0 .. MaxWrite /\ 0 \in 0 .. Total /\ 0 + 0 <= Total
          /\ Len(<<>>) <= ChunkSize
      BY SyncAssumption
    <2>2. /\ <<>> \in Seq(Unit) /\ <<>> \in Seq(Nat) /\ <<>> \in Seq(Cell)
          /\ <<>> \in Seq(Try)
      OBVIOUS
    <2> QED BY <2>1, <2>2 DEF Init, TypeOK
  <1>2. Len(tried) = 0 /\ DOMAIN tried = {} /\ Upto(Len(tried)) = 0
    BY DEF Init, Upto
  <1>3. CutInRange /\ ChunksFollow
    BY <1>2, UnitsEmpty DEF Init, CutInRange, ChunksFollow
  <1>4. RecordsCounted
    <2>1. WithRecord = {}
      BY <1>2 DEF WithRecord
    <2> QED BY <2>1, FS_EmptySet DEF Init, RecordsCounted
  <1>5. ~Failed /\ RecordsMatch /\ BlockBehindRest /\ WholeOrAfterRest
    BY <1>2 DEF Init, Failed, RecordsMatch, BlockBehindRest, WholeOrAfterRest
  <1>6. Calls
    BY <1>5 DEF Init, Calls, ErrorsTold, CloseIsLast, ChunkPresent
  <1> QED BY <1>1, <1>3, <1>4, <1>5, <1>6 DEF SyncInv, Contents

\* SyncInv is an invariant of the synchronous Writer.
LEMMA SyncInvariant == Spec => []SyncInv
  BY SyncInvInit, SyncInvStep, PTL DEF Spec

\* A client that writes on past any number of errors loses the chunks of the
\* failed calls and no others; a block has stale bytes in front of it only
\* directly behind a chunk that failed before its write; and the index lists
\* the blocks that came as far as their write.
THEOREM SyncLossesAreKnown == Spec => []LossesAreKnown
  <1>1. SyncInv => LossesAreKnown
    <2> SUFFICES ASSUME SyncInv PROVE LossesAreKnown
      OBVIOUS
    <2>1. WithRecord
            = {k \in DOMAIN tried : tried[k].res \in {"ok", "write"}}
      BY DEF SyncInv, TypeOK, WithRecord
    <2>2. Listed
      BY <2>1 DEF SyncInv, Contents, RecordsCounted, Listed
    <2> QED BY <2>2 DEF SyncInv, Contents, LossesAreKnown
  <1> QED BY <1>1, SyncInvariant, PTL
-----------------------------------------------------------------------------
(***************************************************************************)
(* Refinement.                                                             *)
(***************************************************************************)
\* The blocks of the abstract file.
Blocks == [k \in Sound |-> tried[k].out]

\* As long as nothing has failed, the blocks are the chunks.
LEMMA BlocksAreChunks ==
    ASSUME SyncInv, ~Failed
    PROVE  /\ Sound = 1 .. Len(tried)
           /\ Blocks \in Seq(Seq(Cell)) /\ Len(Blocks) = Len(tried)
           /\ \A k \in 1 .. Len(tried) : Blocks[k] = tried[k].chunk
           /\ Stream!Emitted = Upto(Len(tried))
  <1>1. /\ tried \in Seq(Try) /\ Len(tried) \in Nat
        /\ DOMAIN tried = 1 .. Len(tried)
    BY DEF SyncInv, TypeOK
  <1>2. \A k \in 1 .. Len(tried) : tried[k].res = "ok"
    BY DEF Failed
  <1>3. Sound = 1 .. Len(tried)
    BY <1>1, <1>2 DEF Sound
  <1>4. ASSUME NEW k \in 1 .. Len(tried)
        PROVE  tried[k].out = tried[k].chunk /\ tried[k].out \in Seq(Cell)
    <2>1. k > 1 => tried[k - 1].res = "ok"
      BY <1>1, <1>2
    <2>2. tried[k].out = tried[k].chunk
      BY <1>1, <1>2, <2>1 DEF SyncInv, Contents, WholeOrAfterRest
    <2>3. tried[k] \in Try
      BY <1>1
    <2> QED BY <2>2, <2>3 DEF Try
  <1>5. /\ Blocks \in Seq(Seq(Cell)) /\ Len(Blocks) = Len(tried)
        /\ \A k \in 1 .. Len(tried) : Blocks[k] = tried[k].chunk
    BY <1>1, <1>3, <1>4 DEF Blocks
  <1>6. Stream!Emitted
          = IF Blocks = <<>> THEN 0 ELSE Stream!Last(Stream!Last(Blocks))
    BY DEF Stream!Emitted, Blocks
  <1>7. Stream!Emitted = Upto(Len(tried))
    <2>1. (Blocks = <<>>) = (Len(tried) = 0)
      BY <1>1, <1>5
    <2>2. Len(tried) # 0 => Stream!Last(Blocks) = tried[Len(tried)].chunk
      BY <1>1, <1>5 DEF Stream!Last
    <2> QED BY <1>6, <2>1, <2>2 DEF Upto
  <1> QED BY <1>3, <1>5, <1>7

\* What is tried after a failure, and the failure, is not of the abstract file.
LEMMA BlocksKept ==
    ASSUME TypeOK, NEW res \in {"ok"} \cup Step, NEW out \in Seq(Cell),
           Done(res, out), Failed \/ res # "ok"
    PROVE  Blocks' = Blocks
  <1>0. /\ tried \in Seq(Try) /\ tried' \in Seq(Try)
        /\ Len(tried') = Len(tried) + 1
        /\ \A k \in 1 .. Len(tried) : tried'[k] = tried[k]
        /\ tried'[Len(tried) + 1].res = res
    <2>1. tried \in Seq(Try)
      BY DEF TypeOK
    <2> QED BY <2>1, DoneFields
  <1>1. /\ Len(tried) \in Nat /\ DOMAIN tried = 1 .. Len(tried)
        /\ Len(tried') = Len(tried) + 1
        /\ DOMAIN tried' = 1 .. (Len(tried) + 1)
        /\ \A k \in 1 .. Len(tried) : tried'[k] = tried[k]
        /\ tried'[Len(tried) + 1].res = res
    BY <1>0
  <1>2. Len(tried) + 1 \notin Sound'
    BY <1>1 DEF Sound, Failed
  <1>3. \A k \in 1 .. Len(tried) : k \in Sound' <=> k \in Sound
    BY <1>1 DEF Sound
  <1>4. Sound' = Sound /\ Sound \subseteq 1 .. Len(tried)
    BY <1>1, <1>2, <1>3 DEF Sound
  <1> QED BY <1>1, <1>4 DEF Blocks

\* Every step of the Writer is a step of the stream, or none.
LEMMA SyncRefinementStep ==
    SyncInv /\ [Next]_vars => [Stream!Next]_(Stream!vars)
  <1> SUFFICES ASSUME SyncInv, [Next]_vars
               PROVE  Stream!Next \/ UNCHANGED Stream!vars
    OBVIOUS
  <1>0. TypeOK /\ Calls /\ Contents /\ sent + todo <= Total
    BY DEF SyncInv
  <1>n. <<>> \in Seq(Cell) /\ wrBuf \in Seq(Cell)
    BY <1>0 DEF TypeOK
  <1>s. ASSUME UNCHANGED <<sent, trailer, wrote, outcome>>, Blocks' = Blocks
        PROVE  UNCHANGED Stream!vars
    BY <1>s DEF Stream!vars, Blocks
  <1>t. ASSUME tried' = tried
        PROVE  Blocks' = Blocks
    BY <1>t DEF Blocks, Sound
  <1>f. ASSUME cl \in {"encode", "index", "emit"}, NEW step \in Step,
               NEW out \in Seq(Cell), Fails(step, out),
               UNCHANGED <<sent, trailer>>
        PROVE  Stream!Fail \/ UNCHANGED Stream!vars
    <2>1. outcome = "none" /\ trailer = <<>>
      BY <1>0, <1>f DEF Calls, CloseIsLast
    <2>2. /\ IF closed THEN outcome' = "err" /\ wrote' = wrote
                       ELSE wrote' = "err" /\ outcome' = outcome
          /\ Done(step, out)
      BY <1>f DEF Fails
    <2>3. Blocks' = Blocks
      BY <1>0, <1>f, <2>2, BlocksKept DEF Step
    <2>4. CASE wrote = "ok"
      BY <1>f, <2>1, <2>2, <2>3, <2>4 DEF Stream!Fail, Blocks
    <2>5. CASE wrote = "err"
      BY <1>f, <2>1, <2>2, <2>3, <2>5 DEF Stream!vars, Blocks
    <2> QED BY <1>0, <2>4, <2>5 DEF TypeOK
  <1>1. ASSUME NEW n \in 1 .. MaxWrite, Write(n)
        PROVE  UNCHANGED Stream!vars
    BY <1>s, <1>t, <1>1 DEF Write
  <1>2. CASE WriteFills
    <2>1. PICK k \in 0 .. todo : sent' = sent + k
      BY <1>0, <1>2, FillsFields
    <2>2. /\ UNCHANGED <<tried, trailer, wrote, outcome>> /\ cl = "loop"
          /\ Blocks' = Blocks
      BY <1>2, <1>t DEF WriteFills
    <2>3. outcome = "none"
      BY <1>0, <2>2 DEF Calls, CloseIsLast
    <2>4. CASE k = 0
      <3>1. sent' = sent
        BY <1>0, <2>1, <2>4 DEF TypeOK
      <3> QED BY <1>s, <2>2, <3>1
    <2>5. CASE k # 0
      <3>1. sent' \in Nat /\ sent' > sent
        BY <1>0, <2>1, <2>5 DEF TypeOK
      <3>2. Stream!Accept
        BY <2>2, <2>3, <3>1 DEF Stream!Accept, Blocks
      <3> QED BY <3>2 DEF Stream!Next
    <2> QED BY <2>4, <2>5
  <1>3. CASE Close
    BY <1>s, <1>t, <1>3 DEF Close
  <1>4. CASE blockEncode
    <2>1. cl = "encode" /\ UNCHANGED <<sent, trailer>> /\ "encode" \in Step
      BY <1>4 DEF blockEncode, Step
    <2>2. CASE UNCHANGED <<wrote, outcome, tried>>
      BY <1>s, <1>t, <2>1, <2>2
    <2>3. CASE Fails("encode", <<>>)
      BY <1>n, <1>f, <2>1, <2>3 DEF Stream!Next
    <2> QED BY <1>4, <2>2, <2>3 DEF blockEncode
  <1>5. CASE appendIndex
    <2>1. cl = "index" /\ UNCHANGED <<sent, trailer>> /\ "index" \in Step
      BY <1>5 DEF appendIndex, Step
    <2>2. CASE UNCHANGED <<wrote, outcome, tried>>
      BY <1>s, <1>t, <2>1, <2>2
    <2>3. CASE Fails("index", <<>>)
      BY <1>n, <1>f, <2>1, <2>3 DEF Stream!Next
    <2> QED BY <1>5, <2>2, <2>3 DEF appendIndex
  <1>6. CASE writeBlock
    <2>1. cl = "emit" /\ UNCHANGED <<sent, trailer>> /\ "write" \in Step
      BY <1>6 DEF writeBlock, Step
    <2>2. CASE Emits
      <3>1. Done("ok", wrBuf) /\ UNCHANGED <<wrote, outcome>>
        BY <2>2 DEF Emits
      <3>2. CASE Failed
        <4>1. Blocks' = Blocks
          BY <1>0, <1>n, <3>1, <3>2, BlocksKept
        <4> QED BY <1>s, <2>1, <3>1, <4>1
      <3>3. CASE ~Failed
        <4>1. outcome = "none" /\ wrote = "ok" /\ rdBuf # <<>>
          BY <1>0, <2>1, <3>3
             DEF TypeOK, Calls, ErrorsTold, CloseIsLast, ChunkPresent
        <4>2. /\ Blocks \in Seq(Seq(Cell)) /\ Len(Blocks) = Len(tried)
              /\ Stream!Emitted = Upto(Len(tried))
              /\ Sound = 1 .. Len(tried)
          BY <3>3, BlocksAreChunks
        <4>3. ~Tainted
          <5>1. Len(tried) \in Nat
            BY <1>0 DEF TypeOK
          <5>2. Len(tried) > 0 => tried[Len(tried)].res = "ok"
            BY <3>3, <5>1 DEF Failed
          <5> QED BY <5>2 DEF Tainted
        <4>4. wrBuf = rdBuf
          BY <1>0, <2>1, <4>3 DEF Contents, BlockBehindRest
        <4>5. /\ Len(tried) \in Nat /\ DOMAIN tried' = 1 .. (Len(tried) + 1)
              /\ Len(tried') = Len(tried) + 1
              /\ \A k \in 1 .. Len(tried) : tried'[k] = tried[k]
              /\ tried'[Len(tried) + 1].res = "ok"
              /\ tried'[Len(tried) + 1].out = wrBuf
          BY <1>0, <1>n, <3>1, DoneFields DEF TypeOK
        <4>6. Sound' = 1 .. (Len(tried) + 1)
          BY <3>3, <4>5 DEF Sound, Failed
        <4>7. Blocks' = Append(Blocks, wrBuf)
          <5> DEFINE b == Append(Blocks, wrBuf)
          <5>1. /\ b \in Seq(Seq(Cell)) /\ Len(b) = Len(tried) + 1
                /\ \A k \in 1 .. Len(tried) : b[k] = Blocks[k]
                /\ b[Len(tried) + 1] = wrBuf
            BY <1>n, <4>2, AppendProperties
          <5>2. \A k \in 1 .. Len(tried) : Blocks[k] = tried[k].out
            BY <4>2 DEF Blocks
          <5>3. \A k \in 1 .. (Len(tried) + 1) : b[k] = tried'[k].out
            BY <4>5, <5>1, <5>2
          <5> HIDE DEF b
          <5>4. b = [k \in 1 .. (Len(tried) + 1) |-> b[k]]
            BY <4>5, <5>1
          <5>5. Blocks' = [k \in 1 .. (Len(tried) + 1) |-> tried'[k].out]
            BY <4>6 DEF Blocks
          <5>6. b = Blocks'
            BY <5>3, <5>4, <5>5
          <5> QED BY <5>6 DEF b
        <4>8. /\ wrBuf = Stream!Units(Stream!Emitted, sent)
              /\ Stream!Emitted \in 0 .. sent /\ sent \in Nat
          BY <1>0, <4>2, <4>4
             DEF Contents, CutInRange, ChunksFollow, TypeOK
        <4>9. Stream!Emitted # sent
          BY <4>1, <4>4, <4>8, UnitsEmpty
        <4>10. sent \in (Stream!Emitted + 1) .. sent
          BY <4>8, <4>9
        <4>11. Stream!Emit
          BY <2>1, <3>1, <4>1, <4>7, <4>8, <4>10 DEF Stream!Emit, Blocks
        <4> QED BY <4>11 DEF Stream!Next
      <3> QED BY <3>2, <3>3
    <2>3. CASE EmitFails
      BY <1>n, <1>f, <2>1, <2>3 DEF EmitFails, Stream!Next
    <2> QED BY <1>6, <2>2, <2>3 DEF writeBlock
  <1>7. CASE CloseWritesTrailer
    <2>1. /\ cl = "trail" /\ UNCHANGED <<sent, wrote, tried>>
          /\ Blocks' = Blocks
      BY <1>7, <1>t DEF CloseWritesTrailer
    <2>2. CASE wrote = "err"
      BY <2>1, <2>2 DEF Stream!vars, Blocks
    <2>3. CASE wrote = "ok" /\ outcome' = "err" /\ UNCHANGED trailer
      <3>1. outcome = "none"
        BY <1>0, <2>1 DEF Calls, CloseIsLast
      <3> QED BY <2>1, <2>3, <3>1 DEF Stream!Fail, Stream!Next, Blocks
    <2>4. CASE wrote = "ok" /\ outcome' = "ok" /\ trailer' = records
      <3>1. outcome = "none" /\ ~Failed /\ rdBuf = <<>>
        BY <1>0, <2>1, <2>4
           DEF Calls, ErrorsTold, CloseIsLast, ChunkPresent
      <3>2. /\ Blocks \in Seq(Seq(Cell)) /\ Len(Blocks) = Len(tried)
            /\ \A k \in 1 .. Len(tried) : Blocks[k] = tried[k].chunk
            /\ Stream!Emitted = Upto(Len(tried))
        BY <3>1, BlocksAreChunks
      <3>3. /\ Upto(Len(tried)) \in Nat /\ sent \in Nat
            /\ Upto(Len(tried)) <= sent
            /\ Stream!Units(Upto(Len(tried)), sent) = <<>>
        BY <1>0, <3>1 DEF Contents, CutInRange, ChunksFollow, TypeOK
      <3>4. Stream!Emitted = sent
        <4>1. Len(Stream!Units(Upto(Len(tried)), sent))
                = sent - Upto(Len(tried))
          BY <3>3, UnitsSeq
        <4>2. sent - Upto(Len(tried)) = 0
          BY <3>3, <4>1
        <4> QED BY <3>2, <3>3, <4>2
      <3>5. /\ records \in Seq(Nat) /\ Len(records) = Len(tried)
            /\ \A k \in 1 .. Len(tried) : records[k] = Len(tried[k].chunk)
        BY <1>0, <2>1, <3>1 DEF Contents, RecordsMatch, TypeOK
      <3>6. records = [k \in DOMAIN Blocks |-> Len(Blocks[k])]
        <4>1. DOMAIN records = DOMAIN Blocks
              /\ DOMAIN Blocks = 1 .. Len(tried)
          BY <3>2, <3>5
        <4>2. records = [k \in DOMAIN records |-> records[k]]
          BY <3>5
        <4> QED BY <3>2, <3>5, <4>1, <4>2
      <3>7. Stream!Finish
        BY <2>1, <2>4, <3>1, <3>4, <3>6 DEF Stream!Finish, Blocks
      <3> QED BY <3>7 DEF Stream!Next
    <2> QED BY <1>0, <1>7, <2>2, <2>3, <2>4 DEF CloseWritesTrailer, TypeOK
  <1>8. CASE UNCHANGED vars
    BY <1>s, <1>t, <1>8 DEF vars
  <1> QED BY <1>1, <1>2, <1>3, <1>4, <1>5, <1>6, <1>7, <1>8 DEF Next

\* The synchronous Writer implements XzStream, whatever fails and however the
\* client goes on: until the first call that returns an error the blocks of
\* the file are the data in order and without repetition, and if no call has
\* failed, Close leaves all the data and an index of exactly the blocks.
THEOREM SyncImplementsStream == Spec => ImplementsStream
  <1>1. Init => Stream!Init
    <2> SUFFICES ASSUME Init PROVE Stream!Init
      OBVIOUS
    <2>1. Sound = {}
      BY DEF Init, Sound
    <2>2. Blocks = <<>>
      BY <2>1 DEF Blocks
    <2> QED BY <2>2 DEF Init, Stream!Init, Blocks
  <1> QED BY <1>1, SyncInvariant, SyncRefinementStep, PTL
      DEF Spec, ImplementsStream, Stream!Spec
=============================================================================
