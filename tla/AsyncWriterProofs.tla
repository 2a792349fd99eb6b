------------------------- MODULE AsyncWriterProofs -------------------------
(***************************************************************************)
(* Proofs about AsyncWriter, for any number of workers, any chunk size, any *)
(* amount of data and any set of faults and overflows: types, the ownership *)
(* of the buffers, their number, the way of an error to Close, how the      *)
(* stream ends, and that the blocks in the file are the data, in order and  *)
(* complete.                                                                *)
(***************************************************************************)
EXTENDS AsyncWriter, FiniteSetTheorems, SequenceTheorems, TLAPS

\* Where the client is, what it holds and which pipe it fills go together; a
\* pipe is given up for the next one only when it is full.
ClientPlaces ==
    /\ cl \in {"loop", "full"} => todo > 0
    /\ cl \in {"loop", "full", "check"} => ~closed
    /\ cl \in {"end", "join", "trail"} => closed
    /\ pipe # NoIdx => idx = pipe + 1 /\ ~closed
    /\ cl = "full" => pipe # NoIdx /\ Len(chunk[pipe]) = ChunkSize
    /\ pipe = NoIdx /\ ~closed /\ idx > 0 => Len(chunk[idx - 1]) = ChunkSize

\* The pipes cut what has been accepted into chunks: all are full but the
\* last one, and pipe i holds the units that follow i * ChunkSize.
ChunksCut ==
    /\ idx > 0 => idx - 1 \in Idx
    /\ sent + todo <= Total
    /\ sent = IF idx = 0 THEN 0
              ELSE (idx - 1) * ChunkSize + Len(chunk[idx - 1])
    /\ \A i \in Idx :
         /\ Len(chunk[i]) <= ChunkSize
         /\ i >= idx => chunk[i] = <<>>
         /\ i + 1 < idx => Len(chunk[i]) = ChunkSize
         /\ \A j \in 1 .. Len(chunk[i]) : chunk[i][j] = i * ChunkSize + j

\* The output pipes in use have an index of an input pipe.
OutInRange ==
    /\ outPool.ready \subseteq Idx /\ outPool.active \subseteq Idx
    /\ wt \in {"copy", "return"} => Held \in Idx

\* A worker has read no more than there is.
ReadInRange == \A w \in Workers : wkRead[w] <= Len(chunk[wkIdx[w]])

TypeInv == TypeOK /\ ClientPlaces /\ ChunksCut /\ OutInRange /\ ReadInRange
-----------------------------------------------------------------------------
(***************************************************************************)
(* What the operations of a pool leave behind, field by field.             *)
(***************************************************************************)
Pools(I) == PoolType(I, 0 .. NumWorkers)

\* Two pools that differ at most in len and in their sets of indices.
SameControl(q, pp) ==
    /\ q.cap = pp.cap /\ q.closed = pp.closed /\ q.dead = pp.dead

LEMMA NumWorkersNat == NumWorkers \in Nat /\ NumWorkers > 0
  <1>1. NumWorkers \in Nat
    BY WriterAssumption, FS_CardinalityType DEF NumWorkers
  <1>2. NumWorkers # 0
    BY WriterAssumption, FS_EmptySet DEF NumWorkers
  <1> QED BY <1>1, <1>2

LEMMA NewPoolFields ==
    ASSUME NEW I
    PROVE  newPipePool \in Pools(I)
  BY NumWorkersNat DEF newPipePool, Pools, PoolType

LEMMA GetWriterFields ==
    ASSUME NEW I, NEW pp \in Pools(I), NEW i \in I, NEW q \in GetWriter(pp, i)
    PROVE  /\ q \in Pools(I) /\ SameControl(q, pp)
           /\ q.waitIdx = pp.waitIdx
           /\ q.ready = pp.ready \cup {i}
           /\ q.active = pp.active /\ q.shut = pp.shut
           /\ q.len = IF pp.free = {} THEN pp.len + 1 ELSE pp.len
  <1> USE DEF Pools, PoolType, SameControl
  <1>1. CASE pp.free = {}
    <2>1. q = [pp EXCEPT !.len = @ + 1, !.ready = @ \cup {i}]
      BY <1>1 DEF GetWriter
    <2>2. pp.len + 1 \in Nat /\ pp.ready \cup {i} \subseteq I
      OBVIOUS
    <2> QED BY <1>1, <2>1, <2>2
  <1>2. CASE pp.free # {}
    <2>1. PICK f \in pp.free :
            q = [pp EXCEPT !.free = @ \ {f}, !.ready = @ \cup {i}]
      BY <1>2 DEF GetWriter
    <2>2. pp.free \ {f} \subseteq I /\ pp.ready \cup {i} \subseteq I
      OBVIOUS
    <2> QED BY <1>2, <2>1, <2>2
  <1> QED BY <1>1, <1>2

LEMMA AnnounceFields ==
    ASSUME NEW I, NEW pp \in Pools(I), NEW i \in I, NEW q, q = Announce(pp, i)
    PROVE  /\ q \in Pools(I) /\ SameControl(q, pp)
           /\ q.waitIdx = i
           /\ q.ready = pp.ready /\ q.active = pp.active /\ q.shut = pp.shut
           /\ q.len = pp.len
  BY DEF Announce, Pools, PoolType, SameControl

LEMMA GetReaderFields ==
    ASSUME NEW I, NEW pp \in Pools(I), NEW k, NEW i \in Readable(pp, k),
           NEW q, q = GetReader(pp, k, i)
    PROVE  /\ i \in I /\ i \in pp.ready /\ (k # NoIdx => i = k)
           /\ q \in Pools(I) /\ SameControl(q, pp)
           /\ q.waitIdx = IF k = NoIdx THEN pp.waitIdx ELSE NoIdx
           /\ q.ready = pp.ready \ {i}
           /\ q.active = pp.active \cup {i} /\ q.shut = pp.shut
           /\ q.len = pp.len
  <1>1. i \in I /\ i \in pp.ready /\ (k # NoIdx => i = k)
    BY DEF Readable, Pools, PoolType
  <1> QED BY <1>1 DEF GetReader, GetReaderNil, Pools, PoolType, SameControl

LEMMA GetReaderNilFields ==
    ASSUME NEW I, NEW pp \in Pools(I), NEW k, k # NoIdx,
           NEW q, q = GetReaderNil(pp, k)
    PROVE  /\ q \in Pools(I) /\ SameControl(q, pp)
           /\ q.waitIdx = NoIdx
           /\ q.ready = pp.ready /\ q.active = pp.active /\ q.shut = pp.shut
           /\ q.len = pp.len
  BY DEF GetReaderNil, Pools, PoolType, SameControl

LEMMA RestoreFields ==
    ASSUME NEW I, NEW pp \in Pools(I), NEW i \in I, NEW q, q = Restore(pp, i)
    PROVE  /\ q \in Pools(I) /\ SameControl(q, pp)
           /\ q.waitIdx = pp.waitIdx
           /\ q.ready = pp.ready
           /\ q.active = pp.active \ {i} /\ q.shut = pp.shut \cup {i}
           /\ q.len = IF pp.cap >= pp.len THEN pp.len ELSE pp.len - 1
  <1> USE DEF Pools, PoolType, SameControl
  <1>1. CASE Keeps(pp)
    BY <1>1 DEF Restore, Keeps
  <1>2. CASE ~Keeps(pp)
    <2>1. pp.len - 1 \in Nat /\ ~(pp.cap >= pp.len)
      BY <1>2, NumWorkersNat DEF Keeps
    <2> QED BY <1>2, <2>1 DEF Restore
  <1> QED BY <1>1, <1>2

LEMMA SetCapacityFields ==
    ASSUME NEW I, NEW pp \in Pools(I), NEW c \in 0 .. NumWorkers,
           NEW q, q = SetCapacity(pp, c)
    PROVE  /\ q \in Pools(I)
           /\ q.closed = pp.closed /\ q.dead = pp.dead
           /\ q.cap = c /\ q.waitIdx = pp.waitIdx
           /\ q.ready = pp.ready /\ q.active = pp.active /\ q.shut = pp.shut
           /\ q.len = pp.len
  BY DEF SetCapacity, Pools, PoolType

LEMMA CloseFields ==
    ASSUME NEW I, NEW pp \in Pools(I), NEW q, q = Close(pp)
    PROVE  /\ q \in Pools(I)
           /\ q.closed /\ q.dead = pp.dead
           /\ q.cap = pp.cap /\ q.waitIdx = pp.waitIdx
           /\ q.ready = pp.ready /\ q.active = pp.active /\ q.shut = pp.shut
           /\ q.len = pp.len
  BY DEF Close, Pools, PoolType

LEMMA ClosePipeFields ==
    ASSUME NEW I, NEW pp \in Pools(I), NEW i \in I, NEW q, q = ClosePipe(pp, i)
    PROVE  /\ q \in Pools(I) /\ SameControl(q, pp)
           /\ q.waitIdx = pp.waitIdx
           /\ q.ready = pp.ready /\ q.active = pp.active
           /\ q.shut = pp.shut \cup {i}
           /\ q.len = pp.len
  BY DEF ClosePipe, Pools, PoolType, SameControl

LEMMA TerminateFields ==
    ASSUME NEW I, NEW pp \in Pools(I), NEW q, q = Terminate(pp)
    PROVE  /\ q \in Pools(I)
           /\ q.closed /\ q.dead
           /\ q.cap = pp.cap /\ q.waitIdx = pp.waitIdx
           /\ q.ready = {} /\ q.active = pp.active
           /\ q.shut = pp.shut \cup pp.ready \cup pp.active
           /\ q.len = pp.len
  BY DEF Terminate, Pools, PoolType
-----------------------------------------------------------------------------
(***************************************************************************)
(* The type invariant.                                                     *)
(***************************************************************************)
\* What fits below t in portions of c.
LEMMA DivAtLeast ==
    ASSUME NEW n \in Nat, NEW c \in Nat \ {0}, NEW t \in Nat, n * c <= t
    PROVE  n <= t \div c
  <1> DEFINE q == t \div c
             r == t % c
  <1>1. q \in Int /\ r \in 0 .. c - 1 /\ t = c * q + r
    OBVIOUS
  <1> HIDE DEF q, r
  <1>2. n * c < (q + 1) * c
    BY <1>1
  <1>3. n < q + 1
    BY <1>1, <1>2
  <1> QED BY <1>1, <1>3 DEF q

LEMMA IdxNat == Idx \subseteq Nat /\ 0 \in Idx
  <1>1. (Total - 1) \div ChunkSize \in Nat
    <2>1. Total - 1 \in Nat /\ ChunkSize \in Nat \ {0}
      BY WriterAssumption
    <2> QED BY <2>1
  <1> QED BY <1>1 DEF Idx

\* A Write that needs a pipe still has data in hand, so that the index it asks
\* for is in range.
LEMMA NextInRange ==
    ASSUME TypeInv, cl = "loop", pipe = NoIdx
    PROVE  idx \in Idx /\ sent = idx * ChunkSize
  <1> USE WriterAssumption DEF TypeInv, TypeOK, ClientTypes, SharedTypes
  <1>1. CASE idx = 0
    BY <1>1, IdxNat DEF ChunksCut
  <1>2. CASE idx > 0
    <2>1. sent = (idx - 1) * ChunkSize + ChunkSize /\ sent + todo <= Total
      BY <1>2 DEF ChunksCut, ClientPlaces
    <2>2. (idx - 1) * ChunkSize + ChunkSize = idx * ChunkSize
      BY <1>2
    <2>3. idx * ChunkSize <= Total - 1
      BY <2>1, <2>2 DEF ClientPlaces
    <2>4. idx <= (Total - 1) \div ChunkSize
      <3>1. Total - 1 \in Nat OBVIOUS
      <3> QED BY <2>3, <3>1, DivAtLeast
    <2> QED BY <2>1, <2>2, <2>4, IdxNat DEF Idx
  <1> QED BY <1>1, <1>2

\* What one round of WriteFills puts into the pipe, and where it leads.
LEMMA FillsFields ==
    ASSUME TypeInv, WriteFills, pipe \notin inPool.shut
    PROVE  \E k \in 0 .. todo :
             /\ pipe \in Idx
             /\ chunk' \in [Idx -> Seq(Unit)]
             /\ \A i \in Idx : i # pipe => chunk'[i] = chunk[i]
             /\ Len(chunk'[pipe]) = Len(chunk[pipe]) + k
             /\ Len(chunk'[pipe]) <= ChunkSize
             /\ \A j \in 1 .. Len(chunk[pipe]) :
                  chunk'[pipe][j] = chunk[pipe][j]
             /\ \A j \in 1 .. Len(chunk'[pipe]) :
                  chunk'[pipe][j] = pipe * ChunkSize + j
             /\ sent' = sent + k /\ todo' = todo - k
             /\ \/ cl' = "idle" /\ k = todo
                \/ cl' = "full" /\ k < todo /\ Len(chunk'[pipe]) = ChunkSize
  <1> USE WriterAssumption DEF TypeInv, TypeOK, ClientTypes, SharedTypes
  <1> DEFINE a == chunk[pipe]
             k == IF todo <= Room(pipe) THEN todo ELSE Room(pipe)
             b == [j \in 1 .. k |-> sent + j]
  <1>1. /\ pipe \in Idx /\ idx = pipe + 1
        /\ a \in Seq(Unit) /\ Len(a) \in Nat /\ Len(a) <= ChunkSize
        /\ sent = pipe * ChunkSize + Len(a)
        /\ \A j \in 1 .. Len(a) : a[j] = pipe * ChunkSize + j
    <2>1. pipe \in Idx /\ idx = pipe + 1
      BY DEF WriteFills, ClientPlaces
    <2>2. a \in Seq(Unit)
      BY <2>1
    <2>3. Len(a) \in Nat
      BY <2>2
    <2>4. idx # 0 /\ idx - 1 = pipe
      BY <2>1, IdxNat
    <2> QED BY <2>1, <2>2, <2>3, <2>4 DEF ChunksCut
  <1>2. /\ k \in 0 .. todo /\ Len(a) + k <= ChunkSize
        /\ k # todo => k < todo /\ Len(a) + k = ChunkSize
    BY <1>1 DEF Room
  <1>3. /\ chunk' = [chunk EXCEPT ![pipe] = a \o b]
        /\ sent' = sent + k /\ todo' = todo - k
        /\ cl' = IF k = todo THEN "idle" ELSE "full"
    BY DEF WriteFills
  <1>4. b \in Seq(Unit) /\ Len(b) = k /\ \A j \in 1 .. k : b[j] = sent + j
    <2>1. sent + k <= Total
      BY <1>2 DEF ChunksCut
    <2>2. \A j \in 1 .. k : sent + j \in Unit
      BY <1>2, <2>1 DEF Unit
    <2>3. k \in Nat
      BY <1>2
    <2> HIDE DEF k, TypeInv, TypeOK, ClientTypes, SharedTypes
    <2> QED BY <2>2, <2>3
  <1> HIDE DEF a, b, k, TypeInv, TypeOK, ClientTypes, SharedTypes
  <1>5. /\ a \o b \in Seq(Unit) /\ Len(a \o b) = Len(a) + Len(b)
        /\ \A j \in 1 .. Len(a) + Len(b) :
             (a \o b)[j] = IF j <= Len(a) THEN a[j] ELSE b[j - Len(a)]
    <2>1. a \in Seq(Unit) /\ b \in Seq(Unit)
      BY <1>1, <1>4
    <2> QED BY <2>1, ConcatProperties
  <1>6. chunk'[pipe] = a \o b /\ \A i \in Idx : i # pipe => chunk'[i] = chunk[i]
    BY <1>1, <1>3 DEF TypeInv, TypeOK, ClientTypes, SharedTypes
  <1>7. \A j \in 1 .. Len(a) : (a \o b)[j] = a[j]
    BY <1>1, <1>2, <1>4, <1>5
  <1>8. \A j \in 1 .. Len(a \o b) : (a \o b)[j] = pipe * ChunkSize + j
    <2> SUFFICES ASSUME NEW j \in 1 .. Len(a) + k
                 PROVE  (a \o b)[j] = pipe * ChunkSize + j
      BY <1>4, <1>5
    <2>1. CASE j <= Len(a)
      BY <1>1, <1>2, <1>7, <2>1
    <2>2. CASE ~(j <= Len(a))
      <3>1. j - Len(a) \in 1 .. k
        BY <1>1, <1>2, <2>2
      <3>2. b[j - Len(a)] = sent + (j - Len(a))
        BY <1>4, <3>1
      <3>3. (a \o b)[j] = b[j - Len(a)]
        BY <1>1, <1>4, <1>5, <2>2
      <3>4. pipe * ChunkSize \in Nat
        BY <1>1, IdxNat
      <3> QED BY <1>1, <3>2, <3>3, <3>4
    <2> QED BY <2>1, <2>2
  <1>9. chunk' \in [Idx -> Seq(Unit)]
    BY <1>1, <1>3, <1>5 DEF TypeInv, TypeOK, ClientTypes, SharedTypes
  <1> QED
    <2>1. chunk[pipe] = a BY DEF a
    <2> QED BY <1>1, <1>2, <1>3, <1>4, <1>5, <1>6, <1>7, <1>8, <1>9, <2>1

\* The types of what a step leaves alone are kept.
LEMMA TypesKept ==
    ASSUME TypeOK
    PROVE  /\ UNCHANGED client => ClientTypes'
           /\ UNCHANGED <<inPool, outPool, shared>> => SharedTypes'
           /\ UNCHANGED worker => WorkerTypes'
           /\ UNCHANGED <<mon, wg, writer, trailer>> => WriterTypes'
  <1>1. UNCHANGED client => ClientTypes'
    BY DEF TypeOK, ClientTypes, client
  <1>2. UNCHANGED <<inPool, outPool, shared>> => SharedTypes'
    BY DEF TypeOK, SharedTypes, shared
  <1>3. UNCHANGED worker => WorkerTypes'
    BY DEF TypeOK, WorkerTypes, worker
  <1>4. UNCHANGED <<mon, wg, writer, trailer>> => WriterTypes'
    BY DEF TypeOK, WriterTypes, writer
  <1> QED BY <1>1, <1>2, <1>3, <1>4

\* The goroutines do not touch what the client owns.
LEMMA ClientKept ==
    ASSUME TypeInv, UNCHANGED <<client, chunk>>
    PROVE  ClientPlaces' /\ ChunksCut'
  BY DEF TypeInv, ClientPlaces, ChunksCut, client

\* What the client does leaves the output side alone.
LEMMA OutputKept ==
    ASSUME TypeInv, UNCHANGED <<outPool, writer>>
    PROVE  OutInRange'
  BY DEF TypeInv, OutInRange, Held, writer

\* Chunks only grow, so that what has been read of them stays below their
\* length.
LEMMA ReadKept ==
    ASSUME TypeInv, UNCHANGED <<wkIdx, wkRead>>, UNCHANGED chunk \/ WriteFills
    PROVE  ReadInRange'
  <1>1. \A i \in Idx : Len(chunk[i]) \in Nat
    BY DEF TypeInv, TypeOK, ClientTypes, SharedTypes, WorkerTypes
  <1>2. /\ \A i \in Idx : Len(chunk'[i]) \in Nat
        /\ \A i \in Idx : Len(chunk[i]) <= Len(chunk'[i])
    <2>1. CASE UNCHANGED chunk
      BY <1>1, <2>1
    <2>2. CASE WriteFills /\ pipe \in inPool.shut
      BY <1>1, <2>2 DEF WriteFills
    <2>3. CASE WriteFills /\ pipe \notin inPool.shut
      <3>1. PICK k \in 0 .. todo :
              /\ pipe \in Idx
              /\ \A i \in Idx : i # pipe => chunk'[i] = chunk[i]
              /\ Len(chunk'[pipe]) = Len(chunk[pipe]) + k
        BY <2>3, FillsFields
      <3>2. k \in Nat
        BY WriterAssumption
        DEF TypeInv, TypeOK, ClientTypes, SharedTypes, WorkerTypes
      <3>3. ASSUME NEW i \in Idx
            PROVE  Len(chunk'[i]) \in Nat /\ Len(chunk[i]) <= Len(chunk'[i])
        <4>1. CASE i = pipe
          BY <1>1, <3>1, <3>2, <4>1
        <4>2. CASE i # pipe
          BY <1>1, <3>1, <4>2
        <4> QED BY <4>1, <4>2
      <3> QED BY <3>3
    <2> QED BY <2>1, <2>2, <2>3
  <1>3. ASSUME NEW w \in Workers PROVE wkRead'[w] <= Len(chunk'[wkIdx'[w]])
    <2>1. wkIdx[w] \in Idx /\ wkRead[w] \in Nat
      BY DEF TypeInv, TypeOK, ClientTypes, SharedTypes, WorkerTypes
    <2>2. wkRead[w] <= Len(chunk[wkIdx[w]])
      BY DEF TypeInv, ReadInRange
    <2> QED BY <1>1, <1>2, <2>1, <2>2
  <1> QED BY <1>3 DEF ReadInRange

\* One worker moves, and the others stay where they are.
LEMMA WorkerMoves ==
    ASSUME TypeInv, NEW w \in Workers, NEW from, NEW to \in WorkerPlace,
           WorkerAt(w, from, to)
    PROVE  /\ wk' \in [Workers -> WorkerPlace]
           /\ wk[w] = from /\ wk'[w] = to
           /\ \A v \in Workers : v # w => wk'[v] = wk[v]
  BY DEF WorkerAt, TypeInv, TypeOK, ClientTypes, SharedTypes, WorkerTypes,
         WorkerPlace

\* The steps of the calls, the first ones included.
Calls ==
    \/ \E n \in 1 .. MaxWrite : Write(n)
    \/ CloseStarts
    \/ Client

LEMMA TypeInvClient ==
    ASSUME TypeInv, Calls
    PROVE  TypeInv'
  <1> USE DEF client, shared, worker, writer
  <1>0. /\ inPool \in Pools(Idx)
        /\ OutInRange' /\ ReadInRange'
    <2>1. UNCHANGED <<outPool, writer>>
      BY DEF Calls, Write, CloseStarts, Client, WriteGetsPipe, WriteFills,
             WriteShuts, WriteFails, CloseEndsInput, CloseJoins,
             CloseWritesTrailer
    <2>2. UNCHANGED <<wkIdx, wkRead>> /\ (UNCHANGED chunk \/ WriteFills)
      BY DEF Calls, Write, CloseStarts, Client, WriteGetsPipe, WriteFills,
             WriteShuts, WriteFails, CloseEndsInput, CloseJoins,
             CloseWritesTrailer
    <2> QED BY <2>1, <2>2, OutputKept, ReadKept
            DEF TypeInv, TypeOK, ClientTypes, SharedTypes, Pools
  <1>1. ASSUME NEW n \in 1 .. MaxWrite, Write(n) PROVE TypeInv'
    <2>1. n \in 0 .. MaxWrite /\ n > 0
      BY WriterAssumption
    <2>2. TypeOK'
      BY <1>1, <2>1, TypesKept
      DEF Write, TypeInv, TypeOK, ClientTypes, SharedTypes
    <2>3. /\ todo' = n /\ cl' = "loop" /\ ~closed /\ sent + n <= Total
          /\ UNCHANGED <<sent, pipe, idx, closed, chunk>>
      BY <1>1 DEF Write
    <2>4. ClientPlaces'
      BY <2>1, <2>3 DEF TypeInv, ClientPlaces
    <2>5. ChunksCut'
      BY <2>3 DEF TypeInv, ChunksCut
    <2> QED BY <1>0, <2>2, <2>4, <2>5 DEF TypeInv
  <1>2. CASE WriteGetsPipe
    <2>1. CASE inPool.closed
      <3>1. TypeOK'
        BY <1>2, <2>1, TypesKept
        DEF WriteGetsPipe, TypeInv, TypeOK, ClientTypes, SharedTypes
      <3>2. ClientPlaces' /\ ChunksCut'
        BY <1>2, <2>1
        DEF WriteGetsPipe, TypeInv, TypeOK, ClientTypes, SharedTypes,
            ClientPlaces, ChunksCut
      <3> QED BY <1>0, <3>1, <3>2 DEF TypeInv
    <2>2. CASE ~inPool.closed
      <3>1. /\ inPool' \in GetWriter(inPool, idx)
            /\ pipe' = idx /\ idx' = idx + 1
            /\ UNCHANGED <<cl, todo, sent, closed, chunk>>
            /\ cl = "loop" /\ pipe = NoIdx
        BY <1>2, <2>2 DEF WriteGetsPipe
      <3>2. idx \in Idx /\ sent = idx * ChunkSize
        BY <3>1, NextInRange
      <3>3. inPool' \in Pools(Idx)
        BY <1>0, <3>1, <3>2, GetWriterFields
      <3>4. TypeOK'
        BY <1>2, <2>2, <3>2, <3>3, TypesKept
        DEF WriteGetsPipe, TypeInv, TypeOK, ClientTypes, SharedTypes, Pools
      <3>5. ClientPlaces'
        BY <3>1, <3>2, IdxNat
        DEF TypeInv, TypeOK, ClientTypes, SharedTypes, ClientPlaces, NoIdx
      <3>6. ChunksCut'
        <4>1. chunk[idx] = <<>> /\ Len(chunk[idx]) = 0
          BY <3>2, IdxNat DEF TypeInv, ChunksCut
        <4>2. sent' = (idx' - 1) * ChunkSize + Len(chunk'[idx' - 1])
          BY <3>1, <3>2, <4>1, IdxNat, WriterAssumption
          DEF TypeInv, TypeOK, ClientTypes, SharedTypes
        <4>3. ASSUME NEW i \in Idx, i + 1 < idx' PROVE Len(chunk'[i]) = ChunkSize
          <5>1. CASE i + 1 < idx
            BY <3>1, <5>1 DEF TypeInv, ChunksCut
          <5>2. CASE i + 1 = idx
            <6>1. i = idx - 1 /\ idx > 0 /\ ~closed
              BY <3>1, <5>2, IdxNat DEF TypeInv, ClientPlaces
            <6> QED BY <3>1, <6>1 DEF TypeInv, ClientPlaces
          <5> QED BY <3>1, <4>3, <5>1, <5>2, IdxNat
                  DEF TypeInv, TypeOK, ClientTypes, SharedTypes
        <4>4. ASSUME NEW i \in Idx, i >= idx' PROVE chunk'[i] = <<>>
          BY <3>1, <4>4, IdxNat
          DEF TypeInv, TypeOK, ClientTypes, SharedTypes, ChunksCut
        <4>5. idx' - 1 \in Idx /\ idx' # 0
          BY <3>1, <3>2, IdxNat
        <4> QED BY <3>1, <4>2, <4>3, <4>4, <4>5 DEF TypeInv, ChunksCut
      <3> QED BY <1>0, <3>4, <3>5, <3>6 DEF TypeInv
    <2> QED BY <2>1, <2>2
  <1>3. CASE WriteFills
    <2>1. CASE pipe \in inPool.shut
      <3>1. TypeOK'
        BY <1>3, <2>1, TypesKept
        DEF WriteFills, TypeInv, TypeOK, ClientTypes, SharedTypes
      <3>2. ClientPlaces' /\ ChunksCut'
        BY <1>3, <2>1
        DEF WriteFills, TypeInv, TypeOK, ClientTypes, SharedTypes,
            ClientPlaces, ChunksCut
      <3> QED BY <1>0, <3>1, <3>2 DEF TypeInv
    <2>2. CASE pipe \notin inPool.shut
      <3>1. PICK k \in 0 .. todo :
             /\ pipe \in Idx
             /\ chunk' \in [Idx -> Seq(Unit)]
             /\ \A i \in Idx : i # pipe => chunk'[i] = chunk[i]
             /\ Len(chunk'[pipe]) = Len(chunk[pipe]) + k
             /\ Len(chunk'[pipe]) <= ChunkSize
             /\ \A j \in 1 .. Len(chunk'[pipe]) :
                  chunk'[pipe][j] = pipe * ChunkSize + j
             /\ sent' = sent + k /\ todo' = todo - k
             /\ \/ cl' = "idle" /\ k = todo
                \/ cl' = "full" /\ k < todo /\ Len(chunk'[pipe]) = ChunkSize
        BY <1>3, <2>2, FillsFields
      <3>2. /\ sent + k <= Total /\ pipe # NoIdx /\ idx = pipe + 1
            /\ cl = "loop" /\ ~closed
            /\ UNCHANGED <<pipe, idx, closed>>
        <4>1. sent + k <= Total
          <5>1. sent \in Nat /\ todo \in Nat /\ Total \in Nat
            BY WriterAssumption DEF TypeInv, TypeOK, ClientTypes, SharedTypes
          <5>2. sent + todo <= Total
            BY DEF TypeInv, ChunksCut
          <5> QED BY <5>1, <5>2
        <4>2. /\ pipe # NoIdx /\ cl = "loop"
              /\ UNCHANGED <<pipe, idx, closed>>
          BY <1>3 DEF WriteFills
        <4> QED BY <4>1, <4>2 DEF TypeInv, ClientPlaces
      <3>3. TypeOK'
        <4>1. sent' \in 0 .. Total /\ todo' \in 0 .. MaxWrite
          BY <3>1, <3>2, WriterAssumption
          DEF TypeInv, TypeOK, ClientTypes, SharedTypes
        <4>2. chunk' \in [Idx -> Seq(Unit)] /\ cl' \in {"idle", "full"}
          BY <3>1
        <4>3. UNCHANGED <<pipe, idx, closed, lastErr, wrote, outcome, inPool,
                          outPool, block, errChan, doneChan, killed, mon,
                          worker, wg, writer, trailer>>
          BY <1>3 DEF WriteFills
        <4>4. ClientTypes' /\ SharedTypes'
          BY <4>1, <4>2, <4>3 DEF TypeInv, TypeOK, ClientTypes, SharedTypes
        <4> QED BY <4>3, <4>4, TypesKept DEF TypeInv, TypeOK
      <3>4. ClientPlaces'
        BY <3>1, <3>2
        DEF TypeInv, TypeOK, ClientTypes, SharedTypes, ClientPlaces
      <3>5. ChunksCut'
        <4>1. idx # 0 /\ idx - 1 = pipe
          BY <3>1, <3>2, IdxNat
        <4>2. sent' = (idx' - 1) * ChunkSize + Len(chunk'[idx' - 1])
          <5>1. sent = pipe * ChunkSize + Len(chunk[pipe])
            BY <4>1 DEF TypeInv, ChunksCut
          <5>2. pipe * ChunkSize \in Nat /\ Len(chunk[pipe]) \in Nat
            BY <3>1, IdxNat, WriterAssumption
            DEF TypeInv, TypeOK, ClientTypes, SharedTypes
          <5> QED BY <3>1, <3>2, <4>1, <5>1, <5>2
        <4>3. sent' + todo' <= Total
          BY <3>1 DEF TypeInv, TypeOK, ClientTypes, SharedTypes, ChunksCut
        <4>4. ASSUME NEW i \in Idx
              PROVE  /\ Len(chunk'[i]) <= ChunkSize
                     /\ i >= idx' => chunk'[i] = <<>>
                     /\ i + 1 < idx' => Len(chunk'[i]) = ChunkSize
                     /\ \A j \in 1 .. Len(chunk'[i]) :
                          chunk'[i][j] = i * ChunkSize + j
          <5>1. CASE i = pipe
            <6>1. ~(i >= idx') /\ ~(i + 1 < idx')
              BY <3>2, <5>1, IdxNat
            <6> QED BY <3>1, <5>1, <6>1
          <5>2. CASE i # pipe
            BY <3>1, <3>2, <5>2, IdxNat
            DEF TypeInv, TypeOK, ClientTypes, SharedTypes, ChunksCut
          <5> QED BY <5>1, <5>2
        <4> QED BY <3>1, <3>2, <4>1, <4>2, <4>3, <4>4 DEF ChunksCut
      <3> QED BY <1>0, <3>3, <3>4, <3>5 DEF TypeInv
    <2> QED BY <2>1, <2>2
  <1>4. CASE WriteShuts
    <2>1. pipe \in Idx
      BY <1>4
      DEF WriteShuts, TypeInv, TypeOK, ClientTypes, SharedTypes, ClientPlaces
    <2>2. inPool' \in Pools(Idx)
      BY <1>0, <1>4, <2>1, ClosePipeFields DEF WriteShuts
    <2>3. TypeOK'
      BY <1>4, <2>2, TypesKept
      DEF WriteShuts, TypeInv, TypeOK, ClientTypes, SharedTypes, Pools
    <2>4. ClientPlaces' /\ ChunksCut'
      BY <1>4, <2>1, IdxNat
      DEF WriteShuts, TypeInv, TypeOK, ClientTypes, SharedTypes, ClientPlaces,
          ChunksCut, NoIdx
    <2> QED BY <1>0, <2>3, <2>4 DEF TypeInv
  <1>5. CASE WriteFails
    <2>1. TypeOK'
      BY <1>5, WriterAssumption, TypesKept
      DEF WriteFails, checkErr, TypeInv, TypeOK, ClientTypes, SharedTypes
    <2>2. ClientPlaces' /\ ChunksCut'
      BY <1>5
      DEF WriteFails, TypeInv, TypeOK, ClientTypes, SharedTypes, ClientPlaces,
          ChunksCut
    <2> QED BY <1>0, <2>1, <2>2 DEF TypeInv
  <1>6. CASE CloseStarts
    <2>1. inPool' \in Pools(Idx)
      BY <1>0, <1>6, ClosePipeFields
      DEF CloseStarts, TypeInv, TypeOK, ClientTypes, SharedTypes
    <2>2. TypeOK'
      BY <1>6, <2>1, TypesKept
      DEF CloseStarts, TypeInv, TypeOK, ClientTypes, SharedTypes, Pools
    <2>3. ClientPlaces' /\ ChunksCut'
      BY <1>6
      DEF CloseStarts, TypeInv, TypeOK, ClientTypes, SharedTypes,
          ClientPlaces, ChunksCut
    <2> QED BY <1>0, <2>2, <2>3 DEF TypeInv
  <1>7. CASE CloseEndsInput
    <2>1. inPool' \in Pools(Idx)
      BY <1>0, <1>7, CloseFields DEF CloseEndsInput
    <2>2. TypeOK'
      BY <1>7, <2>1, TypesKept
      DEF CloseEndsInput, TypeInv, TypeOK, ClientTypes, SharedTypes, Pools
    <2>3. ClientPlaces' /\ ChunksCut'
      BY <1>7
      DEF CloseEndsInput, TypeInv, TypeOK, ClientTypes, SharedTypes,
          ClientPlaces, ChunksCut
    <2> QED BY <1>0, <2>2, <2>3 DEF TypeInv
  <1>8. CASE CloseJoins
    <2>1. TypeOK'
      BY <1>8, TypesKept
      DEF CloseJoins, checkErr, TypeInv, TypeOK, ClientTypes, SharedTypes
    <2>2. ClientPlaces' /\ ChunksCut'
      BY <1>8
      DEF CloseJoins, TypeInv, TypeOK, ClientTypes, SharedTypes, ClientPlaces,
          ChunksCut
    <2> QED BY <1>0, <2>1, <2>2 DEF TypeInv
  <1>9. CASE CloseWritesTrailer
    <2>1. TypeOK'
      <3>1. /\ outcome' \in {"ok", "err"} /\ cl' = "idle"
            /\ trailer' \in {records, trailer}
            /\ UNCHANGED <<todo, sent, pipe, idx, closed, lastErr, wrote,
                           inPool, outPool, shared, mon, worker, wg, writer>>
        BY <1>9 DEF CloseWritesTrailer
      <3>2. ClientTypes'
        BY <3>1 DEF TypeInv, TypeOK, ClientTypes
      <3>3. WriterTypes'
        BY <3>1 DEF TypeInv, TypeOK, WriterTypes
      <3> QED BY <3>1, <3>2, <3>3, TypesKept DEF TypeInv, TypeOK
    <2>2. ClientPlaces' /\ ChunksCut'
      BY <1>9
      DEF CloseWritesTrailer, TypeInv, TypeOK, ClientTypes, SharedTypes,
          ClientPlaces, ChunksCut
    <2> QED BY <1>0, <2>1, <2>2 DEF TypeInv
  <1> QED BY <1>1, <1>2, <1>3, <1>4, <1>5, <1>6, <1>7, <1>8, <1>9
      DEF Calls, Client

LEMMA TypeInvMonitor ==
    ASSUME TypeInv, monitor \/ groupWait \/ groupEnds
    PROVE  TypeInv'
  <1> USE DEF client, shared, worker, writer
  <1>0. /\ inPool \in Pools(Idx) /\ outPool \in Pools(Nat)
        /\ 1 \in 0 .. NumWorkers /\ NumWorkers \in 0 .. NumWorkers
    BY NumWorkersNat
    DEF TypeInv, TypeOK, SharedTypes, WorkerTypes, WriterTypes, Pools
  <1>1. ClientPlaces' /\ ChunksCut' /\ ReadInRange'
    <2>1. UNCHANGED <<client, chunk, wkIdx, wkRead>>
      BY DEF monitor, monitorSizesIn, monitorSizesOut, monitorSpawns,
             monitorKills, monitorEndsOut, monitorEndsIn, groupWait, groupEnds
    <2> QED BY <2>1, ClientKept, ReadKept
  <1>2. CASE monitorSizesIn
    <2>1. inPool' \in Pools(Idx)
      BY <1>0, <1>2, SetCapacityFields DEF monitorSizesIn
    <2>2. TypeOK'
      BY <1>2, <2>1, TypesKept
      DEF monitorSizesIn, TypeInv, TypeOK, SharedTypes, WorkerTypes,
          WriterTypes, Pools
    <2> QED BY <1>1, <1>2, <2>2, OutputKept DEF TypeInv, monitorSizesIn
  <1>3. CASE monitorSizesOut
    <2>1. /\ outPool' \in Pools(Nat)
          /\ outPool'.ready = outPool.ready /\ outPool'.active = outPool.active
      BY <1>0, <1>3, SetCapacityFields DEF monitorSizesOut
    <2>2. TypeOK'
      BY <1>3, <2>1, TypesKept
      DEF monitorSizesOut, TypeInv, TypeOK, SharedTypes, WorkerTypes,
          WriterTypes, Pools
    <2> QED BY <1>1, <1>3, <2>1, <2>2
            DEF TypeInv, OutInRange, Held, monitorSizesOut
  <1>4. CASE monitorSpawns
    <2>1. wk' \in [Workers -> WorkerPlace]
      BY <1>4
      DEF monitorSpawns, Unborn, TypeInv, TypeOK, SharedTypes, WorkerTypes,
          WriterTypes, WorkerPlace
    <2>2. TypeOK'
      BY <1>4, <2>1, TypesKept
      DEF monitorSpawns, TypeInv, TypeOK, SharedTypes, WorkerTypes,
          WriterTypes, WorkerPlace
    <2> QED BY <1>1, <1>4, <2>2, OutputKept DEF TypeInv, monitorSpawns
  <1>5. CASE monitorKills
    <2>1. TypeOK'
      BY <1>5, TypesKept
      DEF monitorKills, TypeInv, TypeOK, SharedTypes, WorkerTypes, WriterTypes
    <2> QED BY <1>1, <1>5, <2>1, OutputKept DEF TypeInv, monitorKills
  <1>6. CASE monitorEndsOut
    <2>1. /\ outPool' \in Pools(Nat)
          /\ outPool'.ready = {} /\ outPool'.active = outPool.active
      BY <1>0, <1>6, TerminateFields DEF monitorEndsOut
    <2>2. TypeOK'
      BY <1>6, <2>1, TypesKept
      DEF monitorEndsOut, TypeInv, TypeOK, SharedTypes, WorkerTypes,
          WriterTypes, Pools
    <2> QED BY <1>1, <1>6, <2>1, <2>2
            DEF TypeInv, OutInRange, Held, monitorEndsOut
  <1>7. CASE monitorEndsIn
    <2>1. inPool' \in Pools(Idx)
      BY <1>0, <1>7, TerminateFields DEF monitorEndsIn
    <2>2. TypeOK'
      BY <1>7, <2>1, TypesKept
      DEF monitorEndsIn, TypeInv, TypeOK, SharedTypes, WorkerTypes,
          WriterTypes, Pools
    <2> QED BY <1>1, <1>7, <2>2, OutputKept DEF TypeInv, monitorEndsIn
  <1>8. CASE groupWait
    <2>1. TypeOK'
      BY <1>8, TypesKept
      DEF groupWait, TypeInv, TypeOK, SharedTypes, WorkerTypes, WriterTypes
    <2> QED BY <1>1, <1>8, <2>1, OutputKept DEF TypeInv, groupWait
  <1>9. CASE groupEnds
    <2>1. /\ outPool' \in Pools(Nat)
          /\ outPool'.ready = outPool.ready /\ outPool'.active = outPool.active
      BY <1>0, <1>9, CloseFields DEF groupEnds
    <2>2. TypeOK'
      BY <1>9, <2>1, TypesKept
      DEF groupEnds, TypeInv, TypeOK, SharedTypes, WorkerTypes, WriterTypes,
          Pools
    <2> QED BY <1>1, <1>9, <2>1, <2>2 DEF TypeInv, OutInRange, Held, groupEnds
  <1> QED BY <1>2, <1>3, <1>4, <1>5, <1>6, <1>7, <1>8, <1>9 DEF monitor

LEMMA TypeInvWorker ==
    ASSUME TypeInv, NEW w \in Workers, Work(w)
    PROVE  TypeInv'
  <1> USE DEF client, shared, worker, writer
  <1>0. /\ inPool \in Pools(Idx) /\ outPool \in Pools(Nat)
        /\ wkIdx[w] \in Idx /\ wkIdx[w] \in Nat
        /\ chunk[wkIdx[w]] \in Seq(Unit)
    BY IdxNat DEF TypeInv, TypeOK, SharedTypes, WorkerTypes, Pools
  <1>1. ClientPlaces' /\ ChunksCut'
    <2>1. UNCHANGED <<client, chunk>>
      BY DEF Work, WorkerAt, workerGets, workerEnds, workerGetsOutput,
             workerRefused, encodeRuns, encodeMeetsEOF, encodeOverflows,
             encodeFinishes, finishOverflows, encodeLiteral, encodeFails,
             workerSeals, workerRestores, workerSelects
    <2> QED BY <2>1, ClientKept
  <1>2. CASE workerGets(w)
    <2>1. PICK i \in Readable(inPool, NoIdx) :
            /\ inPool' = GetReader(inPool, NoIdx, i)
            /\ wkIdx' = [wkIdx EXCEPT ![w] = i]
      BY <1>2 DEF workerGets
    <2>2. inPool' \in Pools(Idx) /\ i \in Idx
      BY <1>0, <2>1, GetReaderFields
    <2>3. wk' \in [Workers -> WorkerPlace]
      BY <1>2, WorkerMoves DEF workerGets, WorkerPlace
    <2>4. /\ wkIdx' \in [Workers -> Idx] /\ wkRead' \in [Workers -> Nat]
          /\ wkErr' \in [Workers -> BOOLEAN]
      BY <1>2, <2>1, <2>2
      DEF workerGets, TypeInv, TypeOK, SharedTypes, WorkerTypes
    <2>5. TypeOK'
      <3>1. UNCHANGED <<client, outPool, shared, mon, wg, writer, trailer>>
        BY <1>2 DEF workerGets, WorkerAt
      <3>2. inPool' \in PoolType(Idx, 0 .. NumWorkers)
        BY <2>2 DEF Pools
      <3> QED BY <2>3, <2>4, <3>1, <3>2, TypesKept
              DEF TypeInv, TypeOK, SharedTypes, WorkerTypes
    <2>6. ReadInRange'
      <3>1. /\ UNCHANGED chunk /\ wkRead'[w] = 0 /\ wkIdx'[w] = i
            /\ \A v \in Workers \ {w} : wkIdx'[v] = wkIdx[v] /\ wkRead'[v] = wkRead[v]
        BY <1>2, <2>1
        DEF workerGets, WorkerAt, TypeInv, TypeOK, SharedTypes, WorkerTypes
      <3>2. Len(chunk[i]) \in Nat
        BY <2>2 DEF TypeInv, TypeOK, SharedTypes, WorkerTypes
      <3> QED BY <3>1, <3>2 DEF TypeInv, ReadInRange
    <2> QED BY <1>1, <1>2, <2>5, <2>6, OutputKept
            DEF TypeInv, workerGets, WorkerAt
  <1>3. CASE workerGetsOutput(w)
    <2>1. /\ outPool' \in Pools(Nat)
          /\ outPool'.ready = outPool.ready \cup {wkIdx[w]}
          /\ outPool'.active = outPool.active
      BY <1>0, <1>3, GetWriterFields DEF workerGetsOutput
    <2>2. block' \in [Idx -> [data : Seq(Unit), size : Nat, err : BOOLEAN]]
      <3>1. <<>> \in Seq(Unit) OBVIOUS
      <3> QED BY <1>0, <1>3, <3>1
              DEF workerGetsOutput, NoBlock, TypeInv, TypeOK, SharedTypes,
                  WorkerTypes
    <2>3. wk' \in [Workers -> WorkerPlace]
      BY <1>3, WorkerMoves DEF workerGetsOutput, WorkerPlace
    <2>4. TypeOK'
      <3>1. UNCHANGED <<client, inPool, chunk, errChan, doneChan, killed, mon,
                        wkIdx, wkRead, wkErr, wg, writer, trailer>>
        BY <1>3 DEF workerGetsOutput, WorkerAt
      <3> QED BY <2>1, <2>2, <2>3, <3>1, TypesKept
              DEF TypeInv, TypeOK, SharedTypes, WorkerTypes, Pools
    <2>5. ReadInRange'
      BY <1>3, ReadKept DEF workerGetsOutput, WorkerAt
    <2> QED BY <1>0, <1>1, <1>3, <2>1, <2>4, <2>5
            DEF TypeInv, OutInRange, Held, workerGetsOutput, WorkerAt
  <1>4. CASE workerEnds(w) \/ workerRefused(w) \/ workerSelects(w)
    <2>1. wk' \in [Workers -> WorkerPlace]
      BY <1>4, WorkerMoves
      DEF workerEnds, workerRefused, workerSelects, WorkerPlace
    <2>2. UNCHANGED <<client, inPool, outPool, shared, mon, wkIdx, wkRead,
                      wkErr, wg, writer, trailer>>
      BY <1>4 DEF workerEnds, workerRefused, workerSelects, WorkerAt
    <2>3. TypeOK'
      BY <2>1, <2>2, TypesKept DEF TypeInv, TypeOK, SharedTypes, WorkerTypes
    <2> QED BY <1>1, <2>2, <2>3, OutputKept, ReadKept DEF TypeInv
  <1>5. CASE encodeRuns(w)
    <2>1. wk' \in [Workers -> WorkerPlace]
      BY <1>5, WorkerMoves DEF encodeRuns, WorkerPlace
    <2>2. Len(chunk[wkIdx[w]]) \in Nat
      BY <1>0
    <2>3. wkRead' \in [Workers -> Nat]
      BY <1>5, <2>2 DEF encodeRuns, TypeInv, TypeOK, SharedTypes, WorkerTypes
    <2>4. TypeOK'
      BY <1>5, <2>1, <2>3, TypesKept
      DEF encodeRuns, WorkerAt, TypeInv, TypeOK, SharedTypes, WorkerTypes
    <2>5. ReadInRange'
      <3>1. /\ UNCHANGED <<chunk, wkIdx>> /\ wkRead'[w] = Len(chunk[wkIdx[w]])
            /\ \A v \in Workers \ {w} : wkRead'[v] = wkRead[v]
        BY <1>5
        DEF encodeRuns, WorkerAt, TypeInv, TypeOK, SharedTypes, WorkerTypes
      <3> QED BY <2>2, <3>1 DEF TypeInv, ReadInRange
    <2> QED BY <1>1, <1>5, <2>4, <2>5, OutputKept
            DEF TypeInv, encodeRuns, WorkerAt
  <1>6. CASE \/ encodeMeetsEOF(w) \/ encodeOverflows(w)
             \/ finishOverflows(w) \/ encodeFails(w)
    <2>1. wk' \in [Workers -> WorkerPlace]
      BY <1>6, WorkerMoves
      DEF encodeMeetsEOF, encodeOverflows, finishOverflows, encodeFails,
          WorkerPlace
    <2>2. wkErr' \in [Workers -> BOOLEAN]
      BY <1>6
      DEF encodeMeetsEOF, encodeOverflows, finishOverflows, encodeFails,
                  TypeInv, TypeOK, SharedTypes, WorkerTypes
    <2>3. UNCHANGED <<client, inPool, outPool, shared, mon, wkIdx, wkRead, wg,
                      writer, trailer>>
      BY <1>6
      DEF encodeMeetsEOF, encodeOverflows, finishOverflows, encodeFails,
                  WorkerAt
    <2>4. TypeOK'
      BY <2>1, <2>2, <2>3, TypesKept
      DEF TypeInv, TypeOK, SharedTypes, WorkerTypes
    <2> QED BY <1>1, <2>3, <2>4, OutputKept, ReadKept DEF TypeInv
  <1>7. CASE encodeFinishes(w) \/ encodeLiteral(w)
    <2>1. \E data \in Seq(Unit) : Leave(w, data)
      <3>1. CASE encodeFinishes(w)
        <4>1. wkRead[w] \in 0 .. Len(chunk[wkIdx[w]])
          <5>1. Len(chunk[wkIdx[w]]) \in Nat /\ wkRead[w] \in Nat
            BY <1>0 DEF TypeInv, TypeOK, SharedTypes, WorkerTypes
          <5> QED BY <5>1 DEF TypeInv, ReadInRange
        <4>2. SubSeq(chunk[wkIdx[w]], 1, wkRead[w]) \in Seq(Unit)
          BY <1>0, <4>1
        <4> QED BY <3>1, <4>2 DEF encodeFinishes
      <3>2. CASE encodeLiteral(w)
        BY <1>0, <3>2 DEF encodeLiteral
      <3> QED BY <1>7, <3>1, <3>2
    <2>2. block' \in [Idx -> [data : Seq(Unit), size : Nat, err : BOOLEAN]]
      BY <1>0, <2>1 DEF Leave, TypeInv, TypeOK, SharedTypes, WorkerTypes
    <2>3. wk' \in [Workers -> WorkerPlace]
      BY <1>7, WorkerMoves DEF encodeFinishes, encodeLiteral, WorkerPlace
    <2>4. UNCHANGED <<client, inPool, outPool, chunk, errChan, doneChan, killed,
                      mon, wkIdx, wkRead, wkErr, wg, writer, trailer>>
      BY <1>7 DEF encodeFinishes, encodeLiteral, WorkerAt
    <2>5. TypeOK'
      BY <2>2, <2>3, <2>4, TypesKept
      DEF TypeInv, TypeOK, SharedTypes, WorkerTypes
    <2> QED BY <1>1, <2>4, <2>5, OutputKept, ReadKept DEF TypeInv
  <1>8. CASE workerSeals(w)
    <2>1. /\ outPool' \in Pools(Nat)
          /\ outPool'.ready = outPool.ready /\ outPool'.active = outPool.active
      BY <1>0, <1>8, ClosePipeFields DEF workerSeals
    <2>2. block' \in [Idx -> [data : Seq(Unit), size : Nat, err : BOOLEAN]]
      BY <1>0, <1>8 DEF workerSeals, TypeInv, TypeOK, SharedTypes, WorkerTypes
    <2>3. wk' \in [Workers -> WorkerPlace]
      BY <1>8, WorkerMoves DEF workerSeals, WorkerPlace
    <2>4. TypeOK'
      BY <1>8, <2>1, <2>2, <2>3, TypesKept
      DEF workerSeals, WorkerAt, TypeInv, TypeOK, SharedTypes, WorkerTypes,
          Pools
    <2>5. ReadInRange'
      BY <1>8, ReadKept DEF workerSeals, WorkerAt
    <2> QED BY <1>1, <1>8, <2>1, <2>4, <2>5
            DEF TypeInv, OutInRange, Held, workerSeals, WorkerAt
  <1>9. CASE workerRestores(w)
    <2>1. inPool' \in Pools(Idx)
      BY <1>0, <1>9, RestoreFields DEF workerRestores
    <2>2. wk' \in [Workers -> WorkerPlace]
      BY <1>9, WorkerMoves DEF workerRestores, WorkerPlace
    <2>3. TypeOK'
      BY <1>9, <2>1, <2>2, TypesKept
      DEF workerRestores, WorkerAt, TypeInv, TypeOK, SharedTypes, WorkerTypes,
          Pools
    <2> QED BY <1>1, <1>9, <2>3, OutputKept, ReadKept
            DEF TypeInv, workerRestores, WorkerAt
  <1> QED BY <1>2, <1>3, <1>4, <1>5, <1>6, <1>7, <1>8, <1>9 DEF Work

LEMMA TypeInvWriter ==
    ASSUME TypeInv, writerSteps
    PROVE  TypeInv'
  <1> USE DEF client, shared, worker, writer
  <1>0. /\ outPool \in Pools(Nat) /\ index \in Nat /\ index + 1 \in Nat
        /\ index # NoIdx /\ Held' = index' - 1
    BY DEF TypeInv, TypeOK, SharedTypes, WriterTypes, Pools, NoIdx, Held
  <1>1. ClientPlaces' /\ ChunksCut' /\ ReadInRange'
    <2>1. UNCHANGED <<client, chunk, wkIdx, wkRead>>
      BY DEF writerSteps, WriterAt, writerAnnounces, writerGets, writerEnds,
             writerCopies, writerRestores, writerAsserts, writerReports,
             writerTerminates
    <2> QED BY <2>1, ClientKept, ReadKept
  <1>2. CASE writerAnnounces
    <2>1. /\ outPool' \in Pools(Nat)
          /\ outPool'.ready = outPool.ready /\ outPool'.active = outPool.active
      BY <1>0, <1>2, AnnounceFields DEF writerAnnounces
    <2>2. TypeOK'
      BY <1>2, <2>1, TypesKept
      DEF writerAnnounces, WriterAt, TypeInv, TypeOK, SharedTypes,
          WriterTypes, Pools
    <2> QED BY <1>1, <1>2, <2>1, <2>2
            DEF TypeInv, OutInRange, writerAnnounces, WriterAt
  <1>3. CASE writerGets
    <2>1. PICK i \in Readable(outPool, index) :
            outPool' = GetReader(outPool, index, i)
      BY <1>3 DEF writerGets
    <2>2. /\ outPool' \in Pools(Nat) /\ i = index /\ i \in outPool.ready
          /\ outPool'.ready = outPool.ready \ {i}
          /\ outPool'.active = outPool.active \cup {i}
      BY <1>0, <2>1, GetReaderFields
    <2>3. TypeOK'
      BY <1>0, <1>3, <2>2, TypesKept
      DEF writerGets, WriterAt, TypeInv, TypeOK, SharedTypes, WriterTypes,
          Pools
    <2>4. index \in Idx /\ Held' = index
      BY <1>0, <1>3, <2>2 DEF writerGets, TypeInv, OutInRange
    <2> QED BY <1>1, <2>2, <2>3, <2>4 DEF TypeInv, OutInRange
  <1>4. CASE writerEnds
    <2>1. /\ outPool' \in Pools(Nat)
          /\ outPool'.ready = outPool.ready /\ outPool'.active = outPool.active
      BY <1>0, <1>4, GetReaderNilFields DEF writerEnds
    <2>2. TypeOK'
      BY <1>0, <1>4, <2>1, TypesKept
      DEF writerEnds, WriterAt, TypeInv, TypeOK, SharedTypes, WriterTypes,
          Pools
    <2> QED BY <1>1, <1>4, <2>1, <2>2 DEF TypeInv, OutInRange, writerEnds
  <1>5. CASE writerCopies
    <2>1. /\ wt = "copy" /\ wt' = "return"
          /\ UNCHANGED <<client, inPool, outPool, shared, mon, worker, wg,
                         index, trailer>>
      BY <1>5 DEF writerCopies, WriterAt
    <2>2. /\ Held \in Idx /\ block[Held].data \in Seq(Unit)
          /\ block[Held].size \in Nat
      BY <2>1 DEF TypeInv, TypeOK, SharedTypes, WriterTypes, OutInRange
    <2>3. file' \in Seq(Seq(Unit)) /\ torn' \in BOOLEAN
      <3>1. file \in Seq(Seq(Unit)) /\ torn \in BOOLEAN
        BY DEF TypeInv, TypeOK, SharedTypes, WriterTypes
      <3>2. \/ file' = Append(file, block[Held].data) /\ torn' = torn
            \/ file' = file /\ torn' = TRUE
        BY <1>5 DEF writerCopies, WriteTo
      <3>3. Append(file, block[Held].data) \in Seq(Seq(Unit))
        BY <2>2, <3>1
      <3> QED BY <3>1, <3>2, <3>3
    <2>4. records' \in Seq(Nat)
      BY <1>5, <2>2
      DEF writerCopies, AppendIndex, TypeInv, TypeOK, SharedTypes, WriterTypes
    <2>5. wtErr' \in {"nil", "err"}
      BY <1>5 DEF writerCopies
    <2>6. TypeOK'
      BY <2>1, <2>3, <2>4, <2>5, TypesKept
      DEF TypeInv, TypeOK, SharedTypes, WriterTypes
    <2> QED BY <1>1, <2>1, <2>2, <2>6 DEF TypeInv, OutInRange, Held
  <1>6. CASE writerRestores
    <2>1. wt = "return" /\ Held \in Idx /\ Held \in Nat
      BY <1>6, IdxNat DEF writerRestores, WriterAt, TypeInv, OutInRange
    <2>2. /\ outPool' \in Pools(Nat)
          /\ outPool'.ready = outPool.ready
          /\ outPool'.active = outPool.active \ {Held}
      BY <1>0, <1>6, <2>1, RestoreFields DEF writerRestores
    <2>3. TypeOK'
      BY <1>6, <2>2, TypesKept
      DEF writerRestores, WriterAt, TypeInv, TypeOK, SharedTypes, WriterTypes,
          Pools
    <2> QED BY <1>1, <1>6, <2>2, <2>3 DEF TypeInv, OutInRange, writerRestores
  <1>7. CASE writerAsserts
    <2>1. /\ outPool' \in Pools(Nat)
          /\ outPool'.ready \subseteq Idx /\ outPool'.active \subseteq Idx
      <3>1. CASE Readable(outPool, NoIdx) = {}
        BY <1>0, <1>7, <3>1 DEF writerAsserts, TypeInv, OutInRange
      <3>2. CASE Readable(outPool, NoIdx) # {}
        <4>1. PICK i \in Readable(outPool, NoIdx) :
                outPool' = GetReader(outPool, NoIdx, i)
          BY <1>7, <3>2 DEF writerAsserts
        <4>2. /\ outPool' \in Pools(Nat) /\ i \in outPool.ready
              /\ outPool'.ready = outPool.ready \ {i}
              /\ outPool'.active = outPool.active \cup {i}
          BY <1>0, <4>1, GetReaderFields
        <4> QED BY <4>2 DEF TypeInv, OutInRange
      <3> QED BY <3>1, <3>2
    <2>2. TypeOK'
      BY <1>7, <2>1, TypesKept
      DEF writerAsserts, WriterAt, TypeInv, TypeOK, SharedTypes, WriterTypes,
          Pools
    <2> QED BY <1>1, <1>7, <2>1, <2>2 DEF TypeInv, OutInRange, writerAsserts
  <1>8. CASE writerReports
    <2>1. TypeOK'
      BY <1>8, TypesKept
      DEF writerReports, Report, WriterAt, TypeInv, TypeOK, SharedTypes,
          WriterTypes
    <2> QED BY <1>1, <1>8, <2>1 DEF TypeInv, OutInRange, writerReports
  <1>9. CASE writerTerminates
    <2>1. TypeOK'
      <3>1. /\ doneChan' = TRUE /\ wt' = "exit"
            /\ UNCHANGED <<client, inPool, outPool, chunk, block, errChan,
                           killed, mon, worker, wg, index, wtErr, file, torn,
                           records, trailer>>
        BY <1>9 DEF writerTerminates, Terminated, WriterAt
      <3>2. SharedTypes'
        BY <3>1 DEF TypeInv, TypeOK, SharedTypes
      <3>3. WriterTypes'
        BY <3>1 DEF TypeInv, TypeOK, WriterTypes
      <3> QED BY <3>1, <3>2, <3>3, TypesKept DEF TypeInv, TypeOK
    <2> QED BY <1>1, <1>9, <2>1 DEF TypeInv, OutInRange, writerTerminates
  <1> QED BY <1>2, <1>3, <1>4, <1>5, <1>6, <1>7, <1>8, <1>9 DEF writerSteps

LEMMA TypeInvStutter ==
    ASSUME TypeInv, UNCHANGED vars
    PROVE  TypeInv'
  <1>1. UNCHANGED <<client, chunk, wkIdx, wkRead, outPool, writer>>
    BY DEF vars, shared, worker
  <1>2. TypeOK'
    BY TypesKept DEF TypeInv, TypeOK, vars
  <1> QED BY <1>1, <1>2, ClientKept, OutputKept, ReadKept DEF TypeInv

\* A step is one of the client's, of the monitors', of a worker, of the writer
\* goroutine, or none.
LEMMA Steps ==
    ASSUME [Next]_vars
    PROVE  \/ Calls
           \/ monitor \/ groupWait \/ groupEnds
           \/ \E w \in Workers : Work(w)
           \/ writerSteps
           \/ UNCHANGED vars
  BY DEF Next, Calls, Finished

LEMMA TypeInvStep == TypeInv /\ [Next]_vars => TypeInv'
  BY Steps, TypeInvClient, TypeInvMonitor, TypeInvWorker, TypeInvWriter,
     TypeInvStutter

LEMMA TypeInvInit == Init => TypeInv
  <1> SUFFICES ASSUME Init PROVE TypeInv
    OBVIOUS
  <1>1. TypeOK
    <2>1. inPool \in Pools(Idx) /\ outPool \in Pools(Nat)
      BY NewPoolFields DEF Init
    <2>2. /\ \A S : <<>> \in Seq(S)
          /\ 0 \in 0 .. MaxWrite /\ 0 \in 0 .. Total /\ 0 \in Nat
      BY WriterAssumption
    <2>3. block \in [Idx -> [data : Seq(Unit), size : Nat, err : BOOLEAN]]
      BY <2>2 DEF Init, NoBlock
    <2> QED BY <2>1, <2>2, <2>3, IdxNat
        DEF Init, TypeOK, ClientTypes, SharedTypes, WorkerTypes, WorkerPlace,
            WriterTypes, Pools
  <1>2. ClientPlaces
    BY DEF Init, ClientPlaces, NoIdx
  <1>3. ChunksCut
    BY WriterAssumption, IdxNat DEF Init, ChunksCut
  <1>4. OutInRange /\ ReadInRange
    BY IdxNat DEF Init, OutInRange, ReadInRange, newPipePool
  <1> QED BY <1>1, <1>2, <1>3, <1>4 DEF TypeInv

LEMMA TypeInvariant == Spec => []TypeInv
  <1>1. TypeInv /\ [Next]_vars => TypeInv'
    BY TypeInvStep
  <1> QED BY <1>1, TypeInvInit, PTL DEF Spec

\* The variables of the asynchronous Writer keep their types: no index beyond
\* the data, no count below zero, whatever the interleaving of the client, the
\* workers, the monitors and the writer goroutine.
THEOREM TypeCorrect == Spec => []TypeOK
  <1>1. TypeInv => TypeOK
    BY DEF TypeInv
  <1> QED BY <1>1, TypeInvariant, PTL
-----------------------------------------------------------------------------
(***************************************************************************)
(* What the steps that change a pool do to it.                             *)
(***************************************************************************)
\* The pool differs at most in the pipes it lists as free.
SamePool(q, pp) ==
    /\ SameControl(q, pp) /\ q.waitIdx = pp.waitIdx /\ q.len = pp.len
    /\ q.ready = pp.ready /\ q.active = pp.active /\ q.shut = pp.shut

LEMMA PoolsTyped ==
    ASSUME TypeInv
    PROVE  /\ inPool \in Pools(Idx) /\ outPool \in Pools(Nat)
           /\ \A w \in Workers : wkIdx[w] \in Idx /\ wkIdx[w] \in Nat
           /\ index \in Nat /\ idx \in Nat
  BY IdxNat
  DEF TypeInv, TypeOK, ClientTypes, SharedTypes, WorkerTypes, WriterTypes,
      Pools

LEMMA PoolUnchanged ==
    /\ UNCHANGED inPool => SamePool(inPool', inPool)
    /\ UNCHANGED outPool => SamePool(outPool', outPool)
  BY DEF SamePool, SameControl

LEMMA WriteGetsPipeEffect ==
    ASSUME TypeInv, WriteGetsPipe, ~inPool.closed
    PROVE  /\ idx \in Idx /\ idx' = idx + 1 /\ pipe = NoIdx /\ pipe' = idx
           /\ cl = "loop"
           /\ SameControl(inPool', inPool)
           /\ inPool'.waitIdx = inPool.waitIdx
           /\ inPool'.ready = inPool.ready \cup {idx}
           /\ inPool'.active = inPool.active /\ inPool'.shut = inPool.shut
           /\ inPool'.len = IF inPool.free = {} THEN inPool.len + 1
                            ELSE inPool.len
  <1>1. /\ inPool' \in GetWriter(inPool, idx) /\ idx' = idx + 1 /\ pipe' = idx
        /\ cl = "loop" /\ pipe = NoIdx
    BY DEF WriteGetsPipe
  <1>2. idx \in Idx
    BY <1>1, NextInRange
  <1> QED BY <1>1, <1>2, PoolsTyped, GetWriterFields

LEMMA WriteShutsEffect ==
    ASSUME TypeInv, WriteShuts
    PROVE  /\ pipe \in Idx /\ idx = pipe + 1
           /\ SameControl(inPool', inPool)
           /\ inPool'.waitIdx = inPool.waitIdx /\ inPool'.len = inPool.len
           /\ inPool'.ready = inPool.ready /\ inPool'.active = inPool.active
           /\ inPool'.shut = inPool.shut \cup {pipe}
  <1>1. pipe \in Idx /\ idx = pipe + 1
    BY DEF WriteShuts, TypeInv, TypeOK, ClientTypes, ClientPlaces
  <1> QED BY <1>1, PoolsTyped, ClosePipeFields DEF WriteShuts

LEMMA CloseStartsEffect ==
    ASSUME TypeInv, CloseStarts
    PROVE  /\ pipe # NoIdx => pipe \in Idx /\ idx = pipe + 1
           /\ SameControl(inPool', inPool)
           /\ inPool'.waitIdx = inPool.waitIdx /\ inPool'.len = inPool.len
           /\ inPool'.ready = inPool.ready /\ inPool'.active = inPool.active
           /\ inPool'.shut = IF pipe = NoIdx THEN inPool.shut
                             ELSE inPool.shut \cup {pipe}
  <1>1. pipe # NoIdx => pipe \in Idx /\ idx = pipe + 1
    BY DEF TypeInv, TypeOK, ClientTypes, ClientPlaces
  <1>2. CASE pipe = NoIdx
    <2>1. UNCHANGED inPool
      BY <1>2 DEF CloseStarts
    <2> QED BY <1>2, <2>1, PoolUnchanged DEF SamePool
  <1>3. CASE pipe # NoIdx
    BY <1>1, <1>3, PoolsTyped, ClosePipeFields DEF CloseStarts
  <1> QED BY <1>2, <1>3

LEMMA CloseEndsInputEffect ==
    ASSUME TypeInv, CloseEndsInput
    PROVE  /\ inPool'.closed /\ inPool'.dead = inPool.dead
           /\ inPool'.waitIdx = inPool.waitIdx /\ inPool'.len = inPool.len
           /\ inPool'.ready = inPool.ready /\ inPool'.active = inPool.active
           /\ inPool'.shut = inPool.shut
  BY PoolsTyped, CloseFields DEF CloseEndsInput

LEMMA SizesEffect ==
    ASSUME TypeInv, monitorSizesIn \/ monitorSizesOut
    PROVE  /\ \A pp \in {inPool, outPool} : pp.cap <= NumWorkers
           /\ inPool'.closed = inPool.closed /\ inPool'.dead = inPool.dead
           /\ inPool'.waitIdx = inPool.waitIdx /\ inPool'.len = inPool.len
           /\ inPool'.ready = inPool.ready /\ inPool'.active = inPool.active
           /\ inPool'.shut = inPool.shut
           /\ outPool'.closed = outPool.closed /\ outPool'.dead = outPool.dead
           /\ outPool'.waitIdx = outPool.waitIdx /\ outPool'.len = outPool.len
           /\ outPool'.ready = outPool.ready
           /\ outPool'.active = outPool.active /\ outPool'.shut = outPool.shut
  <1>1. 1 \in 0 .. NumWorkers /\ NumWorkers \in 0 .. NumWorkers
    BY NumWorkersNat
  <1>2. \A pp \in {inPool, outPool} : pp.cap <= NumWorkers
    BY PoolsTyped, NumWorkersNat DEF Pools, PoolType
  <1>3. CASE monitorSizesIn
    <2>1. UNCHANGED outPool
      BY <1>3 DEF monitorSizesIn
    <2>2. PICK c \in 0 .. NumWorkers : inPool' = SetCapacity(inPool, c)
      BY <1>1, <1>3 DEF monitorSizesIn
    <2> QED BY <1>2, <2>1, <2>2, PoolsTyped, SetCapacityFields
  <1>4. CASE monitorSizesOut
    <2>1. UNCHANGED inPool
      BY <1>4 DEF monitorSizesOut
    <2>2. PICK c \in 0 .. NumWorkers : outPool' = SetCapacity(outPool, c)
      BY <1>1, <1>4 DEF monitorSizesOut
    <2> QED BY <1>2, <2>1, <2>2, PoolsTyped, SetCapacityFields
  <1> QED BY <1>3, <1>4

LEMMA EndsOutEffect ==
    ASSUME TypeInv, monitorEndsOut
    PROVE  /\ outPool'.closed /\ outPool'.dead
           /\ outPool'.waitIdx = outPool.waitIdx /\ outPool'.len = outPool.len
           /\ outPool'.ready = {} /\ outPool'.active = outPool.active
           /\ outPool'.shut = outPool.shut \cup outPool.ready \cup outPool.active
  BY PoolsTyped, TerminateFields DEF monitorEndsOut

LEMMA EndsInEffect ==
    ASSUME TypeInv, monitorEndsIn
    PROVE  /\ inPool'.closed /\ inPool'.dead
           /\ inPool'.waitIdx = inPool.waitIdx /\ inPool'.len = inPool.len
           /\ inPool'.ready = {} /\ inPool'.active = inPool.active
           /\ inPool'.shut = inPool.shut \cup inPool.ready \cup inPool.active
  BY PoolsTyped, TerminateFields DEF monitorEndsIn

LEMMA GroupEndsEffect ==
    ASSUME TypeInv, groupEnds
    PROVE  /\ outPool'.closed /\ outPool'.dead = outPool.dead
           /\ outPool'.waitIdx = outPool.waitIdx /\ outPool'.len = outPool.len
           /\ outPool'.ready = outPool.ready
           /\ outPool'.active = outPool.active /\ outPool'.shut = outPool.shut
  BY PoolsTyped, CloseFields DEF groupEnds

LEMMA WorkerGetsEffect ==
    ASSUME TypeInv, NEW w \in Workers, workerGets(w)
    PROVE  /\ wkIdx'[w] \in Idx /\ wkIdx'[w] \in inPool.ready
           /\ \A v \in Workers : v # w => wkIdx'[v] = wkIdx[v]
           /\ wk[w] = "get" /\ wk'[w] = "out"
           /\ \A v \in Workers : v # w => wk'[v] = wk[v]
           /\ SameControl(inPool', inPool)
           /\ inPool'.waitIdx = inPool.waitIdx /\ inPool'.len = inPool.len
           /\ inPool'.ready = inPool.ready \ {wkIdx'[w]}
           /\ inPool'.active = inPool.active \cup {wkIdx'[w]}
           /\ inPool'.shut = inPool.shut
  <1>1. PICK i \in Readable(inPool, NoIdx) :
          /\ inPool' = GetReader(inPool, NoIdx, i)
          /\ wkIdx' = [wkIdx EXCEPT ![w] = i]
    BY DEF workerGets
  <1>2. wkIdx'[w] = i /\ \A v \in Workers : v # w => wkIdx'[v] = wkIdx[v]
    BY <1>1 DEF TypeInv, TypeOK, WorkerTypes
  <1>3. /\ wk[w] = "get" /\ wk'[w] = "out"
        /\ \A v \in Workers : v # w => wk'[v] = wk[v]
    BY WorkerMoves DEF workerGets, WorkerPlace
  <1> QED BY <1>1, <1>2, <1>3, PoolsTyped, GetReaderFields

LEMMA WorkerGetsOutputEffect ==
    ASSUME TypeInv, NEW w \in Workers, workerGetsOutput(w)
    PROVE  /\ ~outPool.closed /\ ~WriterBlocked(outPool, wkIdx[w])
           /\ wk[w] = "out" /\ wk'[w] = "run"
           /\ \A v \in Workers : v # w => wk'[v] = wk[v]
           /\ SameControl(outPool', outPool)
           /\ outPool'.waitIdx = outPool.waitIdx
           /\ outPool'.ready = outPool.ready \cup {wkIdx[w]}
           /\ outPool'.active = outPool.active /\ outPool'.shut = outPool.shut
           /\ outPool'.len = IF outPool.free = {} THEN outPool.len + 1
                             ELSE outPool.len
  <1>1. /\ ~outPool.closed /\ ~WriterBlocked(outPool, wkIdx[w])
        /\ outPool' \in GetWriter(outPool, wkIdx[w])
    BY DEF workerGetsOutput
  <1>2. /\ wk[w] = "out" /\ wk'[w] = "run"
        /\ \A v \in Workers : v # w => wk'[v] = wk[v]
    BY WorkerMoves DEF workerGetsOutput, WorkerPlace
  <1> QED BY <1>1, <1>2, PoolsTyped, GetWriterFields

LEMMA WorkerSealsEffect ==
    ASSUME TypeInv, NEW w \in Workers, workerSeals(w)
    PROVE  /\ wk[w] = "seal" /\ wk'[w] = "restore"
           /\ \A v \in Workers : v # w => wk'[v] = wk[v]
           /\ SameControl(outPool', outPool)
           /\ outPool'.waitIdx = outPool.waitIdx /\ outPool'.len = outPool.len
           /\ outPool'.ready = outPool.ready /\ outPool'.active = outPool.active
           /\ outPool'.shut = outPool.shut \cup {wkIdx[w]}
  <1>1. /\ wk[w] = "seal" /\ wk'[w] = "restore"
        /\ \A v \in Workers : v # w => wk'[v] = wk[v]
    BY WorkerMoves DEF workerSeals, WorkerPlace
  <1> QED BY <1>1, PoolsTyped, ClosePipeFields DEF workerSeals

LEMMA WorkerRestoresEffect ==
    ASSUME TypeInv, NEW w \in Workers, workerRestores(w)
    PROVE  /\ wk[w] = "restore" /\ wk'[w] = "select"
           /\ \A v \in Workers : v # w => wk'[v] = wk[v]
           /\ SameControl(inPool', inPool)
           /\ inPool'.waitIdx = inPool.waitIdx /\ inPool'.len <= inPool.len
           /\ inPool'.ready = inPool.ready
           /\ inPool'.active = inPool.active \ {wkIdx[w]}
           /\ inPool'.shut = inPool.shut \cup {wkIdx[w]}
  <1>1. /\ wk[w] = "restore" /\ wk'[w] = "select"
        /\ \A v \in Workers : v # w => wk'[v] = wk[v]
    BY WorkerMoves DEF workerRestores, WorkerPlace
  <1>2. /\ SameControl(inPool', inPool)
        /\ inPool'.waitIdx = inPool.waitIdx
        /\ inPool'.ready = inPool.ready
        /\ inPool'.active = inPool.active \ {wkIdx[w]}
        /\ inPool'.shut = inPool.shut \cup {wkIdx[w]}
        /\ inPool'.len = IF inPool.cap >= inPool.len THEN inPool.len
                         ELSE inPool.len - 1
    BY PoolsTyped, RestoreFields DEF workerRestores
  <1>3. inPool.len \in Nat
    BY PoolsTyped DEF Pools, PoolType
  <1> QED BY <1>1, <1>2, <1>3

\* A step of a worker that changes no pool moves it from one place to another.
Stays(w) ==
    \/ workerEnds(w) \/ workerRefused(w) \/ encodeRuns(w) \/ encodeMeetsEOF(w)
    \/ encodeOverflows(w) \/ encodeFinishes(w) \/ finishOverflows(w)
    \/ encodeLiteral(w) \/ encodeFails(w) \/ workerSelects(w)

LEMMA WorkerStaysEffect ==
    ASSUME TypeInv, NEW w \in Workers, Stays(w)
    PROVE  /\ UNCHANGED <<inPool, outPool, wkIdx>>
           /\ \A v \in Workers : v # w => wk'[v] = wk[v]
           /\ \/ wk[w] = "get" /\ wk'[w] = "exit"
              \/ wk[w] = "out" /\ wk'[w] = "restore"
              \/ wk[w] \in {"run", "finish", "literal"}
                   /\ wk'[w] \in {"run", "finish", "literal", "seal"}
              \/ wk[w] = "select" /\ wk'[w] \in {"get", "exit"}
  <1>1. UNCHANGED <<inPool, outPool, wkIdx>>
    BY DEF Stays, workerEnds, workerRefused, encodeRuns, encodeMeetsEOF,
           encodeOverflows, encodeFinishes, finishOverflows, encodeLiteral,
           encodeFails, workerSelects
  <1>2. \E from, to \in WorkerPlace :
          /\ WorkerAt(w, from, to)
          /\ \/ from = "get" /\ to = "exit"
             \/ from = "out" /\ to = "restore"
             \/ from \in {"run", "finish", "literal"}
                  /\ to \in {"run", "finish", "literal", "seal"}
             \/ from = "select" /\ to \in {"get", "exit"}
    BY DEF Stays, workerEnds, workerRefused, encodeRuns, encodeMeetsEOF,
           encodeOverflows, encodeFinishes, finishOverflows, encodeLiteral,
           encodeFails, workerSelects, WorkerPlace
  <1> QED BY <1>1, <1>2, WorkerMoves

\* Only its place, its index and the pools tell what a worker owns.
LEMMA WorkSteps ==
    ASSUME NEW w \in Workers, Work(w)
    PROVE  \/ workerGets(w) \/ workerGetsOutput(w) \/ workerSeals(w)
           \/ workerRestores(w) \/ Stays(w)
  BY DEF Work, Stays

\* What no step of a worker touches.
LEMMA WorkFrame ==
    ASSUME NEW w \in Workers, Work(w)
    PROVE  /\ UNCHANGED <<client, mon, wg, writer, trailer, errChan, doneChan,
                          killed, chunk>>
           /\ ~workerGets(w) => UNCHANGED wkIdx
           /\ ~workerGets(w) /\ ~workerRestores(w) => UNCHANGED inPool
           /\ ~workerGetsOutput(w) /\ ~workerSeals(w) => UNCHANGED outPool
  BY DEF Work, WorkerAt, workerGets, workerEnds, workerGetsOutput,
         workerRefused, encodeRuns, encodeMeetsEOF, encodeOverflows,
         encodeFinishes, finishOverflows, encodeLiteral, encodeFails,
         workerSeals, workerRestores, workerSelects

LEMMA WriterAnnouncesEffect ==
    ASSUME TypeInv, writerAnnounces
    PROVE  /\ wt = "ask" /\ wt' = "await" /\ index' = index
           /\ SameControl(outPool', outPool)
           /\ outPool'.waitIdx = index /\ outPool'.len = outPool.len
           /\ outPool'.ready = outPool.ready /\ outPool'.active = outPool.active
           /\ outPool'.shut = outPool.shut
  BY PoolsTyped, AnnounceFields DEF writerAnnounces, WriterAt

LEMMA WriterGetsEffect ==
    ASSUME TypeInv, writerGets
    PROVE  /\ index \in outPool.ready
           /\ wt = "await" /\ wt' = "copy" /\ index' = index + 1
           /\ Held' = index
           /\ SameControl(outPool', outPool)
           /\ outPool'.waitIdx = NoIdx /\ outPool'.len = outPool.len
           /\ outPool'.ready = outPool.ready \ {index}
           /\ outPool'.active = outPool.active \cup {index}
           /\ outPool'.shut = outPool.shut
  <1>1. PICK i \in Readable(outPool, index) :
          outPool' = GetReader(outPool, index, i)
    BY DEF writerGets
  <1>2. wt = "await" /\ wt' = "copy" /\ index' = index + 1
    BY DEF writerGets, WriterAt
  <1>3. index \in Nat /\ index # NoIdx
    BY PoolsTyped DEF NoIdx
  <1>4. Held' = index
    BY <1>2, <1>3 DEF Held
  <1> QED BY <1>1, <1>2, <1>3, <1>4, PoolsTyped, GetReaderFields

LEMMA WriterEndsEffect ==
    ASSUME TypeInv, writerEnds
    PROVE  /\ outPool.closed /\ index \notin outPool.ready
           /\ wt = "await" /\ wt' = "sanity" /\ index' = index + 1
           /\ SameControl(outPool', outPool)
           /\ outPool'.waitIdx = NoIdx /\ outPool'.len = outPool.len
           /\ outPool'.ready = outPool.ready /\ outPool'.active = outPool.active
           /\ outPool'.shut = outPool.shut
  <1>1. index \in Nat /\ index # NoIdx
    BY PoolsTyped DEF NoIdx
  <1>2. outPool.closed /\ index \notin outPool.ready
    BY <1>1 DEF writerEnds, Readable
  <1> QED BY <1>1, <1>2, PoolsTyped, GetReaderNilFields
          DEF writerEnds, WriterAt

LEMMA WriterRestoresEffect ==
    ASSUME TypeInv, writerRestores
    PROVE  /\ wt = "return" /\ wt' \in {"ask", "report"} /\ index' = index
           /\ wt' = "report" <=> wtErr = "err"
           /\ Held \in Idx
           /\ SameControl(outPool', outPool)
           /\ outPool'.waitIdx = outPool.waitIdx
           /\ outPool'.ready = outPool.ready
           /\ outPool'.active = outPool.active \ {Held}
           /\ outPool'.shut = outPool.shut \cup {Held}
           /\ outPool'.len = IF outPool.cap >= outPool.len THEN outPool.len
                             ELSE outPool.len - 1
  <1>1. wt = "return" /\ wt' \in {"ask", "report"} /\ index' = index
    BY DEF writerRestores, WriterAt
  <1>2. wt' = "report" <=> wtErr = "err"
    BY DEF writerRestores
  <1>3. Held \in Idx /\ Held \in Nat
    BY <1>1, IdxNat DEF TypeInv, OutInRange
  <1> QED BY <1>1, <1>2, <1>3, PoolsTyped, RestoreFields DEF writerRestores

LEMMA WriterAssertsEffect ==
    ASSUME TypeInv, writerAsserts
    PROVE  /\ wt = "sanity" /\ wt' = "report" /\ index' = index
           /\ SameControl(outPool', outPool)
           /\ outPool'.waitIdx = outPool.waitIdx /\ outPool'.len = outPool.len
           /\ outPool'.ready \subseteq outPool.ready
           /\ outPool'.active \subseteq outPool.active \cup outPool.ready
           /\ outPool'.shut = outPool.shut
           /\ outPool.ready = {} => UNCHANGED <<outPool, wtErr>>
  <1>1. wt = "sanity" /\ wt' = "report" /\ index' = index
    BY DEF writerAsserts, WriterAt
  <1>2. Readable(outPool, NoIdx) = outPool.ready
    BY DEF Readable
  <1>3. CASE outPool.ready = {}
    <2>1. UNCHANGED <<outPool, wtErr>>
      BY <1>2, <1>3 DEF writerAsserts
    <2> QED BY <1>1, <2>1, PoolUnchanged DEF SamePool
  <1>4. CASE outPool.ready # {}
    <2>1. PICK i \in Readable(outPool, NoIdx) :
            outPool' = GetReader(outPool, NoIdx, i)
      BY <1>2, <1>4 DEF writerAsserts
    <2> QED BY <1>1, <1>4, <2>1, PoolsTyped, GetReaderFields
  <1> QED BY <1>3, <1>4

\* The steps of the writer goroutine that leave the pool alone.
LEMMA WriterQuietEffect ==
    ASSUME TypeInv, writerCopies \/ writerReports \/ writerTerminates
    PROVE  /\ UNCHANGED <<outPool, index>>
           /\ \/ wt = "copy" /\ wt' = "return" /\ Held \in outPool.shut
              \/ wt = "report" /\ wt' = "done"
              \/ wt = "done" /\ wt' = "exit"
  BY DEF writerCopies, writerReports, writerTerminates, WriterAt

\* What no step of the writer goroutine touches.
LEMMA WriterFrame ==
    ASSUME writerSteps
    PROVE  /\ UNCHANGED <<client, inPool, mon, worker, wg, trailer, chunk,
                          block, killed>>
           /\ ~writerTerminates => UNCHANGED doneChan
           /\ writerTerminates => doneChan'
           /\ ~writerReports => UNCHANGED errChan
  BY DEF writerSteps, WriterAt, writerAnnounces, writerGets, writerEnds,
         writerCopies, writerRestores, writerAsserts, writerReports,
         writerTerminates, Terminated
-----------------------------------------------------------------------------
(***************************************************************************)
(* The phases of the shutdown.                                             *)
(***************************************************************************)
\* The writer goroutine closes doneChan as its last step, the monitor kills
\* the workers only after that, and the workerPool's monitor routine starts
\* with the first worker.
ChannelPhases ==
    /\ doneChan <=> wt = "exit"
    /\ killed <=> mon \in {"endOut", "endIn", "exit"}
    /\ killed => doneChan
    /\ wg = "off" <=> mon \in {"in1", "out1", "work1"}

\* The input pool is closed by Close, or terminated by the monitor.
InPhases ==
    /\ inPool.dead <=> mon = "exit"
    /\ inPool.closed <=> inPool.dead \/ (closed /\ cl # "end")
    /\ inPool.dead => inPool.ready = {}

\* The output pool is closed by the end callback, or terminated.
OutPhases ==
    /\ outPool.dead <=> mon \in {"endIn", "exit"}
    /\ outPool.closed => outPool.dead \/ wg = "exit"
    /\ outPool.dead => outPool.closed /\ outPool.ready = {}

Phases == ChannelPhases /\ InPhases /\ OutPhases

\* What the calls leave alone.
LEMMA CallsFrame ==
    ASSUME Calls
    PROVE  UNCHANGED <<outPool, block, doneChan, killed, mon, worker, wg, writer>>
  BY DEF Calls, Client, Write, CloseStarts, WriteGetsPipe, WriteFills,
         WriteShuts, WriteFails, CloseEndsInput, CloseJoins,
         CloseWritesTrailer, shared

\* What the monitors leave alone.
LEMMA MonitorFrame ==
    ASSUME monitor \/ groupWait \/ groupEnds
    PROVE  UNCHANGED <<client, chunk, block, errChan, doneChan, wkIdx, wkRead,
                       wkErr, writer, trailer>>
  BY DEF monitor, monitorSizesIn, monitorSizesOut, monitorSpawns, monitorKills,
         monitorEndsOut, monitorEndsIn, groupWait, groupEnds, shared, worker

LEMMA PhasesCalls ==
    ASSUME TypeInv, Phases, Calls
    PROVE  Phases'
  <1>1. ChannelPhases' /\ OutPhases'
    BY CallsFrame DEF Phases, ChannelPhases, OutPhases, writer
  <1>2. UNCHANGED mon
    BY CallsFrame
  <1>3. InPhases'
    <2>1. ASSUME NEW n \in 1 .. MaxWrite, Write(n) PROVE InPhases'
      BY <1>2, <2>1 DEF Phases, InPhases, Write
    <2>2. CASE CloseStarts
      BY <1>2, <2>2, CloseStartsEffect
      DEF Phases, InPhases, CloseStarts, SameControl
    <2>3. CASE WriteGetsPipe
      <3>1. CASE inPool.closed
        BY <1>2, <2>3, <3>1 DEF Phases, InPhases, WriteGetsPipe, TypeInv,
                                ClientPlaces
      <3>2. CASE ~inPool.closed
        BY <1>2, <2>3, <3>2, WriteGetsPipeEffect
        DEF Phases, InPhases, WriteGetsPipe, SameControl
      <3> QED BY <3>1, <3>2
    <2>4. CASE WriteFills
      <3>1. cl = "loop" /\ cl' # "end" /\ UNCHANGED <<inPool, closed>>
        BY <2>4 DEF WriteFills
      <3> QED BY <1>2, <3>1 DEF Phases, InPhases
    <2>5. CASE WriteShuts
      BY <1>2, <2>5, WriteShutsEffect
      DEF Phases, InPhases, WriteShuts, SameControl
    <2>6. CASE WriteFails
      BY <1>2, <2>6 DEF Phases, InPhases, WriteFails
    <2>7. CASE CloseEndsInput
      BY <1>2, <2>7, CloseEndsInputEffect
      DEF Phases, InPhases, CloseEndsInput, TypeInv, ClientPlaces
    <2>8. CASE CloseJoins
      BY <1>2, <2>8 DEF Phases, InPhases, CloseJoins
    <2>9. CASE CloseWritesTrailer
      BY <1>2, <2>9 DEF Phases, InPhases, CloseWritesTrailer
    <2> QED BY <2>1, <2>2, <2>3, <2>4, <2>5, <2>6, <2>7, <2>8, <2>9
            DEF Calls, Client
  <1> QED BY <1>1, <1>3 DEF Phases

LEMMA PhasesMonitor ==
    ASSUME TypeInv, Phases, monitor \/ groupWait \/ groupEnds
    PROVE  Phases'
  <1>0. UNCHANGED <<cl, closed, doneChan, wt>>
    BY MonitorFrame DEF client, writer
  <1>1. CASE monitorSizesIn \/ monitorSizesOut
    <2>1. UNCHANGED <<killed, wg>>
      BY <1>1 DEF monitorSizesIn, monitorSizesOut, shared
    <2>2. mon \in {"in1", "inN", "out1", "outN"}
      BY <1>1 DEF monitorSizesIn, monitorSizesOut
    <2>3. mon' = CASE mon = "in1" -> "out1" [] mon = "inN" -> "outN"
                   [] mon = "out1" -> "work1" [] mon = "outN" -> "workN"
      BY <1>1 DEF monitorSizesIn, monitorSizesOut
    <2> QED BY <1>0, <1>1, <2>1, <2>2, <2>3, SizesEffect
            DEF Phases, ChannelPhases, InPhases, OutPhases
  <1>2. CASE monitorSpawns
    <2>1. /\ UNCHANGED <<inPool, outPool, killed>>
          /\ \/ mon = "work1" /\ mon' = "inN" /\ wg' = "wait"
             \/ mon = "workN" /\ mon' = mon /\ wg' = wg
      BY <1>2 DEF monitorSpawns, shared
    <2>2. ChannelPhases' /\ InPhases'
      BY <1>0, <2>1 DEF Phases, ChannelPhases, InPhases
    <2>3. OutPhases'
      BY <1>0, <2>1 DEF Phases, ChannelPhases, OutPhases
    <2> QED BY <2>2, <2>3 DEF Phases
  <1>3. CASE monitorKills
    BY <1>0, <1>3
    DEF monitorKills, Phases, ChannelPhases, InPhases, OutPhases
  <1>4. CASE monitorEndsOut
    <2>1. UNCHANGED <<inPool, killed, wg>> /\ mon = "endOut" /\ mon' = "endIn"
      BY <1>4 DEF monitorEndsOut, shared
    <2> QED BY <1>0, <1>4, <2>1, EndsOutEffect
            DEF Phases, ChannelPhases, InPhases, OutPhases
  <1>5. CASE monitorEndsIn
    <2>1. UNCHANGED <<outPool, killed, wg>> /\ mon = "endIn" /\ mon' = "exit"
      BY <1>5 DEF monitorEndsIn, shared
    <2> QED BY <1>0, <1>5, <2>1, EndsInEffect
            DEF Phases, ChannelPhases, InPhases, OutPhases
  <1>6. CASE groupWait
    <2>1. /\ UNCHANGED <<inPool, outPool, killed, mon>>
          /\ wg = "wait" /\ wg' = "end"
      BY <1>6 DEF groupWait, shared
    <2> QED BY <1>0, <2>1 DEF Phases, ChannelPhases, InPhases, OutPhases
  <1>7. CASE groupEnds
    <2>1. UNCHANGED <<inPool, killed, mon>> /\ wg = "end" /\ wg' = "exit"
      BY <1>7 DEF groupEnds, shared
    <2> QED BY <1>0, <1>7, <2>1, GroupEndsEffect
            DEF Phases, ChannelPhases, InPhases, OutPhases
  <1> QED BY <1>1, <1>2, <1>3, <1>4, <1>5, <1>6, <1>7 DEF monitor

LEMMA PhasesWorker ==
    ASSUME TypeInv, Phases, NEW w \in Workers, Work(w)
    PROVE  Phases'
  <1>1. UNCHANGED <<cl, closed, doneChan, killed, mon, wg, wt>>
    BY WorkFrame DEF client, writer
  <1>2. ChannelPhases'
    BY <1>1 DEF Phases, ChannelPhases
  <1>3. InPhases'
    <2>1. /\ inPool'.closed = inPool.closed /\ inPool'.dead = inPool.dead
          /\ inPool'.ready \subseteq inPool.ready
      BY WorkSteps, WorkerGetsEffect, WorkerRestoresEffect, WorkFrame
      DEF SameControl
    <2> QED BY <1>1, <2>1 DEF Phases, InPhases
  <1>4. OutPhases'
    <2>1. /\ outPool'.closed = outPool.closed /\ outPool'.dead = outPool.dead
          /\ outPool.dead => outPool'.ready = outPool.ready
      BY WorkSteps, WorkerGetsOutputEffect, WorkerSealsEffect, WorkFrame
      DEF SameControl, Phases, OutPhases
    <2> QED BY <1>1, <2>1 DEF Phases, OutPhases
  <1> QED BY <1>2, <1>3, <1>4 DEF Phases

LEMMA PhasesWriter ==
    ASSUME TypeInv, Phases, writerSteps
    PROVE  Phases'
  <1>1. UNCHANGED <<cl, closed, killed, mon, wg, inPool>>
    BY WriterFrame DEF client
  <1>2. /\ outPool'.closed = outPool.closed /\ outPool'.dead = outPool.dead
        /\ outPool'.ready \subseteq outPool.ready
        /\ wt' = "exit" <=> wt = "exit" \/ writerTerminates
    BY WriterAnnouncesEffect, WriterGetsEffect, WriterEndsEffect,
       WriterRestoresEffect, WriterAssertsEffect, WriterQuietEffect
    DEF writerSteps, SameControl, writerTerminates, writerCopies, writerReports
  <1>3. doneChan' <=> doneChan \/ writerTerminates
    BY WriterFrame
  <1> QED BY <1>1, <1>2, <1>3
          DEF Phases, ChannelPhases, InPhases, OutPhases

LEMMA PhasesStep ==
    ASSUME TypeInv, Phases, [Next]_vars
    PROVE  Phases'
  <1>1. CASE UNCHANGED vars
    BY <1>1 DEF Phases, ChannelPhases, InPhases, OutPhases, vars, client,
                shared, writer
  <1> QED BY <1>1, Steps, PhasesCalls, PhasesMonitor, PhasesWorker, PhasesWriter
-----------------------------------------------------------------------------
(***************************************************************************)
(* Who owns which buffer.                                                  *)
(***************************************************************************)
\* An input pipe is handed to one worker at a time, and stays active until
\* that worker restores it.
InOwned ==
    /\ inPool.waitIdx = NoIdx
    /\ \A i \in inPool.ready \cup inPool.active \cup inPool.shut : i < idx
    /\ inPool.ready \cap inPool.active = {}
    /\ \A w \in Workers : Using(w) => wkIdx[w] \in inPool.active
    /\ \A v, w \in Workers :
         Using(v) /\ Using(w) /\ wkIdx[v] = wkIdx[w] => v = w

\* Chunk i has not yet asked for an output pipe: it is still to come, waits
\* in the input pool, or its worker is about to ask.
Fresh(i) ==
    \/ i >= idx
    \/ i \in inPool.ready
    \/ \E w \in Workers : wk[w] = "out" /\ wkIdx[w] = i

\* The writer goroutine is still after blocks.
Serving == wt \in {"ask", "await", "copy", "return"}

Filling(w) == wk[w] \in {"run", "finish", "literal", "seal"}

\* An output pipe is asked for once per chunk, is closed by the worker that
\* fills it, and is taken by the writer goroutine in the order of the chunks.
FreshUnseen ==
    \A i \in Nat : Fresh(i) =>
      /\ i \notin outPool.ready /\ i \notin outPool.active
      /\ i \notin outPool.shut
      /\ Serving => i >= index

OutOwned ==
    /\ Serving => \A i \in outPool.ready : i >= index
    /\ wt \in {"copy", "return"} => Held \in outPool.active
    /\ wt = "return" => Held \in outPool.shut
    /\ \A w \in Workers : Filling(w) /\ ~outPool.dead =>
         wkIdx[w] \notin outPool.shut

\* The index the writer goroutine waits for is announced as long as it waits.
Announcing == outPool.waitIdx = IF wt = "await" THEN index ELSE NoIdx

OwnInv ==
    /\ TypeInv /\ Phases /\ InOwned /\ FreshUnseen /\ OutOwned /\ Announcing

\* What the calls do to the input pool: at most one pipe is added, under the
\* next index, and a pipe of the client may be closed.
LEMMA CallsEffect ==
    ASSUME TypeInv, Calls
    PROVE  /\ inPool'.waitIdx = inPool.waitIdx
           /\ inPool'.active = inPool.active
           /\ \/ idx' = idx /\ inPool'.ready = inPool.ready
              \/ idx' = idx + 1 /\ inPool'.ready = inPool.ready \cup {idx}
           /\ \A i \in inPool'.shut :
                i \in inPool.shut \/ (i \in Nat /\ i < idx)
  <1>0. TypeInv /\ idx \in Nat /\ Idx \subseteq Nat
    BY PoolsTyped, IdxNat
  <1>1. CASE WriteGetsPipe /\ ~inPool.closed
    BY <1>0, <1>1, WriteGetsPipeEffect
  <1>2. CASE WriteShuts
    <2>1. UNCHANGED idx
      BY <1>2 DEF WriteShuts
    <2>2. pipe \in Nat /\ pipe < idx
      <3>1. pipe \in Idx /\ idx = pipe + 1
        BY <1>0, <1>2, WriteShutsEffect
      <3> QED BY <1>0, <3>1
    <2> QED BY <1>0, <1>2, <2>1, <2>2, WriteShutsEffect
  <1>3. CASE CloseStarts
    <2>1. UNCHANGED idx
      BY <1>3 DEF CloseStarts
    <2>2. ASSUME pipe # NoIdx PROVE pipe \in Nat /\ pipe < idx
      <3>1. pipe \in Idx /\ idx = pipe + 1
        BY <1>0, <1>3, <2>2, CloseStartsEffect
      <3> QED BY <1>0, <3>1
    <2> QED BY <1>0, <1>3, <2>1, <2>2, CloseStartsEffect
  <1>4. CASE CloseEndsInput
    <2>1. UNCHANGED idx BY <1>4 DEF CloseEndsInput
    <2> QED BY <1>0, <1>4, <2>1, CloseEndsInputEffect
  <1>5. CASE UNCHANGED <<inPool, idx>>
    BY <1>5
  <1> QED BY <1>1, <1>2, <1>3, <1>4, <1>5
          DEF Calls, Client, Write, WriteGetsPipe, WriteFills, WriteFails,
              CloseJoins, CloseWritesTrailer

\* The client makes an input pipe fresh under its own index only.
LEMMA OwnCalls ==
    ASSUME OwnInv, Calls
    PROVE  InOwned' /\ FreshUnseen' /\ OutOwned' /\ Announcing'
  <1>0. /\ UNCHANGED <<outPool, wk, wkIdx, wt, index>>
        /\ TypeInv /\ idx \in Nat /\ Idx \subseteq Nat
    BY CallsFrame, PoolsTyped, IdxNat DEF OwnInv, worker, writer
  <1>1. OutOwned' /\ Announcing'
    BY <1>0 DEF OwnInv, OutOwned, Announcing, Serving, Held, Filling
  <1>2. /\ inPool'.waitIdx = inPool.waitIdx
        /\ inPool'.active = inPool.active
        /\ \/ idx' = idx /\ inPool'.ready = inPool.ready
           \/ idx' = idx + 1 /\ inPool'.ready = inPool.ready \cup {idx}
        /\ \A i \in inPool'.shut : i \in inPool.shut \/ (i \in Nat /\ i < idx)
    BY <1>0, CallsEffect
  <1>3. InOwned'
    <2>1. idx \notin inPool.active
      BY <1>0 DEF OwnInv, InOwned
    <2>2. \A i \in inPool.ready \cup inPool.active \cup inPool.shut : i \in Nat
      BY <1>0, PoolsTyped DEF Pools, PoolType
    <2>3. idx < idx + 1 /\ \A i \in Nat : i < idx => i < idx + 1
      BY <1>0
    <2>4. \A w \in Workers : Using(w)' <=> Using(w)
      BY <1>0 DEF Using
    <2>5. inPool'.ready \cap inPool'.active = {}
      BY <1>2, <2>1 DEF OwnInv, InOwned
    <2>6. ASSUME NEW i \in inPool'.ready \cup inPool'.active \cup inPool'.shut
          PROVE  i < idx'
      <3>1. i < idx \/ (i = idx /\ idx' = idx + 1)
        BY <1>2 DEF OwnInv, InOwned
      <3>2. idx' = idx \/ idx' = idx + 1
        BY <1>2
      <3>3. i \in Nat
        BY <1>0, <1>2, <2>2
      <3> QED BY <1>0, <3>1, <3>2, <3>3
    <2> QED BY <1>0, <1>2, <2>4, <2>5, <2>6 DEF OwnInv, InOwned
  <1>4. FreshUnseen'
    <2>1. ASSUME NEW i \in Nat, Fresh(i)' PROVE Fresh(i)
      <3>1. i >= idx' => i >= idx
        BY <1>0, <1>2
      <3>2. i \in inPool'.ready => i \in inPool.ready \/ i >= idx
        BY <1>0, <1>2
      <3> QED BY <1>0, <2>1, <3>1, <3>2 DEF Fresh
    <2> QED BY <1>0, <2>1 DEF OwnInv, FreshUnseen, Serving
  <1> QED BY <1>1, <1>3, <1>4

\* What the monitors do to the pools: nothing but their end.
LEMMA MonitorEffect ==
    ASSUME TypeInv, monitor \/ groupWait \/ groupEnds
    PROVE  /\ inPool'.waitIdx = inPool.waitIdx
           /\ inPool'.active = inPool.active
           /\ inPool'.ready \subseteq inPool.ready
           /\ inPool'.shut
                \subseteq inPool.shut \cup inPool.ready \cup inPool.active
           /\ outPool'.waitIdx = outPool.waitIdx
           /\ outPool'.active = outPool.active
           /\ outPool'.ready \subseteq outPool.ready
           /\ outPool.shut \subseteq outPool'.shut
           /\ outPool'.shut
                \subseteq outPool.shut \cup outPool.ready \cup outPool.active
           /\ ~outPool'.dead => ~outPool.dead /\ outPool'.shut = outPool.shut
           /\ ~monitorEndsIn => /\ inPool'.ready = inPool.ready
                                /\ inPool'.shut = inPool.shut
           /\ ~monitorEndsOut => /\ outPool'.ready = outPool.ready
                                 /\ outPool'.shut = outPool.shut
  <1>1. CASE monitorSizesIn \/ monitorSizesOut
    BY <1>1, SizesEffect
  <1>2. CASE monitorEndsOut
    BY <1>2, EndsOutEffect DEF monitorEndsOut
  <1>3. CASE monitorEndsIn
    BY <1>3, EndsInEffect DEF monitorEndsIn
  <1>4. CASE groupEnds
    BY <1>4, GroupEndsEffect DEF groupEnds
  <1>5. CASE UNCHANGED <<inPool, outPool>>
    BY <1>5
  <1> QED BY <1>1, <1>2, <1>3, <1>4, <1>5
          DEF monitor, monitorSpawns, monitorKills, groupWait

LEMMA OwnMonitor ==
    ASSUME OwnInv, monitor \/ groupWait \/ groupEnds
    PROVE  InOwned' /\ FreshUnseen' /\ OutOwned' /\ Announcing'
  <1>0. /\ UNCHANGED <<idx, wkIdx, wt, index>>
        /\ TypeInv
    BY MonitorFrame DEF OwnInv, client, writer
  <1>1. \A w \in Workers :
          /\ wk'[w] = wk[w] \/ (wk[w] = "off" /\ wk'[w] = "get")
          /\ Using(w)' <=> Using(w)
          /\ Filling(w)' <=> Filling(w)
          /\ wk'[w] = "out" <=> wk[w] = "out"
    <2>1. ASSUME monitorSpawns, NEW w \in Workers
          PROVE  wk'[w] = wk[w] \/ (wk[w] = "off" /\ wk'[w] = "get")
      <3>1. PICK u \in Unborn : wk' = [wk EXCEPT ![u] = "get"]
        BY <2>1 DEF monitorSpawns
      <3>2. wk \in [Workers -> WorkerPlace] /\ wk[u] = "off" /\ u \in Workers
        BY <1>0 DEF Unborn, TypeInv, TypeOK, WorkerTypes
      <3> QED BY <3>1, <3>2
    <2>2. ~monitorSpawns => UNCHANGED wk
      BY DEF monitor, monitorSizesIn, monitorSizesOut, monitorKills,
             monitorEndsOut, monitorEndsIn, groupWait, groupEnds, worker
    <2>3. ASSUME NEW w \in Workers
          PROVE  wk'[w] = wk[w] \/ (wk[w] = "off" /\ wk'[w] = "get")
      BY <2>1, <2>2
    <2> QED BY <2>3 DEF Using, Filling
  <1>2. /\ inPool'.waitIdx = inPool.waitIdx
        /\ inPool'.active = inPool.active
        /\ inPool'.ready \subseteq inPool.ready
        /\ inPool'.shut \subseteq inPool.shut \cup inPool.ready \cup inPool.active
        /\ outPool'.waitIdx = outPool.waitIdx
        /\ outPool'.active = outPool.active
        /\ outPool'.ready \subseteq outPool.ready
        /\ outPool.shut \subseteq outPool'.shut
        /\ outPool'.shut
             \subseteq outPool.shut \cup outPool.ready \cup outPool.active
        /\ ~outPool'.dead => ~outPool.dead /\ outPool'.shut = outPool.shut
    BY <1>0, MonitorEffect
  <1>3. InOwned'
    BY <1>0, <1>1, <1>2 DEF OwnInv, InOwned
  <1>4. FreshUnseen'
    <2>1. ASSUME NEW i \in Nat, Fresh(i)' PROVE Fresh(i)
      BY <1>0, <1>1, <1>2, <2>1 DEF Fresh
    <2> QED BY <1>0, <1>2, <2>1 DEF OwnInv, FreshUnseen, Serving
  <1>5. OutOwned' /\ Announcing'
    BY <1>0, <1>1, <1>2 DEF OwnInv, OutOwned, Announcing, Serving, Held
  <1> QED BY <1>3, <1>4, <1>5

LEMMA OwnWorker ==
    ASSUME OwnInv, NEW w \in Workers, Work(w)
    PROVE  InOwned' /\ FreshUnseen' /\ OutOwned' /\ Announcing'
  <1>0. /\ UNCHANGED <<idx, wt, index>>
        /\ TypeInv
        /\ \A v \in Workers : wkIdx[v] \in Nat
    BY WorkFrame, PoolsTyped DEF OwnInv, client, writer
  <1>1. CASE workerGets(w)
    <2>1. UNCHANGED outPool
      BY <1>1 DEF workerGets
    <2> DEFINE i == wkIdx'[w]
    <2>2. /\ i \in inPool.ready /\ i \notin inPool.active
          /\ \A v \in Workers : Using(v) => wkIdx[v] # i
          /\ \A v \in Workers : v # w =>
               (Using(v)' <=> Using(v)) /\ (Filling(v)' <=> Filling(v))
          /\ Using(w)' /\ ~Filling(w)'
      BY <1>0, <1>1, WorkerGetsEffect DEF OwnInv, InOwned, Using, Filling
    <2>3. InOwned'
      BY <1>0, <1>1, <2>2, WorkerGetsEffect DEF OwnInv, InOwned
    <2>4. FreshUnseen'
      <3>1. ASSUME NEW j \in Nat, Fresh(j)' PROVE Fresh(j)
        BY <1>0, <1>1, <3>1, WorkerGetsEffect DEF Fresh
      <3> QED BY <1>0, <2>1, <3>1 DEF OwnInv, FreshUnseen, Serving
    <2>5. OutOwned'
      BY <1>0, <1>1, <2>1, <2>2, WorkerGetsEffect
      DEF OwnInv, OutOwned, Serving, Held
    <2> QED BY <1>0, <2>1, <2>3, <2>4, <2>5 DEF OwnInv, Announcing
  <1>2. CASE workerGetsOutput(w)
    <2>1. UNCHANGED <<inPool, wkIdx>>
      BY <1>2 DEF workerGetsOutput
    <2>2. /\ \A v \in Workers : Using(v)' <=> Using(v)
          /\ \A v \in Workers : v # w => (Filling(v)' <=> Filling(v))
          /\ Using(w) /\ Fresh(wkIdx[w])
      BY <1>0, <1>2, WorkerGetsOutputEffect DEF Using, Filling, Fresh
    <2>3. InOwned'
      BY <1>0, <2>1, <2>2 DEF OwnInv, InOwned
    <2>4. ~Fresh(wkIdx[w])'
      <3>1. /\ wkIdx[w] \in inPool.active
            /\ wkIdx[w] \notin inPool.ready /\ wkIdx[w] < idx
        BY <2>2 DEF OwnInv, InOwned
      <3>2. ASSUME NEW v \in Workers, wk'[v] = "out" PROVE wkIdx[v] # wkIdx[w]
        <4>1. v # w /\ Using(v)
          BY <1>0, <1>2, <3>2, WorkerGetsOutputEffect DEF Using
        <4> QED BY <2>2, <4>1 DEF OwnInv, InOwned
      <3>3. ~(wkIdx[w] >= idx)
        BY <1>0, <3>1, PoolsTyped
      <3> QED BY <1>0, <2>1, <3>1, <3>2, <3>3 DEF Fresh
    <2>5. FreshUnseen'
      <3>1. ASSUME NEW j \in Nat, Fresh(j)' PROVE Fresh(j) /\ j # wkIdx[w]
        <4>1. Fresh(j)
          BY <1>0, <1>2, <2>1, <3>1, WorkerGetsOutputEffect DEF Fresh
        <4> QED BY <2>1, <2>4, <3>1, <4>1
      <3> QED BY <1>0, <1>2, <3>1, WorkerGetsOutputEffect
              DEF OwnInv, FreshUnseen, Serving
    <2>6. OutOwned'
      <3>1. /\ wkIdx[w] \notin outPool.shut
            /\ Serving => wkIdx[w] >= index
        BY <1>0, <2>2 DEF OwnInv, FreshUnseen
      <3>2. \A v \in Workers : Filling(v)' /\ ~outPool'.dead =>
              wkIdx'[v] \notin outPool'.shut
        BY <1>0, <1>2, <2>1, <2>2, <3>1, WorkerGetsOutputEffect
        DEF OwnInv, OutOwned, SameControl
      <3> QED BY <1>0, <1>2, <3>1, <3>2, WorkerGetsOutputEffect
              DEF OwnInv, OutOwned, Serving, Held
    <2>7. Announcing'
      BY <1>0, <1>2, WorkerGetsOutputEffect DEF OwnInv, Announcing
    <2> QED BY <2>3, <2>5, <2>6, <2>7
  <1>3. CASE workerSeals(w)
    <2>1. UNCHANGED <<inPool, wkIdx>>
      BY <1>3 DEF workerSeals
    <2>2. /\ \A v \in Workers : Using(v)' <=> Using(v)
          /\ \A v \in Workers : v # w => (Filling(v)' <=> Filling(v))
          /\ Using(w) /\ ~Filling(w)'
          /\ \A v \in Workers : Filling(v) => Using(v)
          /\ \A v \in Workers : wk[v] = "out" => Using(v) /\ v # w
      BY <1>0, <1>3, WorkerSealsEffect DEF Using, Filling
    <2>3. InOwned'
      BY <1>0, <2>1, <2>2 DEF OwnInv, InOwned
    <2>4. ~Fresh(wkIdx[w])
      <3>1. /\ wkIdx[w] \in inPool.active
            /\ wkIdx[w] \notin inPool.ready /\ wkIdx[w] < idx
        BY <2>2 DEF OwnInv, InOwned
      <3>2. ASSUME NEW v \in Workers, wk[v] = "out" PROVE wkIdx[v] # wkIdx[w]
        BY <2>2, <3>2 DEF OwnInv, InOwned
      <3>3. ~(wkIdx[w] >= idx)
        BY <1>0, <3>1, PoolsTyped
      <3> QED BY <3>1, <3>2, <3>3 DEF Fresh
    <2>5. FreshUnseen'
      <3>1. ASSUME NEW j \in Nat, Fresh(j)' PROVE Fresh(j) /\ j # wkIdx[w]
        <4>1. Fresh(j)
          BY <1>0, <1>3, <2>1, <3>1, WorkerSealsEffect DEF Fresh
        <4> QED BY <2>4, <4>1
      <3> QED BY <1>0, <1>3, <3>1, WorkerSealsEffect
              DEF OwnInv, FreshUnseen, Serving
    <2>6. OutOwned'
      <3>1. ASSUME NEW v \in Workers, Filling(v)', ~outPool'.dead
            PROVE  wkIdx'[v] \notin outPool'.shut
        <4>1. v # w /\ Filling(v) /\ Using(v) /\ ~outPool.dead
          BY <1>0, <1>3, <2>2, <3>1, WorkerSealsEffect DEF SameControl
        <4>2. wkIdx[v] # wkIdx[w]
          BY <2>2, <4>1 DEF OwnInv, InOwned
        <4> QED BY <1>0, <1>3, <2>1, <4>1, <4>2, WorkerSealsEffect
                DEF OwnInv, OutOwned
      <3> QED BY <1>0, <1>3, <3>1, WorkerSealsEffect
              DEF OwnInv, OutOwned, Serving, Held
    <2>7. Announcing'
      BY <1>0, <1>3, WorkerSealsEffect DEF OwnInv, Announcing
    <2> QED BY <2>3, <2>5, <2>6, <2>7
  <1>4. CASE workerRestores(w)
    <2>1. UNCHANGED <<outPool, wkIdx>>
      BY <1>4 DEF workerRestores
    <2>2. /\ \A v \in Workers : v # w => (Using(v)' <=> Using(v))
          /\ \A v \in Workers : Filling(v)' <=> Filling(v)
          /\ Using(w) /\ ~Using(w)'
      BY <1>0, <1>4, WorkerRestoresEffect DEF Using, Filling
    <2>3. InOwned'
      BY <1>0, <1>4, <2>1, <2>2, WorkerRestoresEffect DEF OwnInv, InOwned
    <2>4. FreshUnseen'
      <3>1. ASSUME NEW j \in Nat, Fresh(j)' PROVE Fresh(j)
        BY <1>0, <1>4, <2>1, <3>1, WorkerRestoresEffect DEF Fresh
      <3> QED BY <1>0, <2>1, <3>1 DEF OwnInv, FreshUnseen, Serving
    <2> QED BY <1>0, <2>1, <2>2, <2>3, <2>4
            DEF OwnInv, OutOwned, Announcing, Serving, Held
  <1>5. CASE Stays(w)
    <2>1. /\ \A v \in Workers : Using(v)' => Using(v)
          /\ \A v \in Workers : Filling(v)' => Filling(v)
          /\ \A v \in Workers : wk'[v] = "out" => wk[v] = "out"
          /\ UNCHANGED <<inPool, outPool, wkIdx>>
      BY <1>0, <1>5, WorkerStaysEffect DEF Using, Filling
    <2>2. InOwned'
      BY <1>0, <2>1 DEF OwnInv, InOwned
    <2>3. FreshUnseen'
      <3>1. ASSUME NEW j \in Nat, Fresh(j)' PROVE Fresh(j)
        BY <1>0, <2>1, <3>1 DEF Fresh
      <3> QED BY <1>0, <2>1, <3>1 DEF OwnInv, FreshUnseen, Serving
    <2> QED BY <1>0, <2>1, <2>2, <2>3
            DEF OwnInv, OutOwned, Announcing, Serving, Held
  <1> QED BY <1>1, <1>2, <1>3, <1>4, <1>5, WorkSteps

LEMMA OwnWriter ==
    ASSUME OwnInv, writerSteps
    PROVE  InOwned' /\ FreshUnseen' /\ OutOwned' /\ Announcing'
  <1>0. /\ UNCHANGED <<idx, inPool, wk, wkIdx>>
        /\ TypeInv /\ index \in Nat
    BY WriterFrame, PoolsTyped DEF OwnInv, client, worker
  <1>1. InOwned'
    BY <1>0 DEF OwnInv, InOwned, Using
  <1>2. \A i \in Nat : Fresh(i)' <=> Fresh(i)
    BY <1>0 DEF Fresh
  <1>3. \A w \in Workers : Filling(w)' <=> Filling(w)
    BY <1>0 DEF Filling
  <1>4. outPool.ready \subseteq Nat
    BY <1>0, PoolsTyped DEF Pools, PoolType
  <1>5. CASE writerAnnounces
    BY <1>0, <1>1, <1>2, <1>3, <1>5, WriterAnnouncesEffect
    DEF OwnInv, FreshUnseen, OutOwned, Announcing, Serving, Held, SameControl
  <1>6. CASE writerGets
    <2>1. FreshUnseen'
      <3>1. ASSUME NEW i \in Nat, Fresh(i)
            PROVE  i # index /\ i >= index + 1
        BY <1>0, <1>6, <3>1, WriterGetsEffect DEF OwnInv, FreshUnseen, Serving
      <3> QED BY <1>0, <1>2, <1>6, <3>1, WriterGetsEffect
              DEF OwnInv, FreshUnseen, Serving
    <2>2. \A i \in outPool'.ready : i >= index'
      BY <1>0, <1>4, <1>6, WriterGetsEffect DEF OwnInv, OutOwned, Serving
    <2>3. OutOwned'
      BY <1>0, <1>3, <1>6, <2>2, WriterGetsEffect
      DEF OwnInv, OutOwned, SameControl
    <2> QED BY <1>0, <1>1, <1>6, <2>1, <2>3, WriterGetsEffect DEF Announcing
  <1>7. CASE writerEnds
    BY <1>0, <1>1, <1>2, <1>3, <1>7, WriterEndsEffect
    DEF OwnInv, FreshUnseen, OutOwned, Announcing, Serving, SameControl
  <1>8. CASE writerRestores
    <2>1. outPool'.shut = outPool.shut
      BY <1>0, <1>8, WriterRestoresEffect DEF OwnInv, OutOwned
    <2>2. FreshUnseen'
      BY <1>0, <1>2, <1>8, <2>1, WriterRestoresEffect
      DEF OwnInv, FreshUnseen, Serving
    <2>3. OutOwned'
      BY <1>0, <1>3, <1>8, <2>1, WriterRestoresEffect
      DEF OwnInv, OutOwned, Serving, SameControl
    <2> QED BY <1>0, <1>1, <1>8, <2>2, <2>3, WriterRestoresEffect
            DEF OwnInv, Announcing
  <1>9. CASE writerAsserts
    BY <1>0, <1>1, <1>2, <1>3, <1>9, WriterAssertsEffect
    DEF OwnInv, FreshUnseen, OutOwned, Announcing, Serving, SameControl
  <1>10. CASE writerCopies \/ writerReports \/ writerTerminates
    BY <1>0, <1>1, <1>2, <1>3, <1>10, WriterQuietEffect
    DEF OwnInv, FreshUnseen, OutOwned, Announcing, Serving, Held
  <1> QED BY <1>5, <1>6, <1>7, <1>8, <1>9, <1>10 DEF writerSteps

LEMMA OwnInvStep == OwnInv /\ [Next]_vars => OwnInv'
  <1> SUFFICES ASSUME OwnInv, [Next]_vars PROVE OwnInv'
    OBVIOUS
  <1>1. TypeInv'
    BY TypeInvStep DEF OwnInv
  <1>2. Phases'
    BY PhasesStep DEF OwnInv
  <1>3. CASE UNCHANGED vars
    <2>1. UNCHANGED <<idx, inPool, outPool, wk, wkIdx, wt, index>>
      BY <1>3 DEF vars, client, worker, writer
    <2>2. InOwned'
      BY <2>1 DEF OwnInv, InOwned, Using
    <2>3. FreshUnseen'
      BY <2>1 DEF OwnInv, FreshUnseen, Fresh, Serving
    <2>4. OutOwned' /\ Announcing'
      BY <2>1 DEF OwnInv, OutOwned, Announcing, Serving, Filling, Held
    <2> QED BY <1>1, <1>2, <2>2, <2>3, <2>4 DEF OwnInv
  <1> QED BY <1>1, <1>2, <1>3, Steps, OwnCalls, OwnMonitor, OwnWorker, OwnWriter
          DEF OwnInv

LEMMA OwnInvInit == Init => OwnInv
  <1> SUFFICES ASSUME Init PROVE OwnInv
    OBVIOUS
  <1>1. TypeInv
    BY TypeInvInit
  <1>2. /\ inPool.ready = {} /\ inPool.active = {} /\ inPool.shut = {}
        /\ inPool.waitIdx = NoIdx /\ ~inPool.closed /\ ~inPool.dead
        /\ outPool.ready = {} /\ outPool.active = {} /\ outPool.shut = {}
        /\ outPool.waitIdx = NoIdx /\ ~outPool.closed /\ ~outPool.dead
    BY DEF Init, newPipePool
  <1>3. Phases
    BY <1>2 DEF Init, Phases, ChannelPhases, InPhases, OutPhases
  <1>4. \A w \in Workers : wk[w] = "off"
    BY DEF Init
  <1>5. InOwned
    BY <1>2, <1>4 DEF InOwned, Using
  <1>6. FreshUnseen /\ OutOwned /\ Announcing
    BY <1>2, <1>4 DEF Init, FreshUnseen, OutOwned, Announcing, Filling
  <1> QED BY <1>1, <1>3, <1>5, <1>6 DEF OwnInv

LEMMA OwnInvariant == Spec => []OwnInv
  <1>1. OwnInv /\ [Next]_vars => OwnInv'
    BY OwnInvStep
  <1> QED BY <1>1, OwnInvInit, PTL DEF Spec

\* A buffer of the asynchronous Writer has one owner per side: no two workers
\* share an input pipe, restore never meets a pipe that is not active, and the
\* writer goroutine does not return an output pipe a worker still fills.
THEOREM BuffersHaveOneOwner == Spec => []PipesOwned
  <1>1. OwnInv => PipesOwned
    <2> SUFFICES ASSUME OwnInv PROVE PipesOwned
      OBVIOUS
    <2>1. ASSUME wt = "return", NEW w \in Workers,
                 wk[w] \in {"out", "run", "finish", "literal", "seal"}
          PROVE  wkIdx[w] # Held
      <3>1. Held \in outPool.shut
        BY <2>1 DEF OwnInv, OutOwned
      <3>2. ~outPool.dead
        BY <2>1 DEF OwnInv, Phases, ChannelPhases, OutPhases
      <3>3. CASE wk[w] = "out"
        <4>1. Fresh(wkIdx[w]) /\ wkIdx[w] \in Nat
          BY <3>3, PoolsTyped DEF OwnInv, Fresh
        <4> QED BY <3>1, <4>1 DEF OwnInv, FreshUnseen
      <3>4. CASE wk[w] # "out"
        BY <2>1, <3>1, <3>2, <3>4 DEF OwnInv, OutOwned, Filling
      <3> QED BY <3>3, <3>4
    <2> QED BY <2>1 DEF OwnInv, InOwned, OutOwned, PipesOwned
  <1> QED BY <1>1, OwnInvariant, PTL
-----------------------------------------------------------------------------
(***************************************************************************)
(* The number of buffers.                                                  *)
(***************************************************************************)
\* The announced index has got its pipe, or the writer goroutine holds one.
Extra == outPool.waitIdx \in outPool.ready \/ wt \in {"copy", "return"}

\* The pool exceeds its capacity only by the pipe the announcement forced.
BoundInv ==
    /\ BuffersBounded
    /\ Serving /\ ~Extra => outPool.len <= NumWorkers

LEMMA BoundInvStep == OwnInv /\ BoundInv /\ [Next]_vars => BoundInv'
  <1> SUFFICES ASSUME OwnInv, BoundInv, [Next]_vars PROVE BoundInv'
    OBVIOUS
  <1>0. /\ TypeInv
        /\ inPool.len \in Nat /\ inPool.cap \in Nat /\ inPool.cap <= NumWorkers
        /\ outPool.len \in Nat /\ outPool.cap \in Nat
        /\ outPool.cap <= NumWorkers
        /\ NumWorkers \in Nat
        /\ NoIdx \notin outPool.ready /\ idx \in Nat /\ NoIdx \notin Nat
    BY PoolsTyped, NumWorkersNat DEF OwnInv, Pools, PoolType, NoIdx
  <1> USE DEF BoundInv, BuffersBounded
  <1>1. CASE Calls
    <2>1. UNCHANGED <<outPool, wt>>
      BY <1>1, CallsFrame DEF writer
    <2>2. inPool'.len <= NumWorkers
      <3>1. CASE WriteGetsPipe /\ ~inPool.closed
        <4>1. ~WriterBlocked(inPool, idx) /\ idx # inPool.waitIdx
          BY <1>0, <3>1 DEF WriteGetsPipe, OwnInv, InOwned
        <4>2. inPool.free # {} \/ inPool.len < inPool.cap
          BY <1>0, <3>1, <4>1 DEF WriterBlocked
        <4> QED BY <1>0, <3>1, <4>2, WriteGetsPipeEffect
      <3>2. CASE ~(WriteGetsPipe /\ ~inPool.closed)
        <4>1. inPool'.len = inPool.len
          BY <1>0, <1>1, <3>2, WriteShutsEffect, CloseStartsEffect,
             CloseEndsInputEffect
          DEF Calls, Client, Write, WriteGetsPipe, WriteFills, WriteFails,
              CloseJoins, CloseWritesTrailer
        <4> QED BY <4>1
      <3> QED BY <3>1, <3>2
    <2> QED BY <2>1, <2>2 DEF Extra, Serving
  <1>2. CASE monitor \/ groupWait \/ groupEnds
    <2>1. UNCHANGED <<wt, index>>
      BY <1>2, MonitorFrame DEF writer
    <2>2. /\ inPool'.len = inPool.len /\ outPool'.len = outPool.len
          /\ outPool'.waitIdx = outPool.waitIdx
          /\ ~monitorEndsOut => outPool'.ready = outPool.ready
      BY <1>0, <1>2, SizesEffect, EndsOutEffect, EndsInEffect, GroupEndsEffect
      DEF monitor, monitorSpawns, monitorKills, groupWait, monitorEndsIn,
          monitorEndsOut, groupEnds
    <2>3. monitorEndsOut => ~Serving
      BY DEF OwnInv, Phases, ChannelPhases, monitorEndsOut, Serving
    <2> QED BY <2>1, <2>2, <2>3 DEF Extra, Serving
  <1>3. ASSUME NEW w \in Workers, Work(w) PROVE BoundInv'
    <2>1. UNCHANGED <<wt, index>>
      BY <1>3, WorkFrame DEF writer
    <2>2. inPool'.len <= NumWorkers
      <3>1. inPool'.len <= inPool.len /\ inPool'.len \in Nat
        <4>1. TypeInv'
          BY TypeInvStep DEF OwnInv
        <4>2. inPool'.len \in Nat
          BY <4>1, PoolsTyped DEF TypeInv, TypeOK, SharedTypes, PoolType
        <4>3. inPool'.len <= inPool.len
          BY <1>0, <1>3, WorkSteps, WorkerGetsEffect, WorkerRestoresEffect,
             WorkFrame
        <4> QED BY <4>2, <4>3
      <3> QED BY <1>0, <3>1
    <2>3. CASE workerGetsOutput(w)
      <3>1. /\ ~outPool.closed /\ ~WriterBlocked(outPool, wkIdx[w])
            /\ outPool'.waitIdx = outPool.waitIdx
            /\ outPool'.ready = outPool.ready \cup {wkIdx[w]}
            /\ outPool'.len = IF outPool.free = {} THEN outPool.len + 1
                              ELSE outPool.len
            /\ wk[w] = "out"
        BY <1>0, <2>3, WorkerGetsOutputEffect
      <3>2. CASE outPool.free # {}
        BY <2>1, <2>2, <3>1, <3>2 DEF Extra, Serving
      <3>3. CASE outPool.free = {} /\ outPool.len < outPool.cap
        <4>1. outPool'.len <= NumWorkers /\ outPool'.len <= NumWorkers + 1
          BY <1>0, <3>1, <3>3
        <4> QED BY <2>2, <4>1
      <3>4. CASE outPool.free = {} /\ ~(outPool.len < outPool.cap)
        <4>1. wkIdx[w] = outPool.waitIdx
          BY <1>0, <3>1, <3>4 DEF WriterBlocked
        <4>2. wkIdx[w] \in Nat /\ Fresh(wkIdx[w])
          BY <1>0, <3>1, PoolsTyped DEF Fresh
        <4>3. wt = "await"
          BY <1>0, <4>1, <4>2 DEF OwnInv, Announcing
        <4>4. Serving /\ ~Extra
          BY <4>1, <4>2, <4>3 DEF OwnInv, FreshUnseen, Extra, Serving
        <4>5. Extra' /\ outPool'.len <= NumWorkers + 1
          BY <1>0, <3>1, <3>4, <4>1, <4>4 DEF Extra
        <4> QED BY <2>2, <4>5
      <3> QED BY <3>2, <3>3, <3>4
    <2>4. CASE ~workerGetsOutput(w)
      <3>1. /\ outPool'.len = outPool.len /\ outPool'.ready = outPool.ready
            /\ outPool'.waitIdx = outPool.waitIdx
        BY <1>0, <1>3, <2>4, WorkSteps, WorkerSealsEffect, WorkFrame
      <3> QED BY <2>1, <2>2, <3>1 DEF Extra, Serving
    <2> QED BY <2>3, <2>4
  <1>4. CASE writerSteps
    <2>1. inPool'.len <= NumWorkers
      BY <1>4, WriterFrame
    <2>2. CASE writerAnnounces
      <3>1. Serving /\ ~Extra
        BY <1>0, <2>2, WriterAnnouncesEffect
        DEF OwnInv, Announcing, Extra, Serving
      <3> QED BY <1>0, <2>1, <2>2, <3>1, WriterAnnouncesEffect
    <2>3. CASE writerGets
      BY <1>0, <2>1, <2>3, WriterGetsEffect DEF Extra
    <2>4. CASE writerEnds
      BY <1>0, <2>1, <2>4, WriterEndsEffect DEF Serving
    <2>5. CASE writerRestores
      <3>1. outPool'.len <= NumWorkers /\ outPool'.len <= NumWorkers + 1
        BY <1>0, <2>5, WriterRestoresEffect
      <3> QED BY <2>1, <3>1
    <2>6. CASE writerAsserts
      BY <1>0, <2>1, <2>6, WriterAssertsEffect DEF Serving
    <2>7. CASE writerCopies \/ writerReports \/ writerTerminates
      BY <1>0, <2>1, <2>7, WriterQuietEffect DEF Extra, Serving
    <2> QED BY <1>4, <2>2, <2>3, <2>4, <2>5, <2>6, <2>7 DEF writerSteps
  <1>5. CASE UNCHANGED vars
    BY <1>5 DEF vars, writer, Extra, Serving
  <1> QED BY <1>1, <1>2, <1>3, <1>4, <1>5, Steps

\* The asynchronous Writer holds at most one input buffer per worker, and at
\* most one output buffer more than that, whatever order the blocks finish in.
THEOREM MemoryBounded == Spec => []BuffersBounded
  <1>1. Init => BoundInv
    BY NumWorkersNat DEF Init, newPipePool, BoundInv, BuffersBounded
  <1>2. OwnInv /\ BoundInv /\ [Next]_vars => BoundInv'
    BY BoundInvStep
  <1>3. BoundInv => BuffersBounded
    BY DEF BoundInv
  <1> QED BY <1>1, <1>2, <1>3, OwnInvariant, PTL DEF Spec
-----------------------------------------------------------------------------
(***************************************************************************)
(* The end of the stream.                                                  *)
(***************************************************************************)
\* The input is over, and every pipe of it has been handed to a worker.
Drained == inPool.closed /\ inPool.ready = {}

\* Until doneChan is closed a worker leaves only when the input is drained,
\* and the output is closed only when no worker has anything left to do.
GroupEnded ==
    /\ wg # "off" => \E w \in Workers : wk[w] # "off"
    /\ ~doneChan => \A w \in Workers : wk[w] = "exit" => Drained
    /\ ~doneChan /\ wg \in {"end", "exit"} =>
         Drained /\ \A w \in Workers : wk[w] \in {"off", "get", "exit"}

\* No chunk is lost on its way: until doneChan is closed it is fresh, waits
\* for the writer goroutine, or has been taken by it.
NoneLost ==
    ~doneChan => \A i \in Idx : Fresh(i) \/ i \in outPool.ready \/ i < index

\* The writer goroutine ends without an error only when it has taken every
\* chunk and the client has closed the Writer.
Consumed ==
    /\ Serving => index <= idx
    /\ wt = "sanity" => outPool.ready = {} /\ outPool.closed
    /\ wt = "sanity" \/ (~Serving /\ wtErr = "nil") =>
         index = idx + 1 /\ closed /\ wtErr = "nil"
    /\ wt \in {"ask", "await", "copy", "sanity"} => wtErr = "nil"
    /\ torn => wtErr = "err"

FlowInv == OwnInv /\ GroupEnded /\ NoneLost /\ Consumed

LEMMA DoneStays ==
    ASSUME [Next]_vars, doneChan
    PROVE  doneChan'
  <1>1. CASE UNCHANGED vars
    BY <1>1 DEF vars, shared
  <1> QED BY <1>1, Steps, CallsFrame, MonitorFrame, WorkFrame, WriterFrame

LEMMA DrainedStays ==
    ASSUME OwnInv, [Next]_vars, Drained
    PROVE  Drained'
  <1>0. TypeInv
    BY DEF OwnInv
  <1>1. CASE Calls
    BY <1>0, <1>1, WriteShutsEffect, CloseStartsEffect, CloseEndsInputEffect
    DEF Calls, Client, Write, WriteGetsPipe, WriteFills, WriteFails,
        CloseJoins, CloseWritesTrailer, Drained, SameControl
  <1>2. CASE monitor \/ groupWait \/ groupEnds
    BY <1>0, <1>2, SizesEffect, EndsInEffect
    DEF monitor, monitorSpawns, monitorKills, groupWait, monitorEndsOut,
        groupEnds, Drained
  <1>3. ASSUME NEW w \in Workers, Work(w) PROVE Drained'
    BY <1>0, <1>3, WorkSteps, WorkerGetsEffect, WorkerRestoresEffect, WorkFrame
    DEF Drained, SameControl
  <1>4. CASE writerSteps
    BY <1>4, WriterFrame DEF Drained
  <1>5. CASE UNCHANGED vars
    BY <1>5 DEF vars, Drained
  <1> QED BY <1>1, <1>2, <1>3, <1>4, <1>5, Steps

\* The monitors move a worker only to bring it to life.
LEMMA MonitorMoves ==
    ASSUME TypeInv, monitor \/ groupWait \/ groupEnds, NEW w \in Workers
    PROVE  \/ wk'[w] = wk[w]
           \/ monitorSpawns /\ wk[w] = "off" /\ wk'[w] = "get"
  <1>1. CASE monitorSpawns
    <2>1. PICK u \in Unborn : wk' = [wk EXCEPT ![u] = "get"]
      BY <1>1 DEF monitorSpawns
    <2>2. wk \in [Workers -> WorkerPlace] /\ wk[u] = "off" /\ u \in Workers
      BY DEF Unborn, TypeInv, TypeOK, WorkerTypes
    <2> QED BY <1>1, <2>1, <2>2
  <1>2. CASE ~monitorSpawns
    BY <1>2
    DEF monitor, monitorSizesIn, monitorSizesOut, monitorKills,
        monitorEndsOut, monitorEndsIn, groupWait, groupEnds, worker
  <1> QED BY <1>1, <1>2

\* The places a worker may move to in one step.
LEMMA WorkerStep ==
    ASSUME TypeInv, [Next]_vars, NEW w \in Workers
    PROVE  \/ wk'[w] = wk[w]
           \/ monitorSpawns /\ wk[w] = "off" /\ wk'[w] = "get"
           \/ Work(w) /\ wk[w] # "off" /\ wk'[w] # "off"
  <1>1. CASE Calls
    BY <1>1, CallsFrame DEF worker
  <1>2. CASE monitor \/ groupWait \/ groupEnds
    BY <1>2, MonitorMoves
  <1>3. ASSUME NEW v \in Workers, Work(v)
        PROVE  \/ wk'[w] = wk[w]
               \/ Work(w) /\ wk[w] # "off" /\ wk'[w] # "off"
    <2>1. /\ v # w => wk'[w] = wk[w]
          /\ wk[v] # "off" /\ wk'[v] # "off"
      BY <1>3, WorkSteps, WorkerGetsEffect, WorkerGetsOutputEffect,
         WorkerSealsEffect, WorkerRestoresEffect, WorkerStaysEffect
    <2> QED BY <1>3, <2>1
  <1>4. CASE writerSteps
    BY <1>4, WriterFrame DEF worker
  <1>5. CASE UNCHANGED vars
    BY <1>5 DEF vars, worker
  <1> QED BY <1>1, <1>2, <1>3, <1>4, <1>5, Steps

LEMMA GroupStep ==
    ASSUME OwnInv, GroupEnded, [Next]_vars
    PROVE  GroupEnded'
  <1>0. TypeInv /\ (~doneChan' => ~doneChan /\ ~killed)
    BY DoneStays DEF OwnInv, Phases, ChannelPhases
  <1>1. wg' # wg =>
          \/ monitorSpawns /\ wg = "off" /\ wg' = "wait"
          \/ groupWait /\ wg = "wait" /\ wg' = "end"
          \/ groupEnds /\ wg = "end" /\ wg' = "exit"
    <2>1. ASSUME NEW w \in Workers, Work(w) PROVE UNCHANGED wg
      BY <2>1, WorkFrame
    <2>2. monitorSpawns => UNCHANGED wg \/ (wg = "off" /\ wg' = "wait")
      BY DEF monitorSpawns, OwnInv, Phases, ChannelPhases
    <2>3. CASE monitor \/ groupWait \/ groupEnds
      BY <2>2, <2>3
      DEF monitor, monitorSizesIn, monitorSizesOut, monitorKills,
          monitorEndsOut, monitorEndsIn, groupWait, groupEnds
    <2>4. CASE UNCHANGED vars
      BY <2>4 DEF vars
    <2> QED BY <2>1, <2>3, <2>4, Steps, CallsFrame, WriterFrame
  <1>2. ASSUME wg' # "off" PROVE \E w \in Workers : wk'[w] # "off"
    <2>1. CASE wg # "off"
      <3>1. PICK w \in Workers : wk[w] # "off"
        BY <2>1 DEF GroupEnded
      <3>2. wk'[w] # "off"
        BY <1>0, <3>1, WorkerStep
      <3> QED BY <3>2
    <2>2. CASE wg = "off"
      <3>1. PICK u \in Unborn : wk' = [wk EXCEPT ![u] = "get"]
        BY <1>1, <1>2, <2>2 DEF monitorSpawns
      <3>2. wk \in [Workers -> WorkerPlace] /\ u \in Workers
        BY <1>0 DEF Unborn, TypeInv, TypeOK, WorkerTypes
      <3>3. wk'[u] = "get"
        BY <3>1, <3>2
      <3> QED BY <3>2, <3>3
    <2> QED BY <2>1, <2>2
  <1>3. ASSUME ~doneChan', NEW w \in Workers, wk'[w] = "exit" PROVE Drained'
    <2>1. CASE wk[w] = "exit"
      BY <1>0, <1>3, <2>1, DrainedStays DEF GroupEnded
    <2>2. CASE wk[w] # "exit"
      <3>1. Work(w)
        BY <1>0, <1>3, <2>2, WorkerStep
      <3>2. workerEnds(w) \/ workerSelects(w)
        <4>1. wk[w] \in {"get", "select"} /\ Stays(w)
          BY <1>0, <1>3, <2>2, <3>1, WorkSteps, WorkerGetsEffect,
             WorkerGetsOutputEffect, WorkerSealsEffect, WorkerRestoresEffect,
             WorkerStaysEffect
        <4> QED BY <4>1
                DEF Stays, WorkerAt, workerRefused, encodeRuns, encodeMeetsEOF,
                    encodeOverflows, encodeFinishes, finishOverflows,
                    encodeLiteral, encodeFails
      <3>3. ~workerSelects(w)
        <4>1. workerSelects(w) => WorkerAt(w, "select", "get")
          BY <1>0, <1>3 DEF workerSelects
        <4>2. "get" \in WorkerPlace
          BY DEF WorkerPlace
        <4>3. workerSelects(w) => wk'[w] = "get"
          BY <1>0, <4>1, <4>2, WorkerMoves
        <4> QED BY <1>3, <4>3
      <3>4. Drained
        BY <3>2, <3>3 DEF workerEnds, Drained, Readable
      <3> QED BY <3>4, DrainedStays
    <2> QED BY <2>1, <2>2
  <1>4. ASSUME ~doneChan', wg' \in {"end", "exit"}
        PROVE  Drained' /\ \A w \in Workers : wk'[w] \in {"off", "get", "exit"}
    <2>1. CASE wg \in {"end", "exit"}
      <3>1. Drained /\ \A w \in Workers : wk[w] \in {"off", "get", "exit"}
        BY <1>0, <1>4, <2>1 DEF GroupEnded
      <3>2. ASSUME NEW w \in Workers PROVE wk'[w] \in {"off", "get", "exit"}
        <4>1. ~workerGets(w)
          BY <1>0, <3>1, WorkerGetsEffect DEF Drained
        <4>2. Work(w) => wk'[w] \in {"off", "get", "exit"}
          BY <1>0, <3>1, <4>1, WorkSteps, WorkerGetsOutputEffect,
             WorkerSealsEffect, WorkerRestoresEffect, WorkerStaysEffect
        <4> QED BY <1>0, <3>1, <4>2, WorkerStep
      <3> QED BY <3>1, <3>2, DrainedStays
    <2>2. CASE wg \notin {"end", "exit"}
      <3>1. groupWait /\ wg = "wait"
        BY <1>1, <1>4, <2>2
      <3>2. UNCHANGED wk /\ Running = {}
        BY <3>1 DEF groupWait, GroupDone, worker
      <3>3. \A w \in Workers : wk[w] \in {"off", "exit"}
        BY <3>2 DEF Running
      <3>4. PICK w \in Workers : wk[w] = "exit"
        BY <3>1, <3>3 DEF GroupEnded
      <3>5. Drained'
        BY <1>0, <1>4, <3>4, DrainedStays DEF GroupEnded
      <3> QED BY <3>2, <3>3, <3>5
    <2> QED BY <2>1, <2>2
  <1> QED BY <1>2, <1>3, <1>4 DEF GroupEnded

\* While the writer goroutine has not ended, the output is closed only by the
\* end callback, and then no worker asks for an output pipe any more.
LEMMA ClosedMeansEnded ==
    ASSUME OwnInv, GroupEnded, ~doneChan, outPool.closed
    PROVE  Drained /\ \A w \in Workers : wk[w] \in {"off", "get", "exit"}
  <1>1. ~outPool.dead
    BY DEF OwnInv, Phases, ChannelPhases, OutPhases
  <1>2. wg = "exit"
    BY <1>1 DEF OwnInv, Phases, OutPhases
  <1> QED BY <1>2 DEF GroupEnded

LEMMA NoneLostStep ==
    ASSUME FlowInv, [Next]_vars
    PROVE  NoneLost'
  <1>0. /\ OwnInv /\ TypeInv /\ GroupEnded /\ Consumed
        /\ idx \in Nat /\ index \in Nat /\ Idx \subseteq Nat
    BY PoolsTyped, IdxNat DEF FlowInv, OwnInv
  <1> SUFFICES ASSUME ~doneChan', NEW i \in Idx
               PROVE  Fresh(i)' \/ i \in outPool'.ready \/ i < index'
    BY DEF NoneLost
  <1>1. ~doneChan /\ ~killed
    BY <1>0, DoneStays DEF OwnInv, Phases, ChannelPhases
  <1>2. Fresh(i) \/ i \in outPool.ready \/ i < index
    BY <1>1 DEF FlowInv, NoneLost
  <1>3. CASE Calls
    <2>1. UNCHANGED <<outPool, index, wk, wkIdx>>
      BY <1>3, CallsFrame DEF worker, writer
    <2>2. i >= idx => i >= idx' \/ i \in inPool'.ready
      BY <1>0, <1>3, CallsEffect
    <2>3. inPool.ready \subseteq inPool'.ready
      BY <1>0, <1>3, CallsEffect
    <2> QED BY <1>2, <2>1, <2>2, <2>3 DEF Fresh
  <1>4. CASE monitor \/ groupWait \/ groupEnds
    <2>1. ~monitorEndsIn /\ ~monitorEndsOut
      BY <1>0, <1>1
      DEF OwnInv, Phases, ChannelPhases, monitorEndsIn, monitorEndsOut
    <2>2. /\ UNCHANGED <<index, idx, wkIdx>>
          /\ outPool'.ready = outPool.ready /\ inPool'.ready = inPool.ready
      BY <1>0, <1>4, <2>1, MonitorFrame, MonitorEffect DEF writer, client
    <2>3. ASSUME NEW w \in Workers, wk[w] = "out" PROVE wk'[w] = "out"
      BY <1>0, <1>4, <2>3, MonitorMoves
    <2> QED BY <1>2, <2>2, <2>3 DEF Fresh
  <1>5. ASSUME NEW w \in Workers, Work(w)
        PROVE  Fresh(i)' \/ i \in outPool'.ready \/ i < index'
    <2>0. UNCHANGED <<idx, index>>
      BY <1>5, WorkFrame DEF client, writer
    <2>1. CASE workerGets(w)
      <3>1. UNCHANGED outPool
        BY <2>1 DEF workerGets
      <3>2. Fresh(i) => Fresh(i)'
        BY <1>0, <2>0, <2>1, WorkerGetsEffect DEF Fresh
      <3> QED BY <1>2, <2>0, <3>1, <3>2
    <2>2. CASE workerGetsOutput(w)
      <3>1. UNCHANGED <<inPool, wkIdx>>
        BY <2>2 DEF workerGetsOutput
      <3>2. Fresh(i) => Fresh(i)' \/ i = wkIdx[w]
        BY <1>0, <2>0, <2>2, <3>1, WorkerGetsOutputEffect DEF Fresh
      <3> QED BY <1>0, <1>2, <2>0, <2>2, <3>2, WorkerGetsOutputEffect
    <2>3. CASE workerSeals(w)
      <3>1. UNCHANGED <<inPool, wkIdx>>
        BY <2>3 DEF workerSeals
      <3>2. Fresh(i) => Fresh(i)'
        BY <1>0, <2>0, <2>3, <3>1, WorkerSealsEffect DEF Fresh
      <3> QED BY <1>0, <1>2, <2>0, <2>3, <3>2, WorkerSealsEffect
    <2>4. CASE workerRestores(w)
      <3>1. UNCHANGED <<outPool, wkIdx>>
        BY <2>4 DEF workerRestores
      <3>2. Fresh(i) => Fresh(i)'
        BY <1>0, <2>0, <2>4, <3>1, WorkerRestoresEffect DEF Fresh
      <3> QED BY <1>2, <2>0, <3>1, <3>2
    <2>5. CASE Stays(w)
      <3>1. wk[w] # "out"
        <4>1. wk[w] = "out" => workerRefused(w)
          BY <2>5
          DEF Stays, WorkerAt, workerEnds, encodeRuns, encodeMeetsEOF,
              encodeOverflows, encodeFinishes, finishOverflows, encodeLiteral,
              encodeFails, workerSelects
        <4>2. workerRefused(w) => outPool.closed
          BY DEF workerRefused
        <4> QED BY <1>0, <1>1, <4>1, <4>2, ClosedMeansEnded
      <3>2. Fresh(i) => Fresh(i)'
        BY <1>0, <2>0, <2>5, <3>1, WorkerStaysEffect DEF Fresh
      <3> QED BY <1>0, <1>2, <2>0, <2>5, <3>2, WorkerStaysEffect
    <2> QED BY <1>5, <2>1, <2>2, <2>3, <2>4, <2>5, WorkSteps
  <1>6. CASE writerSteps
    <2>1. Fresh(i)' <=> Fresh(i)
      BY <1>6, WriterFrame DEF Fresh, client, worker
    <2>2. CASE writerGets \/ writerEnds
      <3>1. /\ index' = index + 1
            /\ outPool.ready \subseteq outPool'.ready \cup {index}
        BY <1>0, <2>2, WriterGetsEffect, WriterEndsEffect
      <3>2. i < index => i < index + 1
        BY <1>0
      <3>3. index < index + 1
        BY <1>0
      <3> QED BY <1>2, <2>1, <3>1, <3>2, <3>3
    <2>3. CASE writerAsserts
      BY <1>0, <1>2, <2>1, <2>3, WriterAssertsEffect DEF Consumed
    <2>4. CASE writerAnnounces \/ writerRestores
      BY <1>0, <1>2, <2>1, <2>4, WriterAnnouncesEffect, WriterRestoresEffect
    <2>5. CASE writerCopies \/ writerReports \/ writerTerminates
      BY <1>0, <1>2, <2>1, <2>5, WriterQuietEffect
    <2> QED BY <1>6, <2>2, <2>3, <2>4, <2>5 DEF writerSteps
  <1>7. CASE UNCHANGED vars
    BY <1>2, <1>7 DEF vars, client, worker, writer, Fresh
  <1> QED BY <1>3, <1>4, <1>5, <1>6, <1>7, Steps

\* Every index that has been handed out is one of Idx.
LEMMA BelowIdx ==
    ASSUME TypeInv, NEW i \in Nat, i < idx
    PROVE  i \in Idx
  <1>1. idx \in Nat
    BY PoolsTyped
  <1>2. idx > 0 /\ idx - 1 \in Idx
    BY <1>1 DEF TypeInv, ChunksCut
  <1>3. (Total - 1) \div ChunkSize \in Int
    BY WriterAssumption
  <1>4. idx - 1 <= (Total - 1) \div ChunkSize
    BY <1>1, <1>2, <1>3 DEF Idx
  <1> QED BY <1>1, <1>3, <1>4 DEF Idx

\* When the writer goroutine is told that there is nothing more, it has taken
\* every chunk, and the client has closed the Writer.
LEMMA EndIsTheEnd ==
    ASSUME FlowInv, writerEnds
    PROVE  index = idx /\ outPool.ready = {} /\ closed
  <1>0. /\ OwnInv /\ TypeInv /\ GroupEnded /\ Consumed
        /\ idx \in Nat /\ index \in Nat /\ Idx \subseteq Nat
    BY PoolsTyped, IdxNat DEF FlowInv, OwnInv
  <1>1. outPool.closed /\ index \notin outPool.ready /\ wt = "await" /\ ~doneChan
    BY <1>0, WriterEndsEffect DEF OwnInv, Phases, ChannelPhases
  <1>2. Drained /\ \A w \in Workers : wk[w] \in {"off", "get", "exit"}
    BY <1>0, <1>1, ClosedMeansEnded
  <1>3. closed
    BY <1>1, <1>2 DEF Drained, OwnInv, FlowInv, Phases, ChannelPhases, InPhases
  <1>4. \A i \in Nat : Fresh(i) <=> i >= idx
    BY <1>2 DEF Fresh, Drained
  <1>5. index <= idx
    BY <1>0, <1>1 DEF Consumed, Serving
  <1>6. ~(index < idx)
    <2> SUFFICES ASSUME index < idx PROVE FALSE
      OBVIOUS
    <2>2. index \in Idx
      BY <1>0, BelowIdx
    <2>3. Fresh(index)
      BY <1>0, <1>1, <2>2 DEF FlowInv, NoneLost
    <2> QED BY <1>0, <1>4, <2>3
  <1>7. index = idx
    BY <1>0, <1>5, <1>6
  <1>8. ASSUME NEW i \in outPool.ready PROVE FALSE
    <2>1. i \in Nat
      BY <1>0, PoolsTyped DEF Pools, PoolType
    <2>2. i >= idx
      BY <1>0, <1>1, <1>7 DEF OwnInv, OutOwned, Serving
    <2> QED BY <1>0, <1>4, <2>1, <2>2 DEF OwnInv, FreshUnseen
  <1> QED BY <1>3, <1>7, <1>8

LEMMA ClosedStays ==
    ASSUME TypeInv, [Next]_vars, outPool.closed
    PROVE  outPool'.closed
  <1>1. CASE Calls \/ UNCHANGED vars
    BY <1>1, CallsFrame DEF vars
  <1>2. CASE monitor \/ groupWait \/ groupEnds
    BY <1>2, SizesEffect, EndsOutEffect, GroupEndsEffect
    DEF monitor, monitorSpawns, monitorKills, monitorEndsIn, groupWait
  <1>3. ASSUME NEW w \in Workers, Work(w) PROVE outPool'.closed
    BY <1>3, WorkFrame, WorkerGetsOutputEffect, WorkerSealsEffect
    DEF SameControl
  <1>4. CASE writerSteps
    BY <1>4, WriterAnnouncesEffect, WriterGetsEffect, WriterEndsEffect,
       WriterRestoresEffect, WriterAssertsEffect, WriterQuietEffect
    DEF SameControl, writerSteps
  <1> QED BY <1>1, <1>2, <1>3, <1>4, Steps

\* A closed Writer takes no more pipes, and stays closed.
LEMMA ClosedWriter ==
    ASSUME TypeInv, [Next]_vars
    PROVE  /\ idx' \in Nat /\ idx' >= idx
           /\ closed => closed' /\ idx' = idx /\ pipe' = pipe /\ sent' = sent
  <1>0. idx \in Nat /\ (closed => cl \notin {"loop", "full", "check"})
    BY PoolsTyped DEF TypeInv, ClientPlaces
  <1>1. CASE Calls
    BY <1>0, <1>1
    DEF Calls, Client, Write, CloseStarts, WriteGetsPipe, WriteFills,
        WriteShuts, WriteFails, CloseEndsInput, CloseJoins,
        CloseWritesTrailer
  <1>2. CASE UNCHANGED client
    BY <1>0, <1>2 DEF client
  <1>3. CASE UNCHANGED vars
    BY <1>2, <1>3 DEF vars
  <1> QED BY <1>1, <1>2, <1>3, Steps, MonitorFrame, WorkFrame, WriterFrame

LEMMA ConsumedStep ==
    ASSUME FlowInv, [Next]_vars
    PROVE  Consumed'
  <1>0. /\ OwnInv /\ TypeInv /\ Consumed
        /\ idx \in Nat /\ index \in Nat /\ Idx \subseteq Nat
    BY PoolsTyped, IdxNat DEF FlowInv, OwnInv
  <1>1. /\ idx' \in Nat /\ idx' >= idx
        /\ closed => closed' /\ idx' = idx /\ pipe' = pipe /\ sent' = sent
    BY <1>0, ClosedWriter
  <1>2. ASSUME UNCHANGED writer,
               outPool.closed => outPool'.ready \subseteq outPool.ready
        PROVE  Consumed'
    <2>1. Serving' => index' <= idx'
      <3>1. UNCHANGED <<wt, index>>
        BY <1>2 DEF writer
      <3>2. Serving' => Serving
        BY <3>1 DEF Serving
      <3> QED BY <1>0, <1>1, <3>1, <3>2 DEF Consumed
    <2>2. wt' = "sanity" => outPool'.ready = {} /\ outPool'.closed
      BY <1>0, <1>2, ClosedStays DEF Consumed, writer
    <2>3. wt' = "sanity" \/ (~Serving' /\ wtErr' = "nil") =>
            index' = idx' + 1 /\ closed' /\ wtErr' = "nil"
      BY <1>0, <1>1, <1>2 DEF Consumed, writer, Serving
    <2> QED BY <1>0, <1>2, <2>1, <2>2, <2>3 DEF Consumed, writer
  <1>3. CASE Calls
    BY <1>2, <1>3, CallsFrame DEF writer
  <1>4. CASE monitor \/ groupWait \/ groupEnds
    BY <1>0, <1>2, <1>4, MonitorFrame, MonitorEffect
  <1>5. ASSUME NEW w \in Workers, Work(w) PROVE Consumed'
    <2>1. UNCHANGED writer
      BY <1>5, WorkFrame
    <2>2. outPool.closed => outPool'.ready \subseteq outPool.ready
      BY <1>0, <1>5, WorkFrame, WorkerGetsOutputEffect, WorkerSealsEffect
    <2> QED BY <1>2, <2>1, <2>2
  <1>6. CASE writerSteps
    <2>0. UNCHANGED <<idx, closed>>
      BY <1>6, WriterFrame DEF client
    <2>1. CASE writerAnnounces
      <3>1. UNCHANGED <<wtErr, torn>>
        BY <2>1 DEF writerAnnounces
      <3> QED BY <1>0, <2>0, <2>1, <3>1, WriterAnnouncesEffect
              DEF Consumed, Serving
    <2>2. CASE writerGets
      <3>1. UNCHANGED <<wtErr, torn>>
        BY <2>2 DEF writerGets
      <3>2. /\ wt = "await" /\ wt' = "copy" /\ index' = index + 1
            /\ index \in outPool.ready
        BY <1>0, <2>2, WriterGetsEffect
      <3>3. index < idx
        BY <1>0, <3>2 DEF OwnInv, FreshUnseen, Fresh
      <3>4. index' <= idx'
        BY <1>0, <2>0, <3>2, <3>3
      <3> QED BY <1>0, <3>1, <3>2, <3>4 DEF Consumed, Serving
    <2>3. CASE writerEnds
      <3>1. UNCHANGED <<wtErr, torn>>
        BY <2>3 DEF writerEnds
      <3>2. /\ wt = "await" /\ wt' = "sanity" /\ index' = index + 1
            /\ outPool'.ready = outPool.ready
            /\ outPool'.closed
        BY <1>0, <2>3, WriterEndsEffect DEF SameControl
      <3>3. index = idx /\ outPool.ready = {} /\ closed
        BY <2>3, EndIsTheEnd
      <3> QED BY <1>0, <2>0, <3>1, <3>2, <3>3 DEF Consumed, Serving
    <2>4. CASE writerCopies
      <3>1. /\ wt = "copy" /\ wt' = "return" /\ index' = index
            /\ torn' => torn \/ wtErr' = "err"
        BY <1>0, <2>4, WriterQuietEffect DEF writerCopies, WriteTo
      <3>2. ~torn
        BY <1>0, <3>1 DEF Consumed
      <3> QED BY <1>0, <2>0, <3>1, <3>2 DEF Consumed, Serving
    <2>5. CASE writerRestores
      <3>1. UNCHANGED <<wtErr, torn>>
        BY <2>5 DEF writerRestores
      <3>2. wtErr \in {"nil", "err"}
        BY <1>0 DEF TypeInv, TypeOK, WriterTypes
      <3> QED BY <1>0, <2>0, <2>5, <3>1, <3>2, WriterRestoresEffect
              DEF Consumed, Serving
    <2>6. CASE writerAsserts
      <3>1. UNCHANGED torn
        BY <2>6 DEF writerAsserts
      <3> QED BY <1>0, <2>0, <2>6, <3>1, WriterAssertsEffect
              DEF Consumed, Serving
    <2>7. CASE writerReports \/ writerTerminates
      <3>1. UNCHANGED <<wtErr, torn>>
        BY <2>7 DEF writerReports, writerTerminates
      <3>2. /\ wt \in {"report", "done"} /\ wt' \in {"done", "exit"}
            /\ index' = index
        BY <2>7 DEF writerReports, writerTerminates, WriterAt
      <3> QED BY <1>0, <2>0, <3>1, <3>2 DEF Consumed, Serving
    <2> QED BY <1>6, <2>1, <2>2, <2>3, <2>4, <2>5, <2>6, <2>7
            DEF writerSteps
  <1>7. CASE UNCHANGED vars
    BY <1>2, <1>7 DEF vars
  <1> QED BY <1>3, <1>4, <1>5, <1>6, <1>7, Steps

LEMMA FlowInvStep == FlowInv /\ [Next]_vars => FlowInv'
  BY OwnInvStep, GroupStep, NoneLostStep, ConsumedStep DEF FlowInv

LEMMA FlowInvInit == Init => FlowInv
  <1> SUFFICES ASSUME Init PROVE FlowInv
    OBVIOUS
  <1>1. OwnInv
    BY OwnInvInit
  <1>2. GroupEnded
    BY DEF Init, GroupEnded
  <1>3. NoneLost
    BY IdxNat DEF Init, NoneLost, Fresh
  <1>4. Consumed
    BY DEF Init, Consumed, Serving
  <1> QED BY <1>1, <1>2, <1>3, <1>4 DEF FlowInv

LEMMA FlowInvariant == Spec => []FlowInv
  <1>1. FlowInv /\ [Next]_vars => FlowInv'
    BY FlowInvStep
  <1> QED BY <1>1, FlowInvInit, PTL DEF Spec
-----------------------------------------------------------------------------
(***************************************************************************)
(* The way of an error to the client.                                      *)
(***************************************************************************)
\* errChan carries the writer goroutine's error and nothing else, once, and
\* what was received from it stays in w.lastErr.
Channel ==
    /\ errChan = "open" <=> wt \notin {"done", "exit"}
    /\ errChan \in {"nil", "err"} => errChan = wtErr
    /\ lastErr = "err" => wtErr = "err" /\ errChan = "drained"
    /\ errChan = "drained" => lastErr = wtErr

\* A call of the client fails over the error it received, and Close goes on
\* to the trailer, and to success, only after a report without an error.
Outcomes ==
    /\ wrote = "err" => lastErr = "err"
    /\ cl = "trail" => wtErr = "nil" /\ errChan = "drained"
    /\ outcome = "ok" => wtErr = "nil" /\ errChan = "drained"
    /\ outcome = "err" => lastErr = "err" \/ "trailer" \in Faults
    /\ outcome # "none" => cl = "idle" /\ closed /\ errChan = "drained"

Reporting == Channel /\ Outcomes

\* checkErr, called once it may return, leaves the writer goroutine's error
\* in w.lastErr and the channel drained.
LEMMA CheckErrFinds ==
    ASSUME TypeInv, Channel, CheckErrReturns, checkErr
    PROVE  /\ wt \in {"done", "exit"} /\ lastErr' = wtErr
           /\ errChan' = "drained"
  <1>1. /\ errChan \in {"open", "nil", "err", "drained"}
        /\ lastErr \in {"nil", "err"} /\ wtErr \in {"nil", "err"}
    BY DEF TypeInv, TypeOK, SharedTypes, ClientTypes, WriterTypes
  <1> QED BY <1>1 DEF Channel, CheckErrReturns, checkErr

LEMMA ReportingCalls ==
    ASSUME FlowInv, Reporting, Calls
    PROVE  Reporting'
  <1>0. TypeInv /\ Consumed /\ Channel /\ Outcomes /\ UNCHANGED <<wt, wtErr>>
    BY CallsFrame DEF FlowInv, OwnInv, Reporting, writer
  <1>1. CASE WriteFails
    <2>1. wt \in {"done", "exit"} /\ lastErr' = wtErr /\ errChan' = "drained"
      BY <1>0, <1>1, CheckErrFinds DEF WriteFails
    <2>2. ~closed /\ cl = "check" /\ cl' = "idle" /\ UNCHANGED <<outcome, trailer>>
      BY <1>0, <1>1 DEF WriteFails, TypeInv, ClientPlaces
    <2>3. wtErr # "nil" /\ wtErr \in {"nil", "err"}
      BY <1>0, <2>1, <2>2
      DEF Consumed, Serving, TypeInv, TypeOK, WriterTypes
    <2> QED BY <1>0, <2>1, <2>2, <2>3 DEF Reporting, Channel, Outcomes
  <1>2. CASE CloseJoins
    <2>1. wt \in {"done", "exit"} /\ lastErr' = wtErr /\ errChan' = "drained"
      BY <1>0, <1>2, CheckErrFinds DEF CloseJoins
    <2>2. /\ closed /\ cl = "join" /\ UNCHANGED <<trailer, closed, wrote>>
          /\ \/ lastErr' = "err" /\ outcome' = "err" /\ cl' = "idle"
             \/ lastErr' # "err" /\ cl' = "trail" /\ UNCHANGED outcome
      BY <1>0, <1>2 DEF CloseJoins, TypeInv, ClientPlaces
    <2>3. wtErr \in {"nil", "err"}
      BY <1>0 DEF TypeInv, TypeOK, WriterTypes
    <2>4. Channel'
      BY <1>0, <2>1, <2>3 DEF Channel
    <2>5. Outcomes'
      BY <1>0, <2>1, <2>2, <2>3 DEF Channel, Outcomes
    <2> QED BY <2>4, <2>5 DEF Reporting
  <1>3. CASE CloseWritesTrailer
    <2>1. /\ cl = "trail" /\ closed /\ cl' = "idle"
          /\ UNCHANGED <<lastErr, errChan, wrote, closed>>
          /\ \/ outcome' = "ok"
             \/ "trailer" \in Faults /\ outcome' = "err"
      BY <1>0, <1>3
      DEF CloseWritesTrailer, TypeInv, ClientPlaces, shared
    <2> QED BY <1>0, <2>1 DEF Reporting, Channel, Outcomes
  <1>4. CASE ~WriteFails /\ ~CloseJoins /\ ~CloseWritesTrailer
    <2>0. UNCHANGED <<lastErr, errChan, wrote, outcome, trailer>>
      BY <1>4
      DEF Calls, Client, Write, CloseStarts, WriteGetsPipe, WriteFills,
          WriteShuts, CloseEndsInput, shared
    <2>1. Channel'
      BY <1>0, <2>0 DEF Channel
    <2>2. CASE outcome = "none"
      <3>1. cl' = "trail" => cl = "trail"
        BY <1>4
        DEF Calls, Client, Write, CloseStarts, WriteGetsPipe, WriteFills,
            WriteShuts, CloseEndsInput
      <3> QED BY <1>0, <2>0, <2>1, <2>2, <3>1 DEF Reporting, Outcomes
    <2>3. CASE outcome # "none"
      <3>1. cl = "idle" /\ closed
        BY <1>0, <2>3 DEF Outcomes
      <3>2. FALSE
        BY <3>1
        DEF Calls, Client, Write, CloseStarts, WriteGetsPipe, WriteFills,
            WriteShuts, WriteFails, CloseEndsInput, CloseJoins,
            CloseWritesTrailer
      <3> QED BY <3>2
    <2> QED BY <2>2, <2>3
  <1> QED BY <1>1, <1>2, <1>3, <1>4

LEMMA ReportingWriter ==
    ASSUME FlowInv, Reporting, writerSteps
    PROVE  Reporting'
  <1>0. /\ TypeInv /\ Channel /\ Outcomes
        /\ UNCHANGED <<cl, closed, lastErr, wrote, outcome, trailer>>
    BY WriterFrame DEF FlowInv, OwnInv, Reporting, client
  <1>1. /\ wt # "exit" /\ (wt = "done" => UNCHANGED wtErr)
        /\ wt' \in {"done", "exit"} => wt \in {"report", "done"}
        /\ wt = "report" => wt' = "done" /\ writerReports
        /\ wt = "done" => wt' = "exit"
    BY DEF writerSteps, WriterAt, writerAnnounces, writerGets, writerEnds,
           writerCopies, writerRestores, writerAsserts, writerReports,
           writerTerminates
  <1>2. CASE wt = "report"
    <2>1. errChan' = wtErr /\ UNCHANGED wtErr
      BY <1>1, <1>2 DEF writerReports, Report
    <2>2. wtErr \in {"nil", "err"}
      BY <1>0 DEF TypeInv, TypeOK, WriterTypes
    <2> QED BY <1>0, <1>1, <1>2, <2>1, <2>2 DEF Reporting, Channel, Outcomes
  <1>3. CASE wt # "report"
    <2>1. UNCHANGED errChan
      BY <1>3, WriterFrame DEF writerReports, WriterAt
    <2>2. errChan # "open" => UNCHANGED wtErr
      BY <1>0, <1>1 DEF Channel
    <2>3. Channel'
      BY <1>0, <1>1, <1>3, <2>1, <2>2 DEF Channel
    <2>4. Outcomes'
      BY <1>0, <2>1, <2>2 DEF Outcomes
    <2> QED BY <2>3, <2>4 DEF Reporting
  <1> QED BY <1>2, <1>3

LEMMA ReportingStep == FlowInv /\ Reporting /\ [Next]_vars => Reporting'
  <1> SUFFICES ASSUME FlowInv, Reporting, [Next]_vars PROVE Reporting'
    OBVIOUS
  <1>1. CASE UNCHANGED <<client, errChan, writer, trailer>>
    BY <1>1 DEF Reporting, Channel, Outcomes, client, writer
  <1>2. CASE UNCHANGED vars
    BY <1>1, <1>2 DEF vars, shared
  <1> QED BY <1>1, <1>2, Steps, ReportingCalls, ReportingWriter,
             MonitorFrame, WorkFrame

\* An error is never forgotten, in whichever order the client, the workers
\* and the writer goroutine meet it: after a failed or partial write to the
\* underlying writer, a failed index update, a failed encoding that was met,
\* or a Write that returned an error, Close does not report success.
THEOREM ErrorsAreReported == Spec => []ErrorsReachClose
  <1>1. Init => Reporting
    BY DEF Init, Reporting, Channel, Outcomes
  <1>2. FlowInv /\ Reporting /\ [Next]_vars => Reporting'
    BY ReportingStep
  <1>3. FlowInv /\ Reporting => ErrorsReachClose
    BY DEF FlowInv, Consumed, Reporting, Channel, Outcomes, ErrorsReachClose
  <1> QED BY <1>1, <1>2, <1>3, FlowInvariant, PTL DEF Spec
-----------------------------------------------------------------------------
(***************************************************************************)
(* The blocks: from what the client writes to what the file lists.         *)
(***************************************************************************)
\* The client is done with input pipe i.
Final(i) == i < idx /\ i # pipe

\* Input pipe i waits for a worker or is with one.
Owned(i) == i \in inPool.ready \cup inPool.active

\* A pipe a worker may find closed is one the client has finished, with data
\* in it: a Write never leaves the pipe it asked for empty.
InputFinal ==
    ~doneChan =>
      /\ \A i \in inPool.shut : Owned(i) => Final(i)
      /\ \A i \in Idx : Final(i) /\ Owned(i) => Len(chunk[i]) > 0
      /\ cl = "idle" /\ pipe # NoIdx /\ Owned(pipe) => Len(chunk[pipe]) > 0
      /\ cl = "check" => pipe # NoIdx /\ ~Owned(pipe)

\* Output pipe i holds all of a finished chunk.
Complete(i) ==
    /\ Final(i)
    /\ block[i].data = chunk[i] /\ block[i].size = Len(chunk[i])

\* A block without an error is never empty, and complete unless the output
\* may overflow while the client still writes to the chunk.
Good(i) == block[i].size > 0 /\ ("run" \notin Overflows => Complete(i))

\* FINISH is reached with the whole of a finished chunk consumed, a literal
\* block is made of a chunk with data, and what is sealed without an error
\* is good.
Encodes(w) ==
    /\ wk[w] = "finish" =>
         /\ Final(wkIdx[w])
         /\ wkRead[w] > 0 /\ wkRead[w] = Len(chunk[wkIdx[w]])
    /\ wk[w] = "literal" =>
         /\ Len(chunk[wkIdx[w]]) > 0
         /\ "run" \notin Overflows => Final(wkIdx[w])
    /\ wk[w] = "seal" /\ ~wkErr[w] => Good(wkIdx[w])

Sealed(i) == i \in outPool.shut => block[i].err \/ Good(i)

Encoding ==
    ~doneChan =>
      /\ \A w \in Workers : Encodes(w)
      /\ \A i \in Idx : Sealed(i)

\* Up to the first error every block in the file has its record; an error
\* leaves part of a block or a block without a record behind.
Listed ==
    /\ wtErr = "nil" => Len(records) = Len(file)
    /\ wtErr = "err" => torn \/ Len(records) # Len(file)

BlockInv == FlowInv /\ InputFinal /\ Encoding /\ Listed

\* What the client has finished stays as it is, and no pipe loses data.
LEMMA ChunksStay ==
    ASSUME TypeInv, [Next]_vars, NEW i \in Idx
    PROVE  /\ Final(i) => Final(i)' /\ chunk'[i] = chunk[i]
           /\ Len(chunk[i]) > 0 => Len(chunk'[i]) > 0
  <1>0. /\ idx \in Nat /\ i \in Nat /\ pipe \in Idx \cup {NoIdx}
        /\ Len(chunk[i]) \in Nat
    BY IdxNat, LenProperties DEF TypeInv, TypeOK, ClientTypes, SharedTypes
  <1>1. CASE WriteGetsPipe
    <2>1. /\ UNCHANGED chunk
          /\ UNCHANGED <<idx, pipe>> \/ (idx' = idx + 1 /\ pipe' = idx)
      BY <1>1 DEF WriteGetsPipe, shared
    <2> QED BY <1>0, <2>1 DEF Final
  <1>2. CASE WriteFills
    <2>1. UNCHANGED <<idx, pipe>>
      BY <1>2 DEF WriteFills
    <2>2. CASE pipe \in inPool.shut
      <3>1. UNCHANGED chunk
        BY <1>2, <2>2 DEF WriteFills
      <3> QED BY <2>1, <3>1 DEF Final
    <2>3. CASE pipe \notin inPool.shut
      <3>1. PICK k \in 0 .. todo :
              /\ \A j \in Idx : j # pipe => chunk'[j] = chunk[j]
              /\ Len(chunk'[pipe]) = Len(chunk[pipe]) + k
        BY <1>2, <2>3, FillsFields
      <3>2. k \in Nat
        BY DEF TypeInv, TypeOK, ClientTypes
      <3>3. Len(chunk[i]) > 0 => Len(chunk'[i]) > 0
        BY <1>0, <3>1, <3>2
      <3> QED BY <2>1, <3>1, <3>3 DEF Final
    <2> QED BY <2>2, <2>3
  <1>3. CASE WriteShuts \/ CloseStarts
    <2>1. UNCHANGED <<idx, chunk>> /\ pipe' = NoIdx
      BY <1>3 DEF WriteShuts, CloseStarts, shared
    <2> QED BY <1>0, <2>1 DEF Final, NoIdx
  <1>4. CASE UNCHANGED <<idx, pipe, chunk>>
    BY <1>4 DEF Final
  <1>5. CASE UNCHANGED vars
    BY <1>4, <1>5 DEF vars, client, shared
  <1>6. CASE Calls
    BY <1>1, <1>2, <1>3, <1>4, <1>6
    DEF Calls, Client, Write, WriteFails, CloseEndsInput, CloseJoins,
        CloseWritesTrailer, shared
  <1>7. CASE monitor \/ groupWait \/ groupEnds
    BY <1>4, <1>7, MonitorFrame DEF client
  <1>8. ASSUME NEW w \in Workers, Work(w)
        PROVE  UNCHANGED <<idx, pipe, chunk>>
    BY <1>8, WorkFrame DEF client
  <1>9. CASE writerSteps
    BY <1>4, <1>9, WriterFrame DEF client
  <1> QED BY <1>4, <1>5, <1>6, <1>7, <1>8, <1>9, Steps

LEMMA InputFinalStep ==
    ASSUME FlowInv, InputFinal, [Next]_vars
    PROVE  InputFinal'
  <1>0. /\ OwnInv /\ TypeInv /\ idx \in Nat /\ Idx \subseteq Nat
        /\ NoIdx \notin Nat /\ pipe \in Idx \cup {NoIdx}
        /\ chunk \in [Idx -> Seq(Unit)]
        /\ \A i \in Idx : Len(chunk[i]) \in Nat
    <2>1. OwnInv /\ TypeInv
      BY DEF FlowInv, OwnInv
    <2>2. pipe \in Idx \cup {NoIdx} /\ chunk \in [Idx -> Seq(Unit)]
      BY <2>1 DEF TypeInv, TypeOK, ClientTypes, SharedTypes
    <2>3. \A i \in Idx : Len(chunk[i]) \in Nat
      BY <2>2, LenProperties
    <2> QED BY <2>1, <2>2, <2>3, PoolsTyped, IdxNat DEF NoIdx
  <1> SUFFICES ASSUME ~doneChan'
               PROVE  /\ \A i \in inPool'.shut : Owned(i)' => Final(i)'
                      /\ \A i \in Idx : Final(i)' /\ Owned(i)' =>
                           Len(chunk'[i]) > 0
                      /\ cl' = "idle" /\ pipe' # NoIdx /\ Owned(pipe)' =>
                           Len(chunk[pipe])' > 0
                      /\ cl' = "check" => pipe' # NoIdx /\ ~Owned(pipe)'
    BY DEF InputFinal
  <1>1. /\ ~doneChan /\ ~inPool.dead
        /\ \A i \in inPool.ready \cup inPool.active \cup inPool.shut :
             i \in Idx /\ i < idx
        /\ inPool.ready \cap inPool.active = {}
    <2>1. ~doneChan /\ ~inPool.dead
      BY <1>0, DoneStays DEF OwnInv, Phases, ChannelPhases, InPhases
    <2>2. inPool \in Pools(Idx)
      BY <1>0, PoolsTyped
    <2> QED BY <1>0, <2>1, <2>2 DEF OwnInv, InOwned, Pools, PoolType
  <1>2. /\ \A i \in inPool.shut : Owned(i) => Final(i)
        /\ \A i \in Idx : Final(i) /\ Owned(i) => Len(chunk[i]) > 0
        /\ cl = "idle" /\ pipe # NoIdx /\ Owned(pipe) => Len(chunk[pipe]) > 0
        /\ cl = "check" => pipe # NoIdx /\ ~Owned(pipe)
    BY <1>1 DEF InputFinal
  <1>3. ASSUME UNCHANGED <<idx, pipe, chunk>>,
               cl' = cl \/ cl' \notin {"idle", "check"},
               \A i \in inPool'.shut : Owned(i)' => i \in inPool.shut,
               \A i \in Idx \cup {NoIdx} : Owned(i)' => Owned(i)
        PROVE  InputFinal'
    <2>1. ASSUME NEW i \in inPool'.shut, Owned(i)' PROVE Final(i)'
      <3>1. i \in inPool.shut /\ i \in Idx /\ Owned(i)
        BY <1>1, <1>3, <2>1
      <3> QED BY <1>2, <1>3, <3>1 DEF Final
    <2>2. ASSUME NEW i \in Idx, Final(i)', Owned(i)' PROVE Len(chunk'[i]) > 0
      BY <1>2, <1>3, <2>2 DEF Final
    <2> QED BY <1>0, <1>2, <1>3, <2>1, <2>2 DEF InputFinal
  <1>4. CASE WriteGetsPipe
    <2>1. ~inPool.closed /\ cl = "loop"
      BY <1>0, <1>1, <1>4
      DEF WriteGetsPipe, OwnInv, Phases, InPhases, TypeInv, ClientPlaces
    <2>2. /\ UNCHANGED <<cl, chunk>>
          /\ idx \in Idx /\ idx' = idx + 1 /\ pipe = NoIdx /\ pipe' = idx
          /\ inPool'.ready = inPool.ready \cup {idx}
          /\ inPool'.active = inPool.active /\ inPool'.shut = inPool.shut
      BY <1>0, <1>4, <2>1, WriteGetsPipeEffect DEF WriteGetsPipe, shared
    <2>3. idx \notin inPool.shut
      BY <1>0, <1>1
    <2>4. \A i \in Idx : i # idx => (Owned(i)' <=> Owned(i))
      BY <2>2 DEF Owned
    <2>5. \A i \in Idx : Final(i)' <=> Final(i)
      BY <1>0, <2>2 DEF Final
    <2> QED BY <1>1, <1>2, <2>1, <2>2, <2>3, <2>4, <2>5 DEF Final
  <1>5. CASE WriteFills
    <2>1. UNCHANGED <<idx, pipe, inPool>> /\ pipe \in Idx /\ cl = "loop"
      BY <1>0, <1>5 DEF WriteFills
    <2>2. \A i : (Owned(i)' <=> Owned(i)) /\ (Final(i)' <=> Final(i))
      BY <2>1 DEF Owned, Final
    <2>3. CASE pipe \in inPool.shut
      <3>1. UNCHANGED chunk /\ cl' = "check"
        BY <1>5, <2>3 DEF WriteFills
      <3>2. ~Owned(pipe)
        BY <1>2, <2>3 DEF Final
      <3> QED BY <1>0, <1>2, <2>1, <2>2, <3>1, <3>2
    <2>4. CASE pipe \notin inPool.shut
      <3>1. PICK k \in 0 .. todo :
              /\ \A j \in Idx : j # pipe => chunk'[j] = chunk[j]
              /\ Len(chunk'[pipe]) = Len(chunk[pipe]) + k
              /\ \/ cl' = "idle" /\ k = todo
                 \/ cl' = "full"
        BY <1>0, <1>5, <2>4, FillsFields
      <3>2. todo > 0 /\ todo \in Nat
        BY <1>0, <2>1 DEF TypeInv, TypeOK, ClientTypes, ClientPlaces
      <3>3. cl' = "idle" => Len(chunk'[pipe]) > 0
        BY <1>0, <2>1, <3>1, <3>2
      <3> QED BY <1>2, <2>1, <2>2, <3>1, <3>3 DEF Final
    <2> QED BY <2>3, <2>4
  <1>6. CASE WriteShuts \/ CloseStarts
    <2>1. /\ UNCHANGED <<idx, chunk>> /\ pipe' = NoIdx
          /\ cl' \notin {"idle", "check"}
          /\ inPool'.ready = inPool.ready /\ inPool'.active = inPool.active
          /\ \A i \in inPool'.shut : i \in inPool.shut \/ i = pipe
      BY <1>0, <1>6, WriteShutsEffect, CloseStartsEffect
      DEF WriteShuts, CloseStarts, shared
    <2>2. pipe # NoIdx => pipe < idx
      BY <1>0 DEF TypeInv, ClientPlaces
    <2>3. \A i : Owned(i)' <=> Owned(i)
      BY <2>1 DEF Owned
    <2>4. pipe \in Idx /\ Owned(pipe) => Len(chunk[pipe]) > 0
      <3>1. WriteShuts => Len(chunk[pipe]) = ChunkSize
        BY <1>0 DEF WriteShuts, TypeInv, ClientPlaces
      <3>2. CloseStarts => cl = "idle"
        BY DEF CloseStarts
      <3>3. CASE WriteShuts
        BY <3>1, <3>3, WriterAssumption
      <3>4. CASE CloseStarts
        BY <1>0, <1>2, <3>2, <3>4
      <3> QED BY <1>6, <3>3, <3>4
    <2>5. \A i \in Idx : Final(i)' => Final(i) \/ i = pipe
      BY <2>1 DEF Final
    <2>6. ASSUME NEW i \in inPool'.shut, Owned(i)' PROVE Final(i)'
      <3>1. i \in Idx
        BY <1>1, <2>3, <2>6 DEF Owned
      <3>2. Final(i) \/ i = pipe
        BY <1>2, <2>1, <2>3, <2>6
      <3> QED BY <1>0, <2>1, <2>2, <3>1, <3>2 DEF Final
    <2> QED BY <1>2, <2>1, <2>3, <2>4, <2>5, <2>6
  <1>7. CASE WriteFails
    <2>1. UNCHANGED <<idx, chunk, pipe, inPool>> /\ cl' = "idle" /\ cl = "check"
      BY <1>7 DEF WriteFails
    <2>2. \A i : (Owned(i)' <=> Owned(i)) /\ (Final(i)' <=> Final(i))
      BY <2>1 DEF Owned, Final
    <2> QED BY <1>2, <2>1, <2>2
  <1>8. CASE Calls
    <2>1. CASE CloseEndsInput
      <3>1. UNCHANGED <<idx, pipe, chunk>> /\ cl' = "join"
        BY <2>1 DEF CloseEndsInput, shared
      <3> QED BY <1>0, <1>3, <2>1, <3>1, CloseEndsInputEffect
              DEF Owned, InputFinal
    <2>2. CASE \E n \in 1 .. MaxWrite : Write(n)
      <3>1. UNCHANGED <<idx, pipe, chunk, inPool>> /\ cl' = "loop"
        BY <2>2 DEF Write, shared
      <3> QED BY <1>3, <3>1 DEF Owned, InputFinal
    <2>3. CASE CloseJoins \/ CloseWritesTrailer
      <3>1. UNCHANGED <<idx, pipe, chunk, inPool>> /\ cl' \in {"idle", "trail"}
        BY <2>3 DEF CloseJoins, CloseWritesTrailer, shared
      <3>2. pipe = NoIdx
        BY <1>0, <2>3
        DEF CloseJoins, CloseWritesTrailer, TypeInv, ClientPlaces
      <3>3. \A i : (Owned(i)' <=> Owned(i)) /\ (Final(i)' <=> Final(i))
        BY <3>1 DEF Owned, Final
      <3> QED BY <1>2, <3>1, <3>2, <3>3
    <2> QED BY <1>4, <1>5, <1>6, <1>7, <1>8, <2>1, <2>2, <2>3
            DEF Calls, Client, InputFinal
  <1>9. CASE monitor \/ groupWait \/ groupEnds
    <2>1. ~monitorEndsIn
      BY <1>0, <1>1
      DEF OwnInv, Phases, ChannelPhases, monitorEndsIn
    <2>2. /\ UNCHANGED <<idx, pipe, chunk, cl>>
          /\ inPool'.ready = inPool.ready /\ inPool'.active = inPool.active
          /\ inPool'.shut = inPool.shut
      BY <1>0, <1>9, <2>1, MonitorFrame, MonitorEffect DEF client
    <2> QED BY <1>3, <2>2 DEF Owned, InputFinal
  <1>10. ASSUME NEW w \in Workers, Work(w) PROVE InputFinal'
    <2>1. UNCHANGED <<idx, pipe, chunk, cl>>
      BY <1>10, WorkFrame DEF client
    <2>2. CASE workerGets(w)
      BY <1>0, <1>3, <2>1, <2>2, WorkerGetsEffect DEF Owned
    <2>3. CASE workerRestores(w)
      <3>1. /\ inPool'.ready = inPool.ready
            /\ inPool'.active = inPool.active \ {wkIdx[w]}
            /\ inPool'.shut = inPool.shut \cup {wkIdx[w]}
            /\ wkIdx[w] \in inPool.active
        BY <1>0, <2>3, WorkerRestoresEffect DEF OwnInv, InOwned, Using
      <3> QED BY <1>1, <1>3, <2>1, <3>1 DEF Owned
    <2>4. CASE UNCHANGED inPool
      BY <1>3, <2>1, <2>4 DEF Owned
    <2> QED BY <1>10, <2>2, <2>3, <2>4, WorkFrame
  <1>11. CASE writerSteps
    BY <1>3, <1>11, WriterFrame DEF client, Owned, InputFinal
  <1>12. CASE UNCHANGED vars
    BY <1>3, <1>12 DEF vars, client, shared, Owned, InputFinal
  <1> QED BY <1>8, <1>9, <1>10, <1>11, <1>12, Steps DEF InputFinal

LEMMA GoodStays ==
    ASSUME TypeInv, [Next]_vars, NEW i \in Idx, Good(i), block'[i] = block[i]
    PROVE  Good(i)'
  BY ChunksStay DEF Good, Complete

LEMMA SealedStays ==
    ASSUME TypeInv, [Next]_vars, NEW i \in Idx, Sealed(i),
           i \in outPool'.shut =>
             i \in outPool.shut /\ block'[i] = block[i]
    PROVE  Sealed(i)'
  BY GoodStays DEF Sealed

LEMMA EncodesStays ==
    ASSUME TypeInv, [Next]_vars, NEW w \in Workers, Encodes(w),
           wk'[w] \in {"finish", "literal", "seal"} =>
             /\ wk'[w] = wk[w] /\ wkIdx'[w] = wkIdx[w]
             /\ wkRead'[w] = wkRead[w] /\ wkErr'[w] = wkErr[w]
             /\ block'[wkIdx[w]] = block[wkIdx[w]]
    PROVE  Encodes(w)'
  <1>0. wkIdx[w] \in Idx
    BY PoolsTyped
  <1>1. ASSUME wk'[w] = "finish"
        PROVE  /\ Final(wkIdx[w])'
               /\ wkRead'[w] > 0 /\ wkRead'[w] = Len(chunk'[wkIdx'[w]])
    BY <1>0, <1>1, ChunksStay DEF Encodes, Final
  <1>2. ASSUME wk'[w] = "literal"
        PROVE  /\ Len(chunk'[wkIdx'[w]]) > 0
               /\ "run" \notin Overflows => Final(wkIdx[w])'
    BY <1>0, <1>2, ChunksStay DEF Encodes, Final
  <1>3. ASSUME wk'[w] = "seal", ~wkErr'[w] PROVE Good(wkIdx[w])'
    <2>1. Good(wkIdx[w]) /\ wkIdx'[w] = wkIdx[w]
      BY <1>3 DEF Encodes
    <2>2. \A i \in Idx : Good(i) /\ block'[i] = block[i] => Good(i)'
      BY GoodStays
    <2> QED BY <1>0, <1>3, <2>1, <2>2 DEF Good, Complete, Final
  <1> QED BY <1>1, <1>2, <1>3 DEF Encodes

LEMMA LeaveFields ==
    ASSUME TypeInv, NEW w \in Workers, NEW d, Leave(w, d)
    PROVE  /\ block'[wkIdx[w]] = [data |-> d, size |-> Len(d), err |-> FALSE]
           /\ \A i \in Idx : i # wkIdx[w] => block'[i] = block[i]
  <1>1. /\ wkIdx[w] \in Idx
        /\ block \in [Idx -> [data : Seq(Unit), size : Nat, err : BOOLEAN]]
    BY PoolsTyped DEF TypeInv, TypeOK, SharedTypes
  <1> QED BY <1>1 DEF Leave

\* A worker touches its own variables and its own output pipe only.
LEMMA WorkLocal ==
    ASSUME TypeInv, NEW w \in Workers, Work(w)
    PROVE  /\ \A v \in Workers : v # w =>
                /\ wk'[v] = wk[v] /\ wkIdx'[v] = wkIdx[v]
                /\ wkRead'[v] = wkRead[v] /\ wkErr'[v] = wkErr[v]
           /\ \A i \in Idx : i # wkIdx[w] => block'[i] = block[i]
           /\ ~Using(w) => UNCHANGED block
  <1>1. \A v \in Workers : v # w => wk'[v] = wk[v] /\ wkIdx'[v] = wkIdx[v]
    BY WorkSteps, WorkFrame, WorkerGetsEffect, WorkerGetsOutputEffect,
       WorkerSealsEffect, WorkerRestoresEffect, WorkerStaysEffect
  <1>2. wkRead \in [Workers -> Nat] /\ wkErr \in [Workers -> BOOLEAN]
    BY DEF TypeInv, TypeOK, WorkerTypes
  <1>3. /\ UNCHANGED wkRead
           \/ \E n : wkRead' = [wkRead EXCEPT ![w] = n]
        /\ UNCHANGED wkErr
           \/ \E b : wkErr' = [wkErr EXCEPT ![w] = b]
    BY DEF Work, workerGets, workerEnds, workerGetsOutput, workerRefused,
           encodeRuns, encodeMeetsEOF, encodeOverflows, encodeFinishes,
           finishOverflows, encodeLiteral, encodeFails, workerSeals,
           workerRestores, workerSelects
  <1>4. \A v \in Workers : v # w =>
          wkRead'[v] = wkRead[v] /\ wkErr'[v] = wkErr[v]
    BY <1>2, <1>3
  <1>5. \/ UNCHANGED block
        \/ Using(w) /\ \E d : Leave(w, d)
        \/ Using(w) /\ \E b : block' = [block EXCEPT ![wkIdx[w]] = b]
    BY DEF Work, WorkerAt, workerGets, workerEnds, workerGetsOutput,
           workerRefused, encodeRuns, encodeMeetsEOF, encodeOverflows,
           encodeFinishes, finishOverflows, encodeLiteral, encodeFails,
           workerSeals, workerRestores, workerSelects, Using
  <1>6. \A i \in Idx : i # wkIdx[w] => block'[i] = block[i]
    BY <1>5, LeaveFields DEF TypeInv, TypeOK, SharedTypes
  <1> QED BY <1>1, <1>4, <1>5, <1>6

\* What the encoding steps bring about.
LEMMA EncodesWorker ==
    ASSUME FlowInv, InputFinal, Encoding, NEW w \in Workers, Work(w),
           [Next]_vars, ~doneChan
    PROVE  Encodes(w)'
  <1>0. /\ OwnInv /\ TypeInv /\ Encodes(w) /\ wkIdx[w] \in Idx
        /\ chunk \in [Idx -> Seq(Unit)] /\ UNCHANGED <<client, chunk>>
        /\ block \in [Idx -> [data : Seq(Unit), size : Nat, err : BOOLEAN]]
    BY PoolsTyped, WorkFrame
    DEF FlowInv, OwnInv, Encoding, TypeInv, TypeOK, SharedTypes
  <1>1. /\ Len(chunk[wkIdx[w]]) \in Nat /\ wkRead[w] \in Nat
        /\ wkRead[w] <= Len(chunk[wkIdx[w]])
    BY <1>0, LenProperties
    DEF TypeInv, TypeOK, WorkerTypes, ReadInRange
  <1>2. \A i : Final(i)' <=> Final(i)
    BY <1>0 DEF Final, client
  <1>3. CASE encodeMeetsEOF(w)
    <2>1. /\ wk[w] = "run" /\ UNCHANGED <<wkIdx, wkRead>>
          /\ wkIdx[w] \in inPool.shut /\ ~Unread(w)
      BY <1>3 DEF encodeMeetsEOF, WorkerAt
    <2>2. wk'[w] = "finish"
      BY <1>0, <1>3, WorkerMoves DEF encodeMeetsEOF, WorkerPlace
    <2>3. Owned(wkIdx[w])
      BY <1>0, <2>1 DEF OwnInv, InOwned, Using, Owned
    <2>4. Final(wkIdx[w]) /\ Len(chunk[wkIdx[w]]) > 0
      BY <1>0, <2>1, <2>3 DEF InputFinal
    <2>5. wkRead[w] = Len(chunk[wkIdx[w]])
      BY <1>1, <2>1 DEF Unread
    <2> QED BY <1>0, <1>2, <2>1, <2>2, <2>4, <2>5 DEF Encodes
  <1>4. CASE encodeOverflows(w)
    <2>1. /\ wk[w] = "run" /\ UNCHANGED wkIdx /\ Unread(w)
          /\ "run" \in Overflows \/ wkIdx[w] \in inPool.shut
      BY <1>4 DEF encodeOverflows, WorkerAt
    <2>2. wk'[w] = "literal"
      BY <1>0, <1>4, WorkerMoves DEF encodeOverflows, WorkerPlace
    <2>3. Owned(wkIdx[w])
      BY <1>0, <2>1 DEF OwnInv, InOwned, Using, Owned
    <2>4. "run" \notin Overflows => Final(wkIdx[w])
      BY <1>0, <2>1, <2>3 DEF InputFinal
    <2>5. Len(chunk[wkIdx[w]]) > 0
      BY <1>1, <2>1 DEF Unread
    <2> QED BY <1>0, <1>2, <2>1, <2>2, <2>4, <2>5 DEF Encodes
  <1>5. CASE finishOverflows(w)
    <2>1. wk[w] = "finish" /\ UNCHANGED wkIdx
      BY <1>5 DEF finishOverflows, WorkerAt
    <2>2. wk'[w] = "literal"
      BY <1>0, <1>5, WorkerMoves DEF finishOverflows, WorkerPlace
    <2> QED BY <1>0, <1>2, <2>1, <2>2 DEF Encodes
  <1>6. CASE encodeFinishes(w)
    <2>1. /\ wk[w] = "finish" /\ UNCHANGED wkIdx
          /\ Leave(w, SubSeq(chunk[wkIdx[w]], 1, wkRead[w]))
      BY <1>6 DEF encodeFinishes, WorkerAt
    <2>2. wk'[w] = "seal"
      BY <1>0, <1>6, WorkerMoves DEF encodeFinishes, WorkerPlace
    <2>3. /\ Final(wkIdx[w])
          /\ wkRead[w] > 0 /\ wkRead[w] = Len(chunk[wkIdx[w]])
      BY <1>0, <2>1 DEF Encodes
    <2>4. SubSeq(chunk[wkIdx[w]], 1, wkRead[w]) = chunk[wkIdx[w]]
      BY <1>0, <2>3, SubSeqFull
    <2>5. /\ block'[wkIdx[w]].data = chunk[wkIdx[w]]
          /\ block'[wkIdx[w]].size = Len(chunk[wkIdx[w]])
      BY <1>0, <2>1, <2>4 DEF Leave
    <2> QED BY <1>0, <1>2, <2>1, <2>2, <2>3, <2>5 DEF Encodes, Good, Complete
  <1>7. CASE encodeLiteral(w)
    <2>1. /\ wk[w] = "literal" /\ UNCHANGED wkIdx
          /\ Leave(w, chunk[wkIdx[w]])
      BY <1>7 DEF encodeLiteral, WorkerAt
    <2>2. wk'[w] = "seal"
      BY <1>0, <1>7, WorkerMoves DEF encodeLiteral, WorkerPlace
    <2>3. /\ block'[wkIdx[w]].data = chunk[wkIdx[w]]
          /\ block'[wkIdx[w]].size = Len(chunk[wkIdx[w]])
      BY <1>0, <2>1 DEF Leave
    <2> QED BY <1>0, <1>2, <2>1, <2>2, <2>3 DEF Encodes, Good, Complete
  <1>8. CASE encodeFails(w)
    <2>1. wkErr'[w]
      BY <1>8 DEF encodeFails, TypeInv, TypeOK, WorkerTypes, FlowInv, OwnInv
    <2>2. wk'[w] = "seal"
      BY <1>0, <1>8, WorkerMoves DEF encodeFails, WorkerPlace
    <2> QED BY <2>1, <2>2 DEF Encodes
  <1>9. CASE workerEnds(w) \/ workerRefused(w) \/ encodeRuns(w)
               \/ workerSelects(w)
    <2>1. \E from \in WorkerPlace :
            \E to \in WorkerPlace \ {"finish", "literal", "seal"} :
              WorkerAt(w, from, to)
      BY <1>9 DEF workerEnds, workerRefused, encodeRuns, workerSelects,
                  WorkerPlace
    <2>2. wk'[w] \notin {"finish", "literal", "seal"}
      BY <1>0, <2>1, WorkerMoves
    <2> QED BY <2>2 DEF Encodes
  <1>10. CASE workerGets(w) \/ workerGetsOutput(w) \/ workerSeals(w)
                \/ workerRestores(w)
    <2>1. wk'[w] \notin {"finish", "literal", "seal"}
      BY <1>0, <1>10, WorkerGetsEffect, WorkerGetsOutputEffect,
         WorkerSealsEffect, WorkerRestoresEffect
    <2> QED BY <2>1 DEF Encodes
  <1> QED BY <1>3, <1>4, <1>5, <1>6, <1>7, <1>8, <1>9, <1>10 DEF Work

\* A worker seals its pipe with what Encodes promises, and no worker touches
\* a sealed pipe again.
LEMMA SealedWorker ==
    ASSUME FlowInv, Encoding, NEW w \in Workers, Work(w), [Next]_vars,
           ~doneChan, NEW i \in Idx
    PROVE  Sealed(i)'
  <1>0. /\ OwnInv /\ TypeInv /\ Encodes(w) /\ Sealed(i) /\ wkIdx[w] \in Idx
        /\ ~outPool.dead
    BY PoolsTyped
    DEF FlowInv, OwnInv, Encoding, Phases, ChannelPhases, OutPhases
  <1>1. CASE workerSeals(w) /\ i = wkIdx[w]
    <2>1. /\ block \in [Idx -> [data : Seq(Unit), size : Nat, err : BOOLEAN]]
          /\ wkErr[w] \in BOOLEAN
      BY <1>0 DEF TypeInv, TypeOK, SharedTypes, WorkerTypes
    <2>2. /\ block'[i].data = block[i].data /\ block'[i].size = block[i].size
          /\ block'[i].err = wkErr[w]
      BY <1>1, <2>1 DEF workerSeals
    <2>3. wk[w] = "seal" /\ UNCHANGED <<client, chunk>>
      BY <1>0, <1>1, WorkFrame, WorkerSealsEffect
    <2>4. wkErr[w] \/ Good(i)
      BY <1>0, <1>1, <2>3 DEF Encodes
    <2>5. Good(i) => Good(i)'
      BY <2>2, <2>3 DEF Good, Complete, Final, client
    <2> QED BY <2>2, <2>4, <2>5 DEF Sealed
  <1>2. CASE ~(workerSeals(w) /\ i = wkIdx[w])
    <2>1. i \in outPool'.shut => i \in outPool.shut
      BY <1>0, <1>2, WorkFrame, WorkerGetsOutputEffect, WorkerSealsEffect
    <2>2. ASSUME i \in outPool.shut, ~workerSeals(w) \/ i # wkIdx[w]
          PROVE  block'[i] = block[i]
      <3>1. CASE i # wkIdx[w]
        BY <1>0, <3>1, WorkLocal
      <3>2. CASE i = wkIdx[w] /\ ~workerSeals(w)
        <4>1. ~Filling(w)
          BY <1>0, <2>2, <3>2 DEF OwnInv, OutOwned
        <4>2. wk[w] # "out"
          <5>1. wk[w] = "out" => Fresh(i)
            BY <3>2 DEF Fresh
          <5> QED BY <1>0, <2>2, <5>1, IdxNat DEF OwnInv, FreshUnseen
        <4>3. UNCHANGED block
          BY <3>2, <4>1, <4>2
          DEF Work, WorkerAt, workerGets, workerEnds, workerGetsOutput,
              workerRefused, encodeRuns, encodeMeetsEOF, encodeOverflows,
              encodeFinishes, finishOverflows, encodeLiteral, encodeFails,
              workerRestores, workerSelects, Filling
        <4> QED BY <4>3
      <3> QED BY <2>2, <3>1, <3>2
    <2> QED BY <1>0, <1>2, <2>1, <2>2, SealedStays
  <1> QED BY <1>1, <1>2

LEMMA EncodingStep ==
    ASSUME FlowInv, InputFinal, Encoding, [Next]_vars
    PROVE  Encoding'
  <1> SUFFICES ASSUME ~doneChan'
               PROVE  /\ \A w \in Workers : Encodes(w)'
                      /\ \A i \in Idx : Sealed(i)'
    BY DEF Encoding
  <1>0. /\ OwnInv /\ TypeInv /\ ~doneChan
        /\ \A w \in Workers : Encodes(w) /\ wkIdx[w] \in Idx
        /\ \A i \in Idx : Sealed(i)
    BY DoneStays, PoolsTyped DEF FlowInv, OwnInv, Encoding
  <1>1. ASSUME UNCHANGED <<wkIdx, wkRead, wkErr, block>>,
               \A w \in Workers : wk'[w] = wk[w] \/ wk'[w] = "get",
               \A i \in outPool'.shut : i \in outPool.shut
        PROVE  /\ \A w \in Workers : Encodes(w)'
               /\ \A i \in Idx : Sealed(i)'
    <2>1. ASSUME NEW w \in Workers PROVE Encodes(w)'
      BY <1>0, <1>1, EncodesStays
    <2>2. ASSUME NEW i \in Idx PROVE Sealed(i)'
      BY <1>0, <1>1, SealedStays
    <2> QED BY <2>1, <2>2
  <1>2. CASE Calls
    BY <1>1, <1>2, CallsFrame DEF worker
  <1>3. CASE monitor \/ groupWait \/ groupEnds
    <2>1. ~monitorEndsOut
      BY <1>0 DEF OwnInv, Phases, ChannelPhases, monitorEndsOut
    <2>2. \A i \in outPool'.shut : i \in outPool.shut
      BY <1>0, <1>3, <2>1, MonitorEffect
    <2>3. \A w \in Workers : wk'[w] = wk[w] \/ wk'[w] = "get"
      BY <1>0, <1>3, MonitorMoves
    <2> QED BY <1>1, <1>3, <2>2, <2>3, MonitorFrame
  <1>4. ASSUME NEW w \in Workers, Work(w)
        PROVE  /\ \A v \in Workers : Encodes(v)'
               /\ \A i \in Idx : Sealed(i)'
    <2>1. ASSUME NEW v \in Workers, v # w PROVE Encodes(v)'
      <3>1. /\ wk'[v] = wk[v] /\ wkIdx'[v] = wkIdx[v]
            /\ wkRead'[v] = wkRead[v] /\ wkErr'[v] = wkErr[v]
        BY <1>0, <1>4, <2>1, WorkLocal
      <3>2. ASSUME wk[v] \in {"finish", "literal", "seal"}
            PROVE  block'[wkIdx[v]] = block[wkIdx[v]]
        <4>1. CASE ~Using(w)
          BY <1>0, <1>4, <4>1, WorkLocal
        <4>2. CASE Using(w)
          <5>1. wkIdx[v] # wkIdx[w]
            BY <1>0, <2>1, <3>2, <4>2 DEF OwnInv, InOwned, Using
          <5> QED BY <1>0, <1>4, <5>1, WorkLocal
        <4> QED BY <4>1, <4>2
      <3> QED BY <1>0, <3>1, <3>2, EncodesStays
    <2>2. Encodes(w)'
      BY <1>0, <1>4, EncodesWorker
    <2>3. ASSUME NEW i \in Idx PROVE Sealed(i)'
      BY <1>0, <1>4, SealedWorker
    <2> QED BY <2>1, <2>2, <2>3
  <1>5. CASE writerSteps
    <2>1. UNCHANGED <<wk, wkIdx, wkRead, wkErr, block>>
      BY <1>5, WriterFrame DEF worker
    <2>2. \A i \in outPool'.shut : i \in outPool.shut
      <3>1. CASE writerRestores
        BY <1>0, <3>1, WriterRestoresEffect DEF OwnInv, OutOwned
      <3>2. CASE ~writerRestores
        BY <1>0, <1>5, <3>2, WriterAnnouncesEffect, WriterGetsEffect,
           WriterEndsEffect, WriterAssertsEffect, WriterQuietEffect
        DEF writerSteps
      <3> QED BY <3>1, <3>2
    <2> QED BY <1>1, <2>1, <2>2
  <1>6. CASE UNCHANGED vars
    BY <1>1, <1>6 DEF vars, shared, worker
  <1> QED BY <1>2, <1>3, <1>4, <1>5, <1>6, Steps

\* The writer goroutine meets a sealed pipe: without an error it holds data,
\* so that the block gets its record.
LEMMA HeldIsSealed ==
    ASSUME BlockInv, writerCopies
    PROVE  /\ Held \in Idx /\ wt = "copy" /\ ~doneChan
           /\ block[Held].err \/ (Good(Held) /\ block[Held].size > 0)
  <1>1. /\ wt = "copy" /\ Held \in outPool.shut
        /\ OwnInv /\ TypeInv /\ Encoding
    BY DEF writerCopies, WriterAt, BlockInv, FlowInv, OwnInv
  <1>2. ~doneChan /\ Held \in Idx
    BY <1>1 DEF OwnInv, Phases, ChannelPhases, TypeInv, OutInRange
  <1>3. Sealed(Held)
    BY <1>1, <1>2 DEF Encoding
  <1> QED BY <1>1, <1>2, <1>3 DEF Sealed, Good

LEMMA ListedStep ==
    ASSUME BlockInv, [Next]_vars
    PROVE  Listed'
  <1>0. /\ TypeInv /\ Consumed /\ Listed
        /\ file \in Seq(Seq(Unit)) /\ records \in Seq(Nat)
        /\ Len(file) \in Nat /\ Len(records) \in Nat
        /\ block \in [Idx -> [data : Seq(Unit), size : Nat, err : BOOLEAN]]
    BY LenProperties
    DEF BlockInv, FlowInv, OwnInv, TypeInv, TypeOK, WriterTypes, SharedTypes
  <1>1. CASE writerCopies
    <2>1. PICK wrOK, ixOK \in BOOLEAN :
            /\ wrOK => ~block[Held].err
            /\ WriteTo(wrOK) /\ AppendIndex(ixOK)
            /\ wtErr' = IF wrOK /\ ixOK THEN "nil" ELSE "err"
      BY <1>1 DEF writerCopies
    <2>2. /\ Held \in Idx /\ wt = "copy" /\ wtErr = "nil"
          /\ block[Held].err \/ block[Held].size > 0
          /\ block[Held].data \in Seq(Unit) /\ block[Held].size \in Nat
      BY <1>0, <1>1, HeldIsSealed DEF Consumed
    <2>3. /\ Len(Append(file, block[Held].data)) = Len(file) + 1
          /\ Len(Append(records, block[Held].size)) = Len(records) + 1
      BY <1>0, <2>2, AppendProperties
    <2>4. Len(records) = Len(file)
      BY <1>0, <2>2 DEF Listed
    <2>5. CASE ~wrOK
      BY <2>1, <2>5 DEF WriteTo, Listed
    <2>6. CASE wrOK /\ ~ixOK
      BY <1>0, <2>1, <2>3, <2>4, <2>6 DEF WriteTo, AppendIndex, Listed
    <2>7. CASE wrOK /\ ixOK
      <3>1. block[Held].size # 0
        BY <2>1, <2>2, <2>7
      <3> QED BY <1>0, <2>1, <2>3, <2>4, <2>7, <3>1
              DEF WriteTo, AppendIndex, Listed
    <2> QED BY <2>5, <2>6, <2>7
  <1>2. CASE UNCHANGED <<wtErr, torn, records, file>>
    BY <1>0, <1>2 DEF Listed
  <1>3. CASE writerSteps
    <2>1. CASE writerAsserts
      BY <1>0, <1>2, <2>1, WriterAssertsEffect DEF Consumed, writerAsserts
    <2> QED BY <1>1, <1>2, <1>3, <2>1
            DEF writerSteps, writerAnnounces, writerGets, writerEnds,
                writerRestores, writerReports, writerTerminates
  <1>4. CASE UNCHANGED writer
    BY <1>2, <1>4 DEF writer
  <1>5. CASE UNCHANGED vars
    BY <1>4, <1>5 DEF vars
  <1> QED BY <1>3, <1>4, <1>5, Steps, CallsFrame, MonitorFrame, WorkFrame

LEMMA BlockInvStep == BlockInv /\ [Next]_vars => BlockInv'
  BY FlowInvStep, InputFinalStep, EncodingStep, ListedStep DEF BlockInv

LEMMA BlockInvInit == Init => BlockInv
  <1> SUFFICES ASSUME Init PROVE BlockInv
    OBVIOUS
  <1>1. FlowInv
    BY FlowInvInit
  <1>2. InputFinal
    <2>1. /\ inPool.ready = {} /\ inPool.active = {} /\ inPool.shut = {}
          /\ cl = "idle"
      BY DEF Init, newPipePool
    <2> QED BY <2>1 DEF InputFinal, Owned
  <1>3. Encoding
    <2>1. outPool.shut = {}
      BY DEF Init, newPipePool
    <2>2. \A w \in Workers : wk[w] = "off"
      BY DEF Init
    <2> QED BY <2>1, <2>2 DEF Encoding, Encodes, Sealed
  <1>4. Listed
    BY DEF Init, Listed
  <1> QED BY <1>1, <1>2, <1>3, <1>4 DEF BlockInv

LEMMA BlockInvariant == Spec => []BlockInv
  <1>1. BlockInv /\ [Next]_vars => BlockInv'
    BY BlockInvStep
  <1> QED BY <1>1, BlockInvInit, PTL DEF Spec

\* No error comes from the shutdown itself: the writer goroutine fails only
\* over a block it could not write or list, so its final sanity check never
\* fires; a Write fails only over such an error, and Close only over it or
\* over the trailer.
THEOREM ErrorsAreReal == Spec => []NoSpuriousError
  <1>1. Init => Reporting
    BY DEF Init, Reporting, Channel, Outcomes
  <1>2. BlockInv /\ Reporting /\ [Next]_vars => Reporting'
    BY ReportingStep DEF BlockInv
  <1>3. BlockInv /\ Reporting => NoSpuriousError
    BY DEF BlockInv, Listed, Reporting, Channel, Outcomes, NoSpuriousError
  <1> QED BY <1>1, <1>2, <1>3, BlockInvariant, PTL DEF Spec
-----------------------------------------------------------------------------
(***************************************************************************)
(* The file.  From here on the output of a worker does not outgrow its pipe *)
(* while the client still fills the chunk ("run" \notin Overflows): where   *)
(* it does, the block may miss what the client adds to the chunk later.     *)
(***************************************************************************)
\* The number of chunks in the file, as long as there is no error.
Written == IF wt \in {"ask", "await", "return"} THEN index ELSE index - 1

\* Block k of the file is chunk k - 1, whole and finished.
BlockIs(k) ==
    /\ Final(k - 1)
    /\ file[k] = chunk[k - 1]
    /\ records[k] = Len(chunk[k - 1]) /\ Len(chunk[k - 1]) > 0

\* Up to the first error the file holds the chunks in order.
FileIsPrefix ==
    wtErr = "nil" =>
      /\ Len(file) = Written /\ Len(records) = Written
      /\ \A k \in 1 .. Written : BlockIs(k)

FileInv == BlockInv /\ Reporting /\ FileIsPrefix

LEMMA FileTyped ==
    ASSUME TypeInv
    PROVE  /\ file \in Seq(Seq(Unit)) /\ records \in Seq(Nat)
           /\ chunk \in [Idx -> Seq(Unit)]
           /\ \A i \in Idx : Len(chunk[i]) \in Nat
           /\ block \in [Idx -> [data : Seq(Unit), size : Nat, err : BOOLEAN]]
           /\ wtErr \in {"nil", "err"}
           /\ sent \in Nat /\ idx \in Nat /\ index \in Nat
           /\ ChunkSize \in Nat /\ ChunkSize > 0
  <1>1. chunk \in [Idx -> Seq(Unit)]
    BY DEF TypeInv, TypeOK, SharedTypes
  <1>2. \A i \in Idx : Len(chunk[i]) \in Nat
    BY <1>1, LenProperties
  <1> QED BY <1>1, <1>2, PoolsTyped, WriterAssumption
          DEF TypeInv, TypeOK, SharedTypes, WriterTypes, ClientTypes

\* A block in the file stays, and so does its chunk.
LEMMA BlockIsStays ==
    ASSUME TypeInv, [Next]_vars, NEW k \in Nat \ {0}, BlockIs(k),
           file'[k] = file[k], records'[k] = records[k]
    PROVE  BlockIs(k)'
  <1>1. k - 1 \in Nat /\ k - 1 < idx
    BY DEF BlockIs, Final
  <1>2. k - 1 \in Idx
    BY <1>1, BelowIdx
  <1> DEFINE i == k - 1
  <1>3. i \in Idx /\ Final(i)
    BY <1>2 DEF BlockIs
  <1> HIDE DEF i
  <1>4. Final(i)' /\ chunk'[i] = chunk[i]
    BY <1>3, ChunksStay
  <1> QED BY <1>4 DEF i, BlockIs, Final

LEMMA FilePrefixCopies ==
    ASSUME FileInv, "run" \notin Overflows, writerCopies, [Next]_vars
    PROVE  FileIsPrefix'
  <1>0. TypeInv /\ BlockInv /\ Consumed
    BY DEF FileInv, BlockInv, FlowInv, OwnInv
  <1>1. /\ Held \in Idx /\ wt = "copy" /\ wtErr = "nil" /\ wt' = "return"
        /\ block[Held].err \/ (Good(Held) /\ block[Held].size > 0)
        /\ UNCHANGED <<index, chunk, client>>
    BY <1>0, HeldIsSealed DEF Consumed, writerCopies, WriterAt
  <1>2. index \in Nat /\ Held \in Nat /\ Held = index - 1 /\ Held + 1 = index
    BY <1>0, <1>1, FileTyped, IdxNat DEF Held
  <1>3. Written = Held /\ Written' = index
    BY <1>1, <1>2 DEF Written
  <1>4. /\ Len(file) = Held /\ Len(records) = Held
        /\ \A k \in 1 .. Held : BlockIs(k)
    BY <1>1, <1>3 DEF FileInv, FileIsPrefix
  <1> SUFFICES ASSUME wtErr' = "nil"
               PROVE  /\ Len(file') = index /\ Len(records') = index
                      /\ \A k \in 1 .. index : BlockIs(k)'
    BY <1>3 DEF FileIsPrefix
  <1>5. /\ ~block[Held].err
        /\ file' = Append(file, block[Held].data)
        /\ records' = IF block[Held].size # 0
                      THEN Append(records, block[Held].size) ELSE records
    BY DEF writerCopies, WriteTo, AppendIndex
  <1>6. /\ Final(Held) /\ block[Held].data = chunk[Held]
        /\ block[Held].size = Len(chunk[Held]) /\ Len(chunk[Held]) > 0
    BY <1>1, <1>5 DEF Good, Complete
  <1>7. /\ file' = Append(file, chunk[Held])
        /\ records' = Append(records, Len(chunk[Held]))
    BY <1>5, <1>6
  <1>8. /\ file \in Seq(Seq(Unit)) /\ records \in Seq(Nat)
        /\ chunk[Held] \in Seq(Unit) /\ Len(chunk[Held]) \in Nat
    BY <1>0, <1>1, FileTyped
  <1>9. /\ Len(file') = Held + 1 /\ Len(records') = Held + 1
        /\ file'[Held + 1] = chunk[Held]
        /\ records'[Held + 1] = Len(chunk[Held])
        /\ \A k \in 1 .. Held : file'[k] = file[k] /\ records'[k] = records[k]
    BY <1>4, <1>7, <1>8, AppendProperties
  <1>10. ASSUME NEW k \in 1 .. index PROVE BlockIs(k)'
    <2>1. CASE k \in 1 .. Held
      <3>1. BlockIs(k) /\ file'[k] = file[k] /\ records'[k] = records[k]
        BY <1>4, <1>9, <2>1
      <3>2. k \in Nat \ {0}
        BY <1>2
      <3> QED BY <1>0, <3>1, <3>2, BlockIsStays
    <2>2. CASE k = index
      <3>1. file'[k] = chunk[Held] /\ records'[k] = Len(chunk[Held]) /\ k - 1 = Held
        BY <1>2, <1>9, <2>2
      <3>2. chunk' = chunk /\ idx' = idx /\ pipe' = pipe
        BY <1>1 DEF client
      <3> QED BY <1>6, <3>1, <3>2 DEF BlockIs, Final
    <2> QED BY <1>2, <2>1, <2>2
  <1> QED BY <1>2, <1>9, <1>10

LEMMA FilePrefixStep ==
    ASSUME FileInv, "run" \notin Overflows, [Next]_vars
    PROVE  FileIsPrefix'
  <1>0. TypeInv /\ Consumed /\ FileIsPrefix
    BY DEF FileInv, BlockInv, FlowInv, OwnInv
  <1>1. ASSUME UNCHANGED <<file, records>>, wtErr' = "nil" => wtErr = "nil",
               Written' = Written
        PROVE  FileIsPrefix'
    <2>1. ASSUME wtErr' = "nil", NEW k \in 1 .. Written PROVE BlockIs(k)'
      <3>1. Len(file) = Written /\ BlockIs(k)
        BY <1>0, <1>1, <2>1 DEF FileIsPrefix
      <3>2. k \in Nat \ {0}
        BY <1>0, FileTyped DEF Written
      <3> QED BY <1>0, <1>1, <3>1, <3>2, BlockIsStays
    <2> QED BY <1>0, <1>1, <2>1 DEF FileIsPrefix
  <1>2. CASE UNCHANGED writer
    BY <1>1, <1>2 DEF writer, Written
  <1>3. CASE writerCopies
    BY <1>3, FilePrefixCopies
  <1>4. CASE writerAnnounces \/ writerReports \/ writerTerminates
    BY <1>1, <1>4
    DEF writerAnnounces, writerReports, writerTerminates, WriterAt, Written
  <1>5. CASE writerGets \/ writerEnds
    <2>1. UNCHANGED <<file, records, wtErr>>
      BY <1>5 DEF writerGets, writerEnds
    <2>2. /\ wt = "await" /\ wt' \in {"copy", "sanity"} /\ index' = index + 1
          /\ index \in Nat
      BY <1>0, <1>5, WriterGetsEffect, WriterEndsEffect, FileTyped
    <2>3. Written' = Written
      BY <2>2 DEF Written
    <2> QED BY <1>1, <2>1, <2>3
  <1>6. CASE writerRestores
    <2>1. UNCHANGED <<file, records, wtErr>>
      BY <1>6 DEF writerRestores
    <2>2. /\ wt = "return" /\ index' = index
          /\ wt' = IF wtErr = "err" THEN "report" ELSE "ask"
      BY <1>6 DEF writerRestores, WriterAt
    <2>3. wtErr = "nil" => Written' = Written
      BY <2>2 DEF Written
    <2> QED BY <1>1, <2>1, <2>3 DEF FileIsPrefix
  <1>7. CASE writerAsserts
    <2>1. UNCHANGED <<file, records, wtErr>>
      BY <1>0, <1>7, WriterAssertsEffect DEF writerAsserts, Consumed
    <2>2. Written' = Written
      BY <1>0, <1>7, WriterAssertsEffect DEF Written
    <2> QED BY <1>1, <2>1, <2>2
  <1>8. CASE writerSteps
    BY <1>3, <1>4, <1>5, <1>6, <1>7, <1>8 DEF writerSteps
  <1>9. CASE UNCHANGED vars
    BY <1>2, <1>9 DEF vars
  <1> QED BY <1>2, <1>8, <1>9, Steps, CallsFrame, MonitorFrame, WorkFrame

LEMMA FileInvariant ==
    ASSUME "run" \notin Overflows
    PROVE  Spec => []FileInv
  <1>1. Init => FileInv
    <2> SUFFICES ASSUME Init PROVE FileInv
      OBVIOUS
    <2>1. Reporting
      BY DEF Init, Reporting, Channel, Outcomes
    <2>2. FileIsPrefix
      BY DEF Init, FileIsPrefix, Written
    <2> QED BY <2>1, <2>2, BlockInvInit DEF FileInv
  <1>2. FileInv /\ [Next]_vars => FileInv'
    BY BlockInvStep, ReportingStep, FilePrefixStep DEF FileInv, BlockInv
  <1> QED BY <1>1, <1>2, PTL DEF Spec
-----------------------------------------------------------------------------
(***************************************************************************)
(* Refinement.                                                             *)
(***************************************************************************)
\* The last unit of a chunk.
LEMMA ChunkEnds ==
    ASSUME TypeInv, NEW i \in Idx, Len(chunk[i]) > 0
    PROVE  chunk[i][Len(chunk[i])] = i * ChunkSize + Len(chunk[i])
  <1>1. Len(chunk[i]) \in 1 .. Len(chunk[i])
    BY FileTyped
  <1> QED BY <1>1 DEF TypeInv, ChunksCut

\* As long as there is no error, the file ends with the last unit of the
\* chunk written last.
LEMMA EmittedIs ==
    ASSUME FileInv, wtErr = "nil"
    PROVE  /\ Len(file) = 0 => Stream!Emitted = 0
           /\ Len(file) > 0 =>
                /\ Len(file) - 1 \in Idx
                /\ Stream!Emitted = (Len(file) - 1) * ChunkSize
                                      + Len(chunk[Len(file) - 1])
  <1>0. /\ TypeInv /\ FileIsPrefix /\ file \in Seq(Seq(Unit))
        /\ Len(file) \in Nat
    BY FileTyped, LenProperties DEF FileInv, BlockInv, FlowInv, OwnInv
  <1>1. CASE Len(file) = 0
    <2>1. file = <<>>
      BY <1>0, <1>1, EmptySeq
    <2> QED BY <1>1, <2>1 DEF Stream!Emitted
  <1>2. CASE Len(file) > 0
    <2> DEFINE n == Len(file)
    <2>1. n \in 1 .. Written /\ n - 1 \in Nat /\ n \in Nat
      BY <1>0, <1>2 DEF FileIsPrefix
    <2>2. BlockIs(n)
      BY <1>0, <2>1 DEF FileIsPrefix
    <2>3. /\ file[n] = chunk[n - 1] /\ Len(chunk[n - 1]) > 0
          /\ n - 1 < idx
      BY <2>2 DEF BlockIs, Final
    <2>4. n - 1 \in Idx
      BY <1>0, <2>1, <2>3, BelowIdx
    <2>5. chunk[n - 1][Len(chunk[n - 1])]
            = (n - 1) * ChunkSize + Len(chunk[n - 1])
      BY <1>0, <2>3, <2>4, ChunkEnds
    <2>6. file # <<>>
      BY <1>0, <1>2
    <2> QED BY <1>2, <2>3, <2>4, <2>5, <2>6
            DEF Stream!Emitted, Stream!Last
  <1> QED BY <1>0, <1>1, <1>2

LEMMA MulMono ==
    ASSUME NEW a \in Nat, NEW b \in Nat, NEW c \in Nat, a + 1 <= b
    PROVE  a * c + c <= b * c
  <1>1. PICK d \in Nat : b = a + 1 + d
    <2>1. b - a - 1 \in Nat /\ b = a + 1 + (b - a - 1)
      OBVIOUS
    <2> QED BY <2>1
  <1>2. b * c = a * c + c + d * c
    BY <1>1
  <1>3. a * c \in Nat /\ d * c \in Nat
    OBVIOUS
  <1> QED BY <1>2, <1>3

\* No chunk reaches beyond what has been accepted.
LEMMA ChunkAccepted ==
    ASSUME TypeInv, NEW i \in Idx, i < idx
    PROVE  i * ChunkSize + Len(chunk[i]) <= sent
  <1>0. /\ i \in Nat /\ idx \in Nat /\ ChunkSize \in Nat /\ sent \in Nat
        /\ Len(chunk[i]) \in Nat /\ idx > 0
    BY FileTyped, IdxNat
  <1>1. /\ idx - 1 \in Idx
        /\ sent = (idx - 1) * ChunkSize + Len(chunk[idx - 1])
        /\ Len(chunk[i]) <= ChunkSize
    <2>1. idx - 1 \in Idx
      BY <1>0 DEF TypeInv, ChunksCut
    <2>2. sent = IF idx = 0 THEN 0
                 ELSE (idx - 1) * ChunkSize + Len(chunk[idx - 1])
      BY DEF TypeInv, ChunksCut
    <2>3. Len(chunk[i]) <= ChunkSize
      BY DEF TypeInv, ChunksCut
    <2>4. idx # 0
      BY <1>0
    <2> QED BY <2>1, <2>2, <2>3, <2>4
  <1>2. CASE i = idx - 1
    BY <1>0, <1>1, <1>2
  <1>3. CASE i # idx - 1
    <2>1. idx - 1 \in Nat /\ i + 1 <= idx - 1 /\ Len(chunk[idx - 1]) \in Nat
      BY <1>0, <1>1, <1>3, FileTyped
    <2>2. i * ChunkSize + ChunkSize <= (idx - 1) * ChunkSize
      BY <1>0, <2>1, MulMono
    <2> DEFINE a == i * ChunkSize
               b == (idx - 1) * ChunkSize
    <2>3. a \in Nat /\ b \in Nat
      BY <1>0, <2>1
    <2>4. /\ a + ChunkSize <= b /\ sent = b + Len(chunk[idx - 1])
          /\ Len(chunk[i]) <= ChunkSize
      BY <1>1, <2>2
    <2> HIDE DEF a, b
    <2>5. a + Len(chunk[i]) <= sent
      BY <1>0, <2>1, <2>3, <2>4
    <2> QED BY <2>5 DEF a
  <1> QED BY <1>2, <1>3

\* A chunk is the run of units that follows the chunks before it.
LEMMA ChunkIsUnits ==
    ASSUME TypeInv, NEW i \in Idx
    PROVE  chunk[i] = Stream!Units(i * ChunkSize,
                                   i * ChunkSize + Len(chunk[i]))
  <1> DEFINE lo == i * ChunkSize
             n == Len(chunk[i])
  <1>1. lo \in Nat /\ n \in Nat /\ chunk[i] \in Seq(Unit)
    <2>1. i \in Nat /\ ChunkSize \in Nat
      BY FileTyped, IdxNat
    <2> QED BY <2>1, FileTyped
  <1>2. /\ \A j \in 1 .. n : chunk[i][j] = lo + j
        /\ chunk[i] = [j \in 1 .. n |-> chunk[i][j]]
    BY <1>1, LenProperties DEF TypeInv, ChunksCut
  <1> HIDE DEF lo, n
  <1>3. (lo + n) - lo = n
    BY <1>1
  <1>4. Stream!Units(lo, lo + n) = [j \in 1 .. n |-> lo + j]
    BY <1>3 DEF Stream!Units
  <1>5. [j \in 1 .. n |-> chunk[i][j]] = [j \in 1 .. n |-> lo + j]
    BY <1>2
  <1>6. chunk[i] = Stream!Units(lo, lo + n)
    BY <1>2, <1>4, <1>5
  <1> QED BY <1>6 DEF lo, n

\* Copying a block without an error emits the next units.
LEMMA CopyEmits ==
    ASSUME FileInv, "run" \notin Overflows, writerCopies, file' # file
    PROVE  Stream!Emit
  <1>0. TypeInv /\ BlockInv /\ Consumed /\ Reporting /\ FileIsPrefix
    BY DEF FileInv, BlockInv, FlowInv, OwnInv
  <1>1. /\ Held \in Idx /\ wt = "copy" /\ wtErr = "nil"
        /\ block[Held].err \/ (Good(Held) /\ block[Held].size > 0)
        /\ UNCHANGED <<sent, trailer, outcome>>
    BY <1>0, HeldIsSealed DEF Consumed, writerCopies, WriterAt, client
  <1>2. ~block[Held].err /\ file' = Append(file, block[Held].data)
    BY DEF writerCopies, WriteTo
  <1>3. /\ Held < idx /\ block[Held].data = chunk[Held]
        /\ Len(chunk[Held]) > 0
    BY <1>1, <1>2 DEF Good, Complete, Final
  <1>4. outcome = "none"
    BY <1>0, <1>1 DEF Reporting, Channel, Outcomes
  <1>5. /\ Held \in Nat /\ ChunkSize \in Nat /\ sent \in Nat
        /\ Len(chunk[Held]) \in Nat
    BY <1>0, <1>1, FileTyped, IdxNat
  <1>6. Len(file) = Held
    BY <1>0, <1>1 DEF FileIsPrefix, Written, Held
  <1>7. Stream!Emitted = Held * ChunkSize
    <2>1. CASE Held = 0
      BY <1>1, <1>5, <1>6, <2>1, EmittedIs
    <2>2. CASE Held # 0
      <3>1. /\ Held - 1 \in Idx /\ Held > 0
            /\ Stream!Emitted = (Held - 1) * ChunkSize + Len(chunk[Held - 1])
        <4>1. Held > 0 /\ Len(file) > 0
          BY <1>5, <1>6, <2>2
        <4> QED BY <1>1, <1>6, <4>1, EmittedIs
      <3>2. (Held - 1) + 1 < idx
        BY <1>3, <1>5
      <3>3. Len(chunk[Held - 1]) = ChunkSize
        BY <1>0, <3>1, <3>2 DEF TypeInv, ChunksCut
      <3>4. (Held - 1) * ChunkSize + ChunkSize = Held * ChunkSize
        BY <1>5
      <3> QED BY <3>1, <3>3, <3>4
    <2> QED BY <2>1, <2>2
  <1> DEFINE lo == Held * ChunkSize
             hi == lo + Len(chunk[Held])
  <1>8. lo \in Nat /\ hi \in Nat /\ hi > lo /\ hi <= sent
    <2>1. lo \in Nat
      BY <1>5
    <2>2. hi <= sent
      BY <1>0, <1>1, <1>3, ChunkAccepted
    <2> HIDE DEF lo
    <2> QED BY <1>3, <1>5, <2>1, <2>2
  <1>9. chunk[Held] = Stream!Units(lo, hi)
    BY <1>0, <1>1, ChunkIsUnits
  <1>10. hi \in (Stream!Emitted + 1) .. sent
    <2> HIDE DEF lo, hi
    <2>1. hi \in (lo + 1) .. sent
      BY <1>5, <1>8
    <2>2. Stream!Emitted = lo
      BY <1>7 DEF lo
    <2> QED BY <2>1, <2>2
  <1>11. file' = Append(file, Stream!Units(Stream!Emitted, hi))
    BY <1>2, <1>3, <1>7, <1>9
  <1> HIDE DEF lo, hi
  <1> QED BY <1>1, <1>4, <1>10, <1>11 DEF Stream!Emit

\* When Close writes the trailer, all the data and all the records are there.
LEMMA TrailerFinishes ==
    ASSUME FileInv, cl = "trail"
    PROVE  /\ Stream!Emitted = sent
           /\ records = [k \in DOMAIN file |-> Len(file[k])]
  <1>0. TypeInv /\ Consumed /\ Reporting /\ FileIsPrefix
    BY DEF FileInv, BlockInv, FlowInv, OwnInv
  <1>1. wtErr = "nil" /\ wt \in {"done", "exit"}
    BY <1>0 DEF Reporting, Channel, Outcomes
  <1>2. index = idx + 1
    BY <1>0, <1>1 DEF Consumed, Serving
  <1>3. /\ file \in Seq(Seq(Unit)) /\ records \in Seq(Nat) /\ idx \in Nat
        /\ sent \in Nat
    BY <1>0, FileTyped
  <1>4. /\ Len(file) = idx /\ Len(records) = idx
        /\ \A k \in 1 .. idx : BlockIs(k)
    <2>1. Written = idx
      BY <1>1, <1>2, <1>3 DEF Written
    <2> QED BY <1>0, <1>1, <2>1 DEF FileIsPrefix
  <1>5. Stream!Emitted = sent
    <2>1. CASE idx = 0
      <3>1. sent = 0
        BY <1>0, <2>1 DEF TypeInv, ChunksCut
      <3> QED BY <1>1, <1>4, <2>1, <3>1, EmittedIs
    <2>2. CASE idx # 0
      <3>1. sent = (idx - 1) * ChunkSize + Len(chunk[idx - 1])
        BY <1>0, <2>2 DEF TypeInv, ChunksCut
      <3>2. Len(file) > 0
        BY <1>3, <1>4, <2>2
      <3>3. Stream!Emitted = (idx - 1) * ChunkSize + Len(chunk[idx - 1])
        BY <1>1, <1>4, <3>2, EmittedIs
      <3> QED BY <3>1, <3>3
    <2> QED BY <2>1, <2>2
  <1>6. \A k \in 1 .. idx : records[k] = Len(file[k])
    BY <1>4 DEF BlockIs
  <1>7. records = [k \in DOMAIN file |-> Len(file[k])]
    <2>1. DOMAIN records = DOMAIN file /\ DOMAIN file = 1 .. idx
      BY <1>3, <1>4, LenProperties
    <2>2. records = [k \in DOMAIN records |-> records[k]]
      BY <1>3, LenProperties
    <2> QED BY <1>6, <2>1, <2>2
  <1> QED BY <1>5, <1>7

LEMMA AsyncRefinementStep ==
    ASSUME "run" \notin Overflows
    PROVE  FileInv /\ [Next]_vars => [Stream!Next]_(Stream!vars)
  <1> SUFFICES ASSUME FileInv, [Next]_vars
               PROVE  Stream!Next \/ UNCHANGED Stream!vars
    OBVIOUS
  <1>0. TypeInv /\ Reporting
    BY DEF FileInv, BlockInv, FlowInv, OwnInv
  <1>1. ASSUME UNCHANGED <<sent, file, trailer, outcome>>
        PROVE  UNCHANGED Stream!vars
    BY <1>1 DEF Stream!vars
  <1>2. CASE WriteFills
    <2>1. UNCHANGED <<file, trailer, outcome>> /\ cl = "loop"
      BY <1>2 DEF WriteFills, writer
    <2>2. outcome = "none"
      BY <1>0, <2>1 DEF Reporting, Outcomes
    <2>3. CASE sent' = sent
      BY <1>1, <2>1, <2>3
    <2>4. CASE sent' # sent
      <3>1. pipe \notin inPool.shut
        BY <1>2, <2>4 DEF WriteFills
      <3>2. PICK k \in 0 .. todo : sent' = sent + k
        BY <1>0, <1>2, <3>1, FillsFields
      <3>3. sent \in Nat /\ todo \in Nat
        BY <1>0 DEF TypeInv, TypeOK, ClientTypes
      <3>4. sent' \in Nat /\ sent' > sent
        BY <2>4, <3>2, <3>3
      <3>5. Stream!Accept
        BY <2>1, <2>2, <3>4 DEF Stream!Accept
      <3> QED BY <3>5 DEF Stream!Next
    <2> QED BY <2>3, <2>4
  <1>3. CASE CloseJoins
    <2>1. /\ UNCHANGED <<sent, file, trailer>> /\ cl = "join"
          /\ UNCHANGED outcome \/ outcome' = "err"
      BY <1>3 DEF CloseJoins, writer
    <2>2. outcome = "none"
      BY <1>0, <2>1 DEF Reporting, Outcomes
    <2>3. CASE outcome' = "err"
      BY <2>1, <2>2, <2>3 DEF Stream!Fail, Stream!Next
    <2> QED BY <1>1, <2>1, <2>3
  <1>4. CASE CloseWritesTrailer
    <2>1. UNCHANGED <<sent, file>> /\ cl = "trail"
      BY <1>4 DEF CloseWritesTrailer, writer
    <2>2. outcome = "none"
      BY <1>0, <2>1 DEF Reporting, Outcomes
    <2>3. CASE trailer' = records /\ outcome' = "ok"
      <3>1. Stream!Finish
        BY <2>1, <2>2, <2>3, TrailerFinishes DEF Stream!Finish
      <3> QED BY <3>1 DEF Stream!Next
    <2>4. CASE outcome' = "err" /\ UNCHANGED trailer
      BY <2>1, <2>2, <2>4 DEF Stream!Fail, Stream!Next
    <2> QED BY <1>4, <2>3, <2>4 DEF CloseWritesTrailer
  <1>5. CASE Calls
    <2>1. CASE ~WriteFills /\ ~CloseJoins /\ ~CloseWritesTrailer
      <3>1. UNCHANGED <<sent, file, trailer, outcome>>
        BY <1>5, <2>1
        DEF Calls, Client, Write, CloseStarts, WriteGetsPipe, WriteShuts,
            WriteFails, CloseEndsInput, writer
      <3> QED BY <1>1, <3>1
    <2> QED BY <1>2, <1>3, <1>4, <2>1
  <1>6. CASE writerSteps
    <2>1. UNCHANGED <<sent, trailer, outcome>>
      BY <1>6, WriterFrame DEF client
    <2>2. CASE file' = file
      BY <1>1, <2>1, <2>2
    <2>3. CASE file' # file
      <3>1. writerCopies
        BY <1>6, <2>3
        DEF writerSteps, writerAnnounces, writerGets, writerEnds,
            writerRestores, writerAsserts, writerReports, writerTerminates
      <3> QED BY <2>3, <3>1, CopyEmits DEF Stream!Next
    <2> QED BY <2>2, <2>3
  <1>7. CASE UNCHANGED <<client, writer, trailer>>
    BY <1>1, <1>7 DEF client, writer
  <1>8. CASE UNCHANGED vars
    BY <1>7, <1>8 DEF vars
  <1> QED BY <1>5, <1>6, <1>7, <1>8, Steps, MonitorFrame, WorkFrame

\* Whatever order the workers finish in, and whatever fails, the blocks reach
\* the file in the order of the data, each unit once, and a Close that reports
\* success leaves all the data and an index of exactly these blocks, for any
\* number of workers, chunk size and amount of data.  The assumption excludes
\* the one case in which the code does not keep this promise: incompressible
\* data that fills the output pipe before the client has filled the chunk.
THEOREM AsyncImplementsStream ==
    ASSUME "run" \notin Overflows
    PROVE  Spec => ImplementsStream
  <1>1. Init => Stream!Init
    BY DEF Init, Stream!Init
  <1> QED BY <1>1, FileInvariant, AsyncRefinementStep, PTL
      DEF Spec, ImplementsStream, Stream!Spec
=============================================================================
