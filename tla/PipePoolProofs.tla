--------------------------- MODULE PipePoolProofs ---------------------------
(***************************************************************************)
(* Proofs about PipePool, for any number of producers, consumers, indices  *)
(* and any capacity.                                                       *)
(***************************************************************************)
EXTENDS PipePool, FiniteSetTheorems, TLAPS

\* The bound LastIdx is respected by the index reader.
EnterInRange == \A c \in Consumers : Ordered /\ rd[c] = "enter" => cursor \in Idx

TypeInv == TypeOK /\ EnterInRange

Pools == PoolType(Idx, 0 .. MaxCap)

\* What the operators of PoolOps return is again a pool.
LEMMA PoolTypes ==
    ASSUME NEW pp \in Pools
    PROVE  /\ \A i \in Idx :
                /\ GetWriter(pp, i) \subseteq Pools
                /\ Announce(pp, i) \in Pools
                /\ Restore(pp, i) \in Pools
                /\ ClosePipe(pp, i) \in Pools
           /\ \A i \in Idx : \A idx : GetReader(pp, idx, i) \in Pools
           /\ \A idx : GetReaderNil(pp, idx) \in Pools
           /\ \A n \in 0 .. MaxCap : SetCapacity(pp, n) \in Pools
           /\ Interrupt(pp) \in Pools
           /\ Close(pp) \in Pools
           /\ Terminate(pp) \in Pools
  <1> USE PoolAssumption DEF PoolType, Pools
  <1>0. /\ pp.len \in Nat /\ pp.len + 1 \in Nat
        /\ ~Keeps(pp) => pp.len - 1 \in Nat
        /\ pp.free \subseteq Idx /\ pp.ready \subseteq Idx
        /\ pp.active \subseteq Idx /\ pp.shut \subseteq Idx
    BY DEF Keeps
  <1>1. ASSUME NEW i \in Idx PROVE GetWriter(pp, i) \subseteq Pools
    <2> SUFFICES ASSUME NEW q \in GetWriter(pp, i)
                 PROVE  q \in Pools
      OBVIOUS
    <2>1. CASE pp.free = {}
      <3>1. q = [pp EXCEPT !.len = @ + 1, !.ready = @ \cup {i}]
        BY <2>1 DEF GetWriter
      <3> QED BY <1>0, <3>1
    <2>2. CASE pp.free # {}
      <3>1. PICK f \in pp.free :
              q = [pp EXCEPT !.free = @ \ {f}, !.ready = @ \cup {i}]
        BY <2>2 DEF GetWriter
      <3> QED BY <1>0, <3>1
    <2> QED BY <2>1, <2>2
  <1>2. ASSUME NEW i \in Idx PROVE Announce(pp, i) \in Pools
    BY DEF Announce
  <1>3. ASSUME NEW idx PROVE GetReaderNil(pp, idx) \in Pools
    BY DEF GetReaderNil
  <1>4. ASSUME NEW i \in Idx, NEW idx PROVE GetReader(pp, idx, i) \in Pools
    BY <1>3 DEF GetReader
  <1>5. ASSUME NEW i \in Idx PROVE Restore(pp, i) \in Pools
    BY <1>0 DEF Restore
  <1>6. ASSUME NEW n \in 0 .. MaxCap PROVE SetCapacity(pp, n) \in Pools
    BY DEF SetCapacity
  <1>7. Interrupt(pp) \in Pools /\ Close(pp) \in Pools /\ Terminate(pp) \in Pools
    BY DEF Interrupt, Close, Terminate
  <1>8. ASSUME NEW i \in Idx PROVE ClosePipe(pp, i) \in Pools
    BY DEF ClosePipe
  <1> QED BY <1>1, <1>2, <1>3, <1>4, <1>5, <1>6, <1>7, <1>8

\* Waking callers leaves them somewhere.
LEMMA WakeTypes ==
    ASSUME NEW S, NEW place \in [S -> Place]
    PROVE  /\ Broadcast(place) \in [S -> Place]
           /\ Signal(place) \subseteq [S -> Place]
  BY DEF Broadcast, Signal, Parked, Place

\* The announcement and the pipes on offer stay in range.
LEMMA EntryTypes ==
    ASSUME TypeInv, NEW c \in Consumers, rd[c] \in {"enter", "woken"}
    PROVE  /\ Announced(c) \in Pools
           /\ ProducersAfterEntry(c) \in [Producers -> Place]
           /\ Readable(pool, Want) \subseteq Idx
  <1>1. pool \in Pools BY DEF TypeInv, TypeOK, Pools
  <1>2. Announced(c) \in Pools
    <2>1. CASE Ordered /\ rd[c] = "enter"
      <3>1. cursor \in Idx BY <2>1 DEF TypeInv, EnterInRange
      <3>2. Announce(pool, cursor) \in Pools BY <1>1, <3>1, PoolTypes
      <3> QED BY <2>1, <3>2 DEF Announced
    <2>2. CASE ~(Ordered /\ rd[c] = "enter")
      BY <1>1, <2>2 DEF Announced
    <2> QED BY <2>1, <2>2
  <1>3. ProducersAfterEntry(c) \in [Producers -> Place]
    BY WakeTypes DEF ProducersAfterEntry, TypeInv, TypeOK
  <1>4. Readable(pool, Want) \subseteq Idx
    BY <1>1 DEF Readable, Pools, PoolType
  <1> QED BY <1>2, <1>3, <1>4

\* Every step of the pool preserves the type invariant.
LEMMA TypeInvStep == TypeInv /\ [Next]_vars => TypeInv'
  <1> SUFFICES ASSUME TypeInv, [Next]_vars PROVE TypeInv'
    OBVIOUS
  <1> USE DEF TypeInv, TypeOK, EnterInRange
  <1>0. pool \in Pools BY DEF Pools
  <1>1. ASSUME NEW p \in Producers, NEW i \in Idx, CallGetWriter(p, i)
        PROVE  TypeInv'
    BY <1>1 DEF CallGetWriter, Place
  <1>2. ASSUME NEW p \in Producers, getWriter(p)
        PROVE  TypeInv'
    <2>1. CASE getWriterParks(p)
      BY <2>1 DEF getWriterParks, Place
    <2>2. CASE getWriterRefuses(p)
      BY <2>2 DEF getWriterRefuses, Place
    <2>3. CASE getWriterGrants(p)
      <3>1. pool' \in Pools
        BY <2>3, <1>0, PoolTypes DEF getWriterGrants
      <3>2. rd' \in [Consumers -> Place]
        BY <2>3, WakeTypes DEF getWriterGrants, ReadersAfterGrant
      <3>3. EnterInRange'
        BY <2>3 DEF getWriterGrants, ReadersAfterGrant, Signal, Parked, Place
      <3> QED BY <2>3, <3>1, <3>2, <3>3 DEF getWriterGrants, Place, Pools
    <2> QED BY <1>2, <2>1, <2>2, <2>3 DEF getWriter
  <1>3. ASSUME NEW p \in Producers, FinishPipe(p)
        PROVE  TypeInv'
    BY <1>3, <1>0, PoolTypes DEF FinishPipe, Place, Pools
  <1>4. ASSUME NEW c \in Consumers, CallGetReader(c)
        PROVE  TypeInv'
    BY <1>4 DEF CallGetReader, Place
  <1>5. ASSUME NEW c \in Consumers, getReader(c)
        PROVE  TypeInv'
    <2>1. CASE getReaderParks(c)
      BY <2>1, EntryTypes DEF getReaderParks, Place, Pools
    <2>2. CASE getReaderTakes(c)
      <3>1. PICK i \in Readable(pool, Want) :
              /\ pool' = GetReader(Announced(c), Want, i)
              /\ rdIdx' = [rdIdx EXCEPT ![c] = i]
              /\ taken' = taken \cup {i}
        BY <2>2 DEF getReaderTakes
      <3>2. i \in Idx /\ pool' \in Pools
        BY <2>2, <3>1, EntryTypes, PoolTypes DEF getReaderTakes
      <3>3. wr' \in [Producers -> Place]
        BY <2>2, EntryTypes DEF getReaderTakes
      <3>4. EnterInRange'
        BY <2>2, PoolAssumption DEF getReaderTakes, Place
      <3> QED BY <2>2, <3>1, <3>2, <3>3, <3>4 DEF getReaderTakes, Place, Pools
    <2>3. CASE getReaderEnds(c)
      <3>1. pool' \in Pools /\ wr' \in [Producers -> Place]
        BY <2>3, EntryTypes, PoolTypes DEF getReaderEnds
      <3>2. EnterInRange'
        BY <2>3, PoolAssumption DEF getReaderEnds, Place
      <3> QED BY <2>3, <3>1, <3>2 DEF getReaderEnds, Place, Pools
    <2> QED BY <1>5, <2>1, <2>2, <2>3 DEF getReader
  <1>6. ASSUME NEW c \in Consumers, restore(c)
        PROVE  TypeInv'
    <2>1. pool' \in Pools /\ wr' \in [Producers -> Place]
      BY <1>6, <1>0, PoolTypes, WakeTypes DEF restore, ProducersAfterRestore
    <2> QED BY <1>6, <2>1 DEF restore, Place, Pools
  <1>7. ASSUME NEW n \in 1 .. MaxCap, setCapacity(n)
        PROVE  TypeInv'
    <2>1. n \in 0 .. MaxCap /\ 0 \in Idx
      BY PoolAssumption DEF Idx
    <2> QED BY <1>7, <2>1, <1>0, PoolTypes, WakeTypes DEF setCapacity, Pools
  <1>8. CASE interrupt \/ close \/ terminate
    <2>1. 0 \in Idx /\ 0 \in 0 .. MaxCap
      BY PoolAssumption DEF Idx
    <2>2. pool' \in Pools
      BY <1>8, <2>1, <1>0, PoolTypes DEF interrupt, close, terminate
    <2>3. wr' \in [Producers -> Place] /\ rd' \in [Consumers -> Place]
      BY <1>8, WakeTypes DEF interrupt, close, terminate
    <2>4. EnterInRange'
      BY <1>8 DEF interrupt, close, terminate, Broadcast
    <2> QED BY <1>8, <2>2, <2>3, <2>4 DEF interrupt, close, terminate, Pools
  <1>9. CASE UNCHANGED vars
    BY <1>9 DEF vars
  <1> QED BY <1>1, <1>2, <1>3, <1>4, <1>5, <1>6, <1>7, <1>8, <1>9 DEF Next

\* Initially the pool is empty and nobody has called it.
LEMMA TypeInvInit == Init => TypeInv
  BY PoolAssumption
     DEF Init, TypeInv, TypeOK, EnterInRange, PoolType, newPipePool, Place,
         Idx, NoIdx

\* The type invariant holds in every reachable state of the pool; in
\* particular pp.len, which restore decrements, never becomes negative and
\* the announced index is one that can be asked for.
THEOREM TypeCorrect == Spec => []TypeOK
  <1>1. TypeInv => TypeOK BY DEF TypeInv
  <1> QED BY <1>1, TypeInvInit, TypeInvStep, PTL DEF Spec
-----------------------------------------------------------------------------
(***************************************************************************)
(* What each operator of PoolOps does to the fields.                       *)
(***************************************************************************)
SameControl(pp, q) ==
    q.cap = pp.cap /\ q.closed = pp.closed /\ q.dead = pp.dead

SameSets(pp, q) ==
    /\ q.free = pp.free /\ q.ready = pp.ready /\ q.active = pp.active
    /\ q.len = pp.len

\* getWriter adds its index to the ready set and reuses or allocates a pipe.
LEMMA GetWriterFields ==
    ASSUME NEW pp \in Pools, NEW i \in Idx, NEW q \in GetWriter(pp, i)
    PROVE  /\ SameControl(pp, q) /\ q.waitIdx = pp.waitIdx
           /\ q.ready = pp.ready \cup {i} /\ q.active = pp.active
           /\ pp.free = {} => q.free = {} /\ q.len = pp.len + 1
           /\ pp.free # {} => /\ \E f \in pp.free : q.free = pp.free \ {f}
                              /\ q.len = pp.len
  <1> USE DEF Pools, PoolType, SameControl
  <1>1. CASE pp.free = {}
    <2>1. q = [pp EXCEPT !.len = @ + 1, !.ready = @ \cup {i}]
      BY <1>1 DEF GetWriter
    <2> QED BY <1>1, <2>1
  <1>2. CASE pp.free # {}
    <2>1. PICK f \in pp.free :
            q = [pp EXCEPT !.free = @ \ {f}, !.ready = @ \cup {i}]
      BY <1>2 DEF GetWriter
    <2> QED BY <1>2, <2>1
  <1> QED BY <1>1, <1>2

\* Entering getReader changes nothing but waitIdx.
LEMMA AnnouncedFields ==
    ASSUME NEW c \in Consumers, pool \in Pools
    PROVE  /\ SameControl(pool, Announced(c)) /\ SameSets(pool, Announced(c))
           /\ Announced(c).waitIdx =
                IF Ordered /\ rd[c] = "enter" THEN cursor ELSE pool.waitIdx
  BY DEF Announced, Announce, Pools, PoolType, SameControl, SameSets

\* getReader moves the pipe it returns from ready to active.
LEMMA GetReaderFields ==
    ASSUME NEW pp \in Pools, NEW i \in Idx, NEW idx
    PROVE  /\ SameControl(pp, GetReader(pp, idx, i))
           /\ GetReader(pp, idx, i).ready = pp.ready \ {i}
           /\ GetReader(pp, idx, i).active = pp.active \cup {i}
           /\ GetReader(pp, idx, i).free = pp.free
           /\ GetReader(pp, idx, i).len = pp.len
           /\ GetReader(pp, idx, i).waitIdx =
                IF idx = NoIdx THEN pp.waitIdx ELSE NoIdx
           /\ SameControl(pp, GetReaderNil(pp, idx))
           /\ SameSets(pp, GetReaderNil(pp, idx))
           /\ GetReaderNil(pp, idx).waitIdx =
                IF idx = NoIdx THEN pp.waitIdx ELSE NoIdx
  BY DEF GetReader, GetReaderNil, Pools, PoolType, SameControl, SameSets

\* restore moves the pipe from active to free or drops it.
LEMMA RestoreFields ==
    ASSUME NEW pp \in Pools, NEW i \in Idx
    PROVE  /\ SameControl(pp, Restore(pp, i))
           /\ Restore(pp, i).waitIdx = pp.waitIdx
           /\ Restore(pp, i).ready = pp.ready
           /\ Restore(pp, i).active = pp.active \ {i}
           /\ Keeps(pp) => /\ Restore(pp, i).free = pp.free \cup {i}
                           /\ Restore(pp, i).len = pp.len
           /\ ~Keeps(pp) => /\ Restore(pp, i).free = pp.free
                            /\ Restore(pp, i).len = pp.len - 1
  BY DEF Restore, Pools, PoolType, SameControl

\* The remaining operators.
LEMMA ControlFields ==
    ASSUME NEW pp \in Pools
    PROVE  /\ \A i \in Idx : /\ SameControl(pp, ClosePipe(pp, i))
                             /\ SameSets(pp, ClosePipe(pp, i))
                             /\ ClosePipe(pp, i).waitIdx = pp.waitIdx
           /\ SameControl(pp, Interrupt(pp)) /\ SameSets(pp, Interrupt(pp))
           /\ Interrupt(pp).waitIdx = pp.waitIdx
           /\ \A n : /\ SetCapacity(pp, n).cap = n
                     /\ SetCapacity(pp, n).closed = pp.closed
                     /\ SetCapacity(pp, n).dead = pp.dead
                     /\ SameSets(pp, SetCapacity(pp, n))
                     /\ SetCapacity(pp, n).waitIdx = pp.waitIdx
           /\ Close(pp).closed /\ Close(pp).dead = pp.dead
           /\ Close(pp).cap = pp.cap
           /\ SameSets(pp, Close(pp)) /\ Close(pp).waitIdx = pp.waitIdx
           /\ Terminate(pp).closed /\ Terminate(pp).dead
           /\ Terminate(pp).cap = pp.cap
           /\ Terminate(pp).waitIdx = pp.waitIdx
           /\ Terminate(pp).ready = {} /\ Terminate(pp).len = pp.len
           /\ Terminate(pp).free = pp.free /\ Terminate(pp).active = pp.active
  BY DEF ClosePipe, Interrupt, SetCapacity, Close, Terminate, Pools, PoolType,
         SameControl, SameSets

\* Waking moves callers from "parked" to "woken" and nobody else.
OnlyWakes(before, after) ==
    \A x \in DOMAIN before :
       \/ after[x] = before[x]
       \/ before[x] = "parked" /\ after[x] = "woken"

\* Broadcast and Signal only wake, and Broadcast wakes everybody.
LEMMA WakeEffect ==
    ASSUME NEW S, NEW place \in [S -> Place]
    PROVE  /\ OnlyWakes(place, Broadcast(place))
           /\ \A x \in S : Broadcast(place)[x] # "parked"
           /\ \A after \in Signal(place) : OnlyWakes(place, after)
  BY DEF Broadcast, Signal, Parked, OnlyWakes, Place
-----------------------------------------------------------------------------
(***************************************************************************)
(* Who owns which pipe.                                                    *)
(***************************************************************************)
\* A ready index has been granted and not yet taken; what is active or free
\* has been taken, so the three sets are disjoint.
SetsOwned ==
    /\ pool.ready \subseteq granted
    /\ taken \subseteq granted
    /\ pool.ready \cap taken = {}
    /\ pool.active \subseteq taken
    /\ pool.free \subseteq taken
    /\ pool.active \cap pool.free = {}

\* A producer asks for an index of its own that nobody was given before.
AskersDistinct ==
    /\ \A p \in Producers : Asking(p) => wrIdx[p] \notin granted
    /\ \A p, q \in Producers :
         Asking(p) /\ Asking(q) /\ wrIdx[p] = wrIdx[q] => p = q

\* A consumer holds an active pipe of its own.
UsersDistinct ==
    /\ \A c \in Consumers : rd[c] = "using" => rdIdx[c] \in pool.active
    /\ \A c, d \in Consumers :
         rd[c] = "using" /\ rd[d] = "using" /\ rdIdx[c] = rdIdx[d] => c = d

DeadEmpty == pool.dead => pool.closed /\ pool.ready = {}

OwnInv == TypeInv /\ SetsOwned /\ AskersDistinct /\ UsersDistinct /\ DeadEmpty

\* Every step keeps the pipes with their owners.
LEMMA OwnInvStep == OwnInv /\ [Next]_vars => OwnInv'
  <1> SUFFICES ASSUME OwnInv, [Next]_vars PROVE OwnInv'
    OBVIOUS
  <1>0. /\ TypeInv /\ TypeInv' /\ pool \in Pools
        /\ wr \in [Producers -> Place] /\ wrIdx \in [Producers -> Idx]
        /\ rd \in [Consumers -> Place] /\ rdIdx \in [Consumers -> Idx]
    BY TypeInvStep DEF OwnInv, TypeInv, TypeOK, Pools
  <1> SUFFICES (SetsOwned /\ AskersDistinct /\ UsersDistinct /\ DeadEmpty)'
    BY <1>0 DEF OwnInv
  <1>1. SetsOwned /\ AskersDistinct /\ UsersDistinct /\ DeadEmpty
    BY DEF OwnInv
  <1>2. ASSUME NEW p \in Producers, NEW i \in Idx, CallGetWriter(p, i)
        PROVE  (SetsOwned /\ AskersDistinct /\ UsersDistinct /\ DeadEmpty)'
    <2>1. i \notin granted /\ \A q \in Producers : Asking(q) => wrIdx[q] # i
      BY <1>2 DEF CallGetWriter, Claimable, Claimed
    <2>2. AskersDistinct'
      BY <1>0, <1>1, <1>2, <2>1 DEF CallGetWriter, AskersDistinct, Asking
    <2> QED BY <1>1, <1>2, <2>2
        DEF CallGetWriter, SetsOwned, UsersDistinct, DeadEmpty
  <1>3. ASSUME NEW p \in Producers, getWriterParks(p) \/ getWriterRefuses(p)
        PROVE  (SetsOwned /\ AskersDistinct /\ UsersDistinct /\ DeadEmpty)'
    <2>1. AskersDistinct'
      BY <1>0, <1>1, <1>3
         DEF getWriterParks, getWriterRefuses, AskersDistinct, Asking
    <2> QED BY <1>1, <1>3, <2>1
        DEF getWriterParks, getWriterRefuses, SetsOwned, UsersDistinct, DeadEmpty
  <1>4. ASSUME NEW p \in Producers, getWriterGrants(p)
        PROVE  (SetsOwned /\ AskersDistinct /\ UsersDistinct /\ DeadEmpty)'
    <2>1. /\ pool'.ready = pool.ready \cup {wrIdx[p]}
          /\ pool'.active = pool.active /\ pool'.free \subseteq pool.free
          /\ pool'.closed = pool.closed /\ pool'.dead = pool.dead
      BY <1>0, <1>4, GetWriterFields DEF getWriterGrants, SameControl
    <2>2. Asking(p) /\ wrIdx[p] \notin granted
      BY <1>1, <1>4 DEF getWriterGrants, Asking, AskersDistinct
    <2>3. SetsOwned'
      BY <1>1, <1>4, <2>1, <2>2 DEF getWriterGrants, SetsOwned
    <2>4. AskersDistinct'
      BY <1>0, <1>1, <1>4, <2>2 DEF getWriterGrants, AskersDistinct, Asking
    <2>5. OnlyWakes(rd, rd')
      BY <1>0, <1>4, WakeEffect DEF getWriterGrants, ReadersAfterGrant
    <2>6. UsersDistinct'
      BY <1>0, <1>1, <1>4, <2>1, <2>5
         DEF getWriterGrants, UsersDistinct, OnlyWakes
    <2>7. DeadEmpty'
      BY <1>1, <1>4, <2>1 DEF getWriterGrants, DeadEmpty
    <2> QED BY <2>3, <2>4, <2>6, <2>7
  <1>5. ASSUME NEW p \in Producers, FinishPipe(p)
        PROVE  (SetsOwned /\ AskersDistinct /\ UsersDistinct /\ DeadEmpty)'
    <2>1. SameControl(pool, pool') /\ SameSets(pool, pool')
      BY <1>0, <1>5, ControlFields DEF FinishPipe
    <2>2. AskersDistinct'
      BY <1>0, <1>1, <1>5 DEF FinishPipe, AskersDistinct, Asking
    <2> QED BY <1>1, <1>5, <2>1, <2>2
        DEF FinishPipe, SetsOwned, UsersDistinct, DeadEmpty, SameControl, SameSets
  <1>6. ASSUME NEW c \in Consumers, CallGetReader(c)
        PROVE  (SetsOwned /\ AskersDistinct /\ UsersDistinct /\ DeadEmpty)'
    <2>1. UsersDistinct'
      BY <1>0, <1>1, <1>6 DEF CallGetReader, UsersDistinct
    <2> QED BY <1>1, <1>6, <2>1
        DEF CallGetReader, SetsOwned, AskersDistinct, Asking, DeadEmpty
  <1>7. ASSUME NEW c \in Consumers, wr' = ProducersAfterEntry(c),
               UNCHANGED <<wrIdx, granted>>
        PROVE  AskersDistinct'
    <2>1. \A p \in Producers : Asking(p)' => Asking(p)
      <3>1. CASE Ordered /\ rd[c] = "enter"
        <4>1. wr' = Broadcast(wr)
          BY <1>7, <3>1 DEF ProducersAfterEntry
        <4> QED BY <1>0, <4>1, WakeEffect DEF OnlyWakes, Asking
      <3>2. CASE ~(Ordered /\ rd[c] = "enter")
        BY <1>7, <3>2 DEF ProducersAfterEntry, Asking
      <3> QED BY <3>1, <3>2
    <2> QED BY <1>1, <1>7, <2>1 DEF AskersDistinct
  <1>8. ASSUME NEW c \in Consumers, getReaderParks(c) \/ getReaderEnds(c)
        PROVE  (SetsOwned /\ AskersDistinct /\ UsersDistinct /\ DeadEmpty)'
    <2>1. 0 \in Idx BY PoolAssumption DEF Idx
    <2>2. Announced(c) \in Pools
      BY <1>0, <1>8, EntryTypes DEF getReaderParks, getReaderEnds
    <2>3. SameControl(pool, pool') /\ SameSets(pool, pool')
      BY <1>0, <1>8, <2>1, <2>2, AnnouncedFields, GetReaderFields
         DEF getReaderParks, getReaderEnds, SameControl, SameSets
    <2>4. AskersDistinct'
      BY <1>7, <1>8 DEF getReaderParks, getReaderEnds
    <2>5. UsersDistinct'
      BY <1>0, <1>1, <1>8, <2>3
         DEF getReaderParks, getReaderEnds, UsersDistinct, SameSets
    <2> QED BY <1>1, <1>8, <2>3, <2>4, <2>5
        DEF getReaderParks, getReaderEnds, SetsOwned, DeadEmpty, SameControl, SameSets
  <1>9. ASSUME NEW c \in Consumers, getReaderTakes(c)
        PROVE  (SetsOwned /\ AskersDistinct /\ UsersDistinct /\ DeadEmpty)'
    <2>1. PICK i \in Readable(pool, Want) :
            /\ pool' = GetReader(Announced(c), Want, i)
            /\ rdIdx' = [rdIdx EXCEPT ![c] = i]
            /\ taken' = taken \cup {i}
      BY <1>9 DEF getReaderTakes
    <2>2. Announced(c) \in Pools /\ i \in Idx /\ i \in pool.ready
      BY <1>0, <1>9, <2>1, EntryTypes DEF getReaderTakes, Readable
    <2>3. /\ pool'.ready = pool.ready \ {i}
          /\ pool'.active = pool.active \cup {i} /\ pool'.free = pool.free
          /\ pool'.closed = pool.closed /\ pool'.dead = pool.dead
      BY <1>0, <2>1, <2>2, AnnouncedFields, GetReaderFields
         DEF SameControl, SameSets
    <2>4. i \notin taken /\ i \notin pool.active
      BY <1>1, <2>2 DEF SetsOwned
    <2>5. SetsOwned'
      BY <1>1, <1>9, <2>1, <2>2, <2>3, <2>4 DEF getReaderTakes, SetsOwned
    <2>6. AskersDistinct'
      BY <1>7, <1>9 DEF getReaderTakes
    <2>7. UsersDistinct'
      BY <1>0, <1>1, <1>9, <2>1, <2>3, <2>4 DEF getReaderTakes, UsersDistinct
    <2> QED BY <1>1, <2>3, <2>5, <2>6, <2>7 DEF DeadEmpty
  <1>10. ASSUME NEW c \in Consumers, restore(c)
         PROVE  (SetsOwned /\ AskersDistinct /\ UsersDistinct /\ DeadEmpty)'
    <2>1. rdIdx[c] \in pool.active
      BY <1>1, <1>10 DEF restore, UsersDistinct
    <2>2. /\ pool'.ready = pool.ready /\ pool'.active = pool.active \ {rdIdx[c]}
          /\ pool'.free \in {pool.free, pool.free \cup {rdIdx[c]}}
          /\ pool'.closed = pool.closed /\ pool'.dead = pool.dead
      BY <1>0, <1>10, RestoreFields DEF restore, SameControl
    <2>3. SetsOwned'
      BY <1>1, <1>10, <2>1, <2>2 DEF restore, SetsOwned
    <2>4. OnlyWakes(wr, wr')
      BY <1>0, <1>10, WakeEffect DEF restore, ProducersAfterRestore, OnlyWakes
    <2>5. AskersDistinct'
      BY <1>0, <1>1, <1>10, <2>4 DEF restore, AskersDistinct, Asking, OnlyWakes
    <2>6. UsersDistinct'
      BY <1>0, <1>1, <1>10, <2>2 DEF restore, UsersDistinct
    <2> QED BY <1>1, <2>2, <2>3, <2>5, <2>6 DEF DeadEmpty
  <1>11. ASSUME NEW n \in 1 .. MaxCap, setCapacity(n)
         PROVE  (SetsOwned /\ AskersDistinct /\ UsersDistinct /\ DeadEmpty)'
    <2>1. SameSets(pool, pool') /\ pool'.closed = pool.closed
          /\ pool'.dead = pool.dead
      BY <1>0, <1>11, ControlFields DEF setCapacity
    <2>2. OnlyWakes(wr, wr')
      BY <1>0, <1>11, WakeEffect DEF setCapacity
    <2>3. AskersDistinct'
      BY <1>0, <1>1, <1>11, <2>2
         DEF setCapacity, AskersDistinct, Asking, OnlyWakes
    <2> QED BY <1>1, <1>11, <2>1, <2>3
        DEF setCapacity, SetsOwned, UsersDistinct, DeadEmpty, SameSets
  <1>12. CASE interrupt \/ close \/ terminate
    <2>1. /\ pool'.free = pool.free /\ pool'.active = pool.active
          /\ pool'.ready \subseteq pool.ready
          /\ pool'.dead => pool'.closed /\ pool'.ready = {}
      BY <1>0, <1>1, <1>12, ControlFields
         DEF interrupt, close, terminate, SameControl, SameSets, DeadEmpty
    <2>2. OnlyWakes(wr, wr') /\ OnlyWakes(rd, rd')
      BY <1>0, <1>12, WakeEffect DEF interrupt, close, terminate, OnlyWakes
    <2>3. AskersDistinct'
      BY <1>0, <1>1, <1>12, <2>2
         DEF interrupt, close, terminate, AskersDistinct, Asking, OnlyWakes
    <2>4. UsersDistinct'
      BY <1>0, <1>1, <1>12, <2>1, <2>2
         DEF interrupt, close, terminate, UsersDistinct, OnlyWakes
    <2> QED BY <1>1, <1>12, <2>1, <2>3, <2>4
        DEF interrupt, close, terminate, SetsOwned, DeadEmpty
  <1>13. CASE UNCHANGED vars
    BY <1>1, <1>13
       DEF vars, SetsOwned, AskersDistinct, Asking, UsersDistinct, DeadEmpty
  <1> QED BY <1>2, <1>3, <1>4, <1>5, <1>6, <1>8, <1>9, <1>10, <1>11, <1>12,
             <1>13 DEF Next, getWriter, getReader

\* Initially there are no pipes.
LEMMA OwnInvInit == Init => OwnInv
  BY TypeInvInit DEF Init, OwnInv, SetsOwned, AskersDistinct, UsersDistinct,
     DeadEmpty, Asking, newPipePool
-----------------------------------------------------------------------------
(***************************************************************************)
(* The announced index, sleepers and delivery in order.                    *)
(***************************************************************************)
\* waitIdx is set exactly while the index reader is inside its loop.
WaitInv ==
    \A c \in Consumers :
       pool.waitIdx = IF Ordered /\ rd[c] \in {"parked", "woken"}
                      THEN cursor ELSE NoIdx

\* The index reader has taken everything below its cursor, until it is given
\* nil.
InOrder ==
    Ordered => \A c \in Consumers :
                  rd[c] # "quit" => \A j \in Idx : j < cursor => j \in taken

CallInv == OwnInv /\ WaitInv /\ AnnouncedProceeds /\ InOrder

\* Every step keeps the announcement, the sleepers and the cursor consistent.
LEMMA CallInvStep == CallInv /\ [Next]_vars => CallInv'
  <1> SUFFICES ASSUME CallInv, [Next]_vars PROVE CallInv'
    OBVIOUS
  <1>0. /\ TypeInv /\ OwnInv /\ OwnInv' /\ pool \in Pools
        /\ wr \in [Producers -> Place] /\ wrIdx \in [Producers -> Idx]
        /\ rd \in [Consumers -> Place] /\ rdIdx \in [Consumers -> Idx]
        /\ cursor \in Nat /\ NoIdx = -1
    BY OwnInvStep DEF CallInv, OwnInv, TypeInv, TypeOK, Pools, NoIdx
  <1> SUFFICES (WaitInv /\ AnnouncedProceeds /\ InOrder)'
    BY <1>0 DEF CallInv
  <1>1. WaitInv /\ AnnouncedProceeds /\ InOrder
    BY DEF CallInv
  <1> USE DEF Parked
  <1>2. ASSUME NEW p \in Producers, NEW i \in Idx, CallGetWriter(p, i)
        PROVE  (WaitInv /\ AnnouncedProceeds /\ InOrder)'
    BY <1>0, <1>1, <1>2
       DEF CallGetWriter, WaitInv, AnnouncedProceeds, InOrder
  <1>3. ASSUME NEW p \in Producers, getWriterParks(p) \/ getWriterRefuses(p)
        PROVE  (WaitInv /\ AnnouncedProceeds /\ InOrder)'
    BY <1>0, <1>1, <1>3
       DEF getWriterParks, getWriterRefuses, WriterBlocked, WaitInv,
           AnnouncedProceeds, InOrder
  <1>4. ASSUME NEW p \in Producers, getWriterGrants(p)
        PROVE  (WaitInv /\ AnnouncedProceeds /\ InOrder)'
    <2>1. pool'.waitIdx = pool.waitIdx /\ pool'.closed = pool.closed
      BY <1>0, <1>4, GetWriterFields DEF getWriterGrants, SameControl
    <2>2. OnlyWakes(rd, rd') /\ DOMAIN rd' = DOMAIN rd
      BY <1>0, <1>4, WakeEffect, WakeTypes DEF getWriterGrants, ReadersAfterGrant
    <2> QED BY <1>0, <1>1, <1>4, <2>1, <2>2
        DEF getWriterGrants, WaitInv, AnnouncedProceeds, InOrder, OnlyWakes
  <1>5. ASSUME NEW p \in Producers, FinishPipe(p)
        PROVE  (WaitInv /\ AnnouncedProceeds /\ InOrder)'
    <2>1. pool'.waitIdx = pool.waitIdx /\ pool'.closed = pool.closed
      BY <1>0, <1>5, ControlFields DEF FinishPipe, SameControl
    <2> QED BY <1>0, <1>1, <1>5, <2>1
        DEF FinishPipe, WaitInv, AnnouncedProceeds, InOrder
  <1>6. ASSUME NEW c \in Consumers, CallGetReader(c)
        PROVE  (WaitInv /\ AnnouncedProceeds /\ InOrder)'
    BY <1>0, <1>1, <1>6 DEF CallGetReader, WaitInv, AnnouncedProceeds, InOrder
  <1>7. ASSUME NEW c \in Consumers, rd[c] \in {"enter", "woken"},
               wr' = ProducersAfterEntry(c), UNCHANGED wrIdx,
               pool'.waitIdx \in {Announced(c).waitIdx, NoIdx},
               pool'.closed = pool.closed
        PROVE  /\ \A p \in Parked(wr') : wrIdx'[p] # pool'.waitIdx
               /\ pool'.closed => Parked(wr') = {}
    <2>1. CASE Ordered /\ rd[c] = "enter"
      <3>1. wr' = Broadcast(wr)
        BY <1>7, <2>1 DEF ProducersAfterEntry
      <3>2. Parked(wr') = {}
        BY <1>0, <3>1, WakeEffect, WakeTypes
      <3> QED BY <3>2
    <2>2. CASE ~(Ordered /\ rd[c] = "enter")
      <3>1. wr' = wr /\ Announced(c).waitIdx = pool.waitIdx
        BY <1>7, <2>2 DEF ProducersAfterEntry, Announced
      <3>2. \A p \in Producers : wrIdx[p] # NoIdx
        BY <1>0 DEF Idx
      <3> QED BY <1>0, <1>1, <1>7, <3>1, <3>2 DEF AnnouncedProceeds
    <2> QED BY <2>1, <2>2
  <1>8. ASSUME NEW c \in Consumers, getReaderParks(c)
        PROVE  (WaitInv /\ AnnouncedProceeds /\ InOrder)'
    <2>1. /\ pool'.closed = pool.closed
          /\ pool'.waitIdx = Announced(c).waitIdx
          /\ Announced(c).waitIdx =
               IF Ordered /\ rd[c] = "enter" THEN cursor ELSE pool.waitIdx
      BY <1>0, <1>8, AnnouncedFields DEF getReaderParks, SameControl
    <2>2. WaitInv'
      BY <1>0, <1>1, <1>8, <2>1, PoolAssumption DEF getReaderParks, WaitInv
    <2>3. AnnouncedProceeds'
      <3>1. ~pool.closed
        BY <1>8 DEF getReaderParks, ReaderBlocked
      <3> QED BY <1>7, <1>8, <2>1, <3>1 DEF getReaderParks, AnnouncedProceeds
    <2>4. InOrder'
      BY <1>0, <1>1, <1>8 DEF getReaderParks, InOrder
    <2> QED BY <2>2, <2>3, <2>4
  <1>9. ASSUME NEW c \in Consumers, getReaderTakes(c)
        PROVE  (WaitInv /\ AnnouncedProceeds /\ InOrder)'
    <2>1. PICK i \in Readable(pool, Want) :
            /\ pool' = GetReader(Announced(c), Want, i)
            /\ taken' = taken \cup {i}
      BY <1>9 DEF getReaderTakes
    <2>2. Announced(c) \in Pools /\ i \in Idx
      BY <1>0, <1>9, <2>1, EntryTypes DEF getReaderTakes
    <2>3. /\ pool'.closed = pool.closed
          /\ pool'.waitIdx = IF Ordered THEN NoIdx ELSE pool.waitIdx
          /\ pool'.waitIdx \in {Announced(c).waitIdx, NoIdx}
      <3>1. (Want = NoIdx) <=> ~Ordered
        BY <1>0 DEF Want
      <3>2. ~Ordered => Announced(c).waitIdx = pool.waitIdx
        BY DEF Announced
      <3> QED BY <1>0, <2>1, <2>2, <3>1, <3>2, AnnouncedFields, GetReaderFields
          DEF SameControl
    <2>4. WaitInv'
      BY <1>0, <1>1, <1>9, <2>3, PoolAssumption DEF getReaderTakes, WaitInv
    <2>5. AnnouncedProceeds'
      BY <1>0, <1>1, <1>7, <1>9, <2>3 DEF getReaderTakes, AnnouncedProceeds
    <2>6. InOrder'
      <3> SUFFICES ASSUME Ordered, NEW j \in Idx, j < cursor'
                   PROVE  j \in taken'
        BY DEF InOrder
      <3>1. i = cursor
        BY <1>0, <2>1 DEF Readable, Want
      <3>2. j < cursor \/ j = cursor
        BY <1>0, <1>9 DEF getReaderTakes, Idx
      <3>3. rd[c] # "quit"
        BY <1>9 DEF getReaderTakes
      <3> QED BY <1>1, <2>1, <3>1, <3>2, <3>3 DEF InOrder
    <2> QED BY <2>4, <2>5, <2>6
  <1>10. ASSUME NEW c \in Consumers, getReaderEnds(c)
         PROVE  (WaitInv /\ AnnouncedProceeds /\ InOrder)'
    <2>1. Announced(c) \in Pools /\ 0 \in Idx
      BY <1>0, <1>10, EntryTypes, PoolAssumption DEF getReaderEnds, Idx
    <2>2. /\ pool'.closed = pool.closed
          /\ pool'.waitIdx = IF Ordered THEN NoIdx ELSE pool.waitIdx
          /\ pool'.waitIdx \in {Announced(c).waitIdx, NoIdx}
      <3>1. (Want = NoIdx) <=> ~Ordered
        BY <1>0 DEF Want
      <3>2. ~Ordered => Announced(c).waitIdx = pool.waitIdx
        BY DEF Announced
      <3>3. /\ SameControl(Announced(c), pool')
            /\ pool'.waitIdx =
                 IF Want = NoIdx THEN Announced(c).waitIdx ELSE NoIdx
        BY <1>10, <2>1, GetReaderFields DEF getReaderEnds
      <3>4. SameControl(pool, Announced(c))
        BY <1>0, AnnouncedFields
      <3> QED BY <3>1, <3>2, <3>3, <3>4 DEF SameControl
    <2>3. WaitInv'
      BY <1>0, <1>1, <1>10, <2>2, PoolAssumption DEF getReaderEnds, WaitInv
    <2>4. AnnouncedProceeds'
      BY <1>0, <1>1, <1>7, <1>10, <2>2 DEF getReaderEnds, AnnouncedProceeds
    <2>5. InOrder'
      BY <1>0, <1>1, <1>10, PoolAssumption DEF getReaderEnds, InOrder
    <2> QED BY <2>3, <2>4, <2>5
  <1>11. ASSUME NEW c \in Consumers, restore(c)
         PROVE  (WaitInv /\ AnnouncedProceeds /\ InOrder)'
    <2>1. pool'.waitIdx = pool.waitIdx /\ pool'.closed = pool.closed
      BY <1>0, <1>11, RestoreFields DEF restore, SameControl
    <2>2. OnlyWakes(wr, wr') /\ DOMAIN wr' = DOMAIN wr
      BY <1>0, <1>11, WakeEffect, WakeTypes DEF restore, ProducersAfterRestore, OnlyWakes
    <2> QED BY <1>0, <1>1, <1>11, <2>1, <2>2
        DEF restore, WaitInv, AnnouncedProceeds, InOrder, OnlyWakes
  <1>12. ASSUME NEW n \in 1 .. MaxCap, setCapacity(n)
         PROVE  (WaitInv /\ AnnouncedProceeds /\ InOrder)'
    <2>1. pool'.waitIdx = pool.waitIdx /\ pool'.closed = pool.closed
      BY <1>0, <1>12, ControlFields DEF setCapacity
    <2>2. Parked(wr') = {}
      BY <1>0, <1>12, WakeEffect, WakeTypes DEF setCapacity
    <2> QED BY <1>0, <1>1, <1>12, <2>1, <2>2
        DEF setCapacity, WaitInv, AnnouncedProceeds, InOrder
  <1>13. CASE interrupt
    <2>1. pool'.waitIdx = pool.waitIdx /\ pool'.closed = pool.closed
      BY <1>0, <1>13, ControlFields DEF interrupt, SameControl
    <2> QED BY <1>0, <1>1, <1>13, <2>1
        DEF interrupt, WaitInv, AnnouncedProceeds, InOrder
  <1>14. CASE close \/ terminate
    <2>1. pool'.waitIdx = pool.waitIdx
      BY <1>0, <1>14, ControlFields DEF close, terminate
    <2>2. Parked(wr') = {} /\ Parked(rd') = {}
      BY <1>0, <1>14, WakeEffect, WakeTypes DEF close, terminate
    <2>3. OnlyWakes(rd, rd')
      BY <1>0, <1>14, WakeEffect DEF close, terminate
    <2> QED BY <1>0, <1>1, <1>14, <2>1, <2>2, <2>3
        DEF close, terminate, WaitInv, AnnouncedProceeds, InOrder, OnlyWakes
  <1>15. CASE UNCHANGED vars
    BY <1>1, <1>15 DEF vars, WaitInv, AnnouncedProceeds, InOrder
  <1> QED BY <1>2, <1>3, <1>4, <1>5, <1>6, <1>8, <1>9, <1>10, <1>11, <1>12,
             <1>13, <1>14, <1>15 DEF Next, getWriter, getReader

\* Initially nobody waits and nothing is announced.
LEMMA CallInvInit == Init => CallInv
  BY OwnInvInit DEF Init, CallInv, WaitInv, AnnouncedProceeds, InOrder, Parked,
     newPipePool, Idx

\* The comment of getReader holds for any number of callers: the producer
\* whose index is announced is never asleep, and close leaves no sleeper.
THEOREM AnnouncedNeverSleeps == Spec => []AnnouncedProceeds
  <1>1. CallInv => AnnouncedProceeds BY DEF CallInv
  <1> QED BY <1>1, CallInvInit, CallInvStep, PTL DEF Spec

\* None of the panics of pool.go can be reached by callers that behave as
\* xz/writer.go does.
THEOREM PanicFree == Spec => []NoPanic
  <1>1. CallInv => NoPanic
    BY DEF CallInv, OwnInv, SetsOwned, AskersDistinct, UsersDistinct, WaitInv,
       NoPanic
  <1> QED BY <1>1, CallInvInit, CallInvStep, PTL DEF Spec
-----------------------------------------------------------------------------
(***************************************************************************)
(* The pool implements PipeQueue.                                          *)
(***************************************************************************)
\* A step that grants and takes nothing and leaves the pool open or closed as
\* it was is a stuttering step of the queue.
LEMMA QueueStutters ==
    ASSUME pool'.closed = pool.closed, pool'.dead = pool.dead,
           granted' = granted, taken' = taken
    PROVE  UNCHANGED Queue!vars
  BY DEF Queue!vars

\* Every step of the pool is a step of the queue or changes nothing in it.
LEMMA QueueStep == CallInv /\ [Next]_vars => [Queue!Next]_(Queue!vars)
  <1> SUFFICES ASSUME CallInv, [Next]_vars
               PROVE  Queue!Next \/ UNCHANGED Queue!vars
    OBVIOUS
  <1>0. /\ TypeInv /\ OwnInv /\ pool \in Pools
        /\ wrIdx \in [Producers -> Idx] /\ rdIdx \in [Consumers -> Idx]
        /\ cursor \in Nat /\ NoIdx = -1
    BY DEF CallInv, OwnInv, TypeInv, TypeOK, Pools, NoIdx
  <1>1. ASSUME NEW p \in Producers, NEW i \in Idx, CallGetWriter(p, i)
        PROVE  UNCHANGED Queue!vars
    BY <1>1, QueueStutters DEF CallGetWriter
  <1>2. ASSUME NEW p \in Producers, getWriterParks(p) \/ getWriterRefuses(p)
        PROVE  UNCHANGED Queue!vars
    BY <1>2, QueueStutters DEF getWriterParks, getWriterRefuses
  <1>3. ASSUME NEW p \in Producers, getWriterGrants(p)
        PROVE  Queue!Next
    <2>1. pool'.closed = pool.closed /\ pool'.dead = pool.dead
      BY <1>0, <1>3, GetWriterFields DEF getWriterGrants, SameControl
    <2>2. wrIdx[p] \in Idx /\ wrIdx[p] \notin granted
      BY <1>0, <1>3 DEF getWriterGrants, OwnInv, AskersDistinct, Asking
    <2>3. ~pool.closed /\ ~pool.dead
      BY <1>0, <1>3 DEF getWriterGrants, OwnInv, DeadEmpty
    <2>4. Queue!Offer(wrIdx[p])
      BY <1>3, <2>1, <2>2, <2>3 DEF getWriterGrants, Queue!Offer
    <2> QED BY <2>2, <2>4 DEF Queue!Next
  <1>4. ASSUME NEW p \in Producers, FinishPipe(p)
        PROVE  UNCHANGED Queue!vars
    <2>1. pool'.closed = pool.closed /\ pool'.dead = pool.dead
      BY <1>0, <1>4, ControlFields DEF FinishPipe, SameControl
    <2> QED BY <1>4, <2>1, QueueStutters DEF FinishPipe
  <1>5. ASSUME NEW c \in Consumers, CallGetReader(c)
        PROVE  UNCHANGED Queue!vars
    BY <1>5, QueueStutters DEF CallGetReader
  <1>6. ASSUME NEW c \in Consumers, getReaderParks(c) \/ getReaderEnds(c)
        PROVE  UNCHANGED Queue!vars
    <2>1. Announced(c) \in Pools /\ 0 \in Idx
      BY <1>0, <1>6, EntryTypes, PoolAssumption
         DEF getReaderParks, getReaderEnds, Idx
    <2>2. SameControl(pool, Announced(c))
      BY <1>0, AnnouncedFields
    <2>3. SameControl(Announced(c), GetReaderNil(Announced(c), Want))
      BY <2>1, GetReaderFields
    <2>4. pool'.closed = pool.closed /\ pool'.dead = pool.dead
      BY <1>6, <2>2, <2>3 DEF getReaderParks, getReaderEnds, SameControl
    <2> QED BY <1>6, <2>4, QueueStutters DEF getReaderParks, getReaderEnds
  <1>7. ASSUME NEW c \in Consumers, getReaderTakes(c)
        PROVE  Queue!Next
    <2>1. PICK i \in Readable(pool, Want) :
            /\ pool' = GetReader(Announced(c), Want, i)
            /\ taken' = taken \cup {i}
      BY <1>7 DEF getReaderTakes
    <2>2. Announced(c) \in Pools /\ i \in Idx /\ i \in pool.ready
      BY <1>0, <1>7, <2>1, EntryTypes DEF getReaderTakes, Readable
    <2>3. SameControl(pool, Announced(c)) /\ SameControl(Announced(c), pool')
      BY <1>0, <2>1, <2>2, AnnouncedFields, GetReaderFields
    <2>4. pool'.closed = pool.closed /\ pool'.dead = pool.dead
      BY <2>3 DEF SameControl
    <2>5. i \in granted \ taken /\ ~pool.dead
      BY <1>0, <2>2 DEF OwnInv, SetsOwned, DeadEmpty
    <2>6. Ordered => \A j \in Idx : j < i => j \in taken
      <3>1. Ordered => i = cursor
        BY <1>0, <2>1 DEF Readable, Want
      <3>2. rd[c] # "quit"
        BY <1>7 DEF getReaderTakes
      <3> QED BY <3>1, <3>2 DEF CallInv, InOrder
    <2>7. Queue!Deliver(i)
      BY <1>7, <2>1, <2>4, <2>5, <2>6 DEF getReaderTakes, Queue!Deliver
    <2> QED BY <2>2, <2>7 DEF Queue!Next
  <1>8. ASSUME NEW c \in Consumers, restore(c)
        PROVE  UNCHANGED Queue!vars
    <2>1. pool'.closed = pool.closed /\ pool'.dead = pool.dead
      BY <1>0, <1>8, RestoreFields DEF restore, SameControl
    <2> QED BY <1>8, <2>1, QueueStutters DEF restore
  <1>9. ASSUME NEW n \in 1 .. MaxCap, setCapacity(n)
        PROVE  UNCHANGED Queue!vars
    <2>1. pool'.closed = pool.closed /\ pool'.dead = pool.dead
      BY <1>0, <1>9, ControlFields DEF setCapacity
    <2> QED BY <1>9, <2>1, QueueStutters DEF setCapacity
  <1>10. CASE interrupt
    <2>1. pool'.closed = pool.closed /\ pool'.dead = pool.dead
      BY <1>0, <1>10, ControlFields DEF interrupt, SameControl
    <2> QED BY <1>10, <2>1, QueueStutters DEF interrupt
  <1>11. CASE close
    <2>1. pool'.closed /\ pool'.dead = pool.dead
      BY <1>0, <1>11, ControlFields DEF close
    <2>2. CASE pool.closed
      <3>1. pool'.closed = pool.closed
        <4>1. pool' = [pool EXCEPT !.closed = TRUE] /\ pool.closed = TRUE
          BY <1>0, <1>11, <2>2 DEF close, Close, Pools, PoolType
        <4> QED BY <1>0, <4>1 DEF Pools, PoolType
      <3> QED BY <1>11, <2>1, <3>1, QueueStutters DEF close
    <2>3. CASE ~pool.closed
      <3>1. ~pool.dead
        BY <1>0, <2>3 DEF OwnInv, DeadEmpty
      <3>2. Queue!Close
        BY <1>11, <2>1, <2>3, <3>1 DEF close, Queue!Close
      <3> QED BY <3>2 DEF Queue!Next
    <2> QED BY <2>2, <2>3
  <1>12. CASE terminate
    <2>1. pool'.closed /\ pool'.dead
      BY <1>0, <1>12, ControlFields DEF terminate
    <2>2. CASE pool.dead
      BY <1>12, <2>1, <2>2 DEF terminate, Queue!vars
    <2>3. CASE ~pool.dead
      <3>1. Queue!Terminate
        BY <1>12, <2>1, <2>3 DEF terminate, Queue!Terminate
      <3> QED BY <3>1 DEF Queue!Next
    <2> QED BY <2>2, <2>3
  <1>13. CASE UNCHANGED vars
    BY <1>13, QueueStutters DEF vars
  <1> QED BY <1>1, <1>2, <1>3, <1>4, <1>5, <1>6, <1>7, <1>8, <1>9, <1>10,
             <1>11, <1>12, <1>13 DEF Next, getWriter, getReader

\* The pool implements the queue for any number of callers and any capacity:
\* each granted index is delivered at most once, in index order to the index
\* reader, none is granted after close and none delivered after terminate.
THEOREM PoolIsQueue == Spec => ImplementsQueue
  <1>1. Init => Queue!Init
    BY DEF Init, newPipePool, Queue!Init
  <1> QED BY <1>1, CallInvInit, CallInvStep, QueueStep, PTL
      DEF Spec, ImplementsQueue, Queue!Spec
-----------------------------------------------------------------------------
(***************************************************************************)
(* Counting pipes.                                                         *)
(***************************************************************************)
HeldBy(pp) ==
    Cardinality(pp.free) + Cardinality(pp.ready) + Cardinality(pp.active)

\* The sets of a pool are finite.
LEMMA PoolFinite ==
    ASSUME NEW pp \in Pools
    PROVE  /\ IsFiniteSet(pp.free) /\ Cardinality(pp.free) \in Nat
           /\ IsFiniteSet(pp.ready) /\ Cardinality(pp.ready) \in Nat
           /\ IsFiniteSet(pp.active) /\ Cardinality(pp.active) \in Nat
  <1>1. IsFiniteSet(Idx)
    BY PoolAssumption, FS_Interval DEF Idx
  <1>2. pp.free \subseteq Idx /\ pp.ready \subseteq Idx /\ pp.active \subseteq Idx
    BY DEF Pools, PoolType
  <1>3. IsFiniteSet(pp.free) /\ IsFiniteSet(pp.ready) /\ IsFiniteSet(pp.active)
    BY <1>1, <1>2, FS_Subset
  <1> QED BY <1>3, FS_CardinalityType

\* pp.len counts the pipes in the three sets.
Counted ==
    IF pool.dead THEN HeldBy(pool) <= pool.len ELSE HeldBy(pool) = pool.len

CountInv == OwnInv /\ Counted

\* No step loses or duplicates a pipe or miscounts it.
LEMMA CountInvStep == CountInv /\ [Next]_vars => CountInv'
  <1> SUFFICES ASSUME CountInv, [Next]_vars PROVE CountInv'
    OBVIOUS
  <1>0. /\ TypeInv /\ OwnInv /\ OwnInv' /\ Counted /\ pool \in Pools
        /\ pool' \in Pools /\ pool.len \in Nat
        /\ wrIdx \in [Producers -> Idx] /\ rdIdx \in [Consumers -> Idx]
    BY OwnInvStep DEF CountInv, OwnInv, TypeInv, TypeOK, Pools, PoolType
  <1> SUFFICES Counted'
    BY <1>0 DEF CountInv
  <1>a. ASSUME SameSets(pool, pool'), pool'.dead = pool.dead
        PROVE  Counted'
    BY <1>0, <1>a DEF Counted, HeldBy, SameSets
  <1>b. /\ IsFiniteSet(pool.free) /\ Cardinality(pool.free) \in Nat
        /\ IsFiniteSet(pool.ready) /\ Cardinality(pool.ready) \in Nat
        /\ IsFiniteSet(pool.active) /\ Cardinality(pool.active) \in Nat
    BY <1>0, PoolFinite
  <1>1. ASSUME NEW p \in Producers, NEW i \in Idx, CallGetWriter(p, i)
        PROVE  Counted'
    BY <1>1, <1>a DEF CallGetWriter, SameSets
  <1>2. ASSUME NEW p \in Producers, getWriterParks(p) \/ getWriterRefuses(p)
        PROVE  Counted'
    BY <1>2, <1>a DEF getWriterParks, getWriterRefuses, SameSets
  <1>3. ASSUME NEW p \in Producers, getWriterGrants(p)
        PROVE  Counted'
    <2>1. /\ ~pool.dead /\ pool'.dead = pool.dead
          /\ pool'.ready = pool.ready \cup {wrIdx[p]}
          /\ pool'.active = pool.active
          /\ pool.free = {} => pool'.free = {} /\ pool'.len = pool.len + 1
          /\ pool.free # {} => /\ \E f \in pool.free : pool'.free = pool.free \ {f}
                               /\ pool'.len = pool.len
      BY <1>0, <1>3, GetWriterFields
         DEF getWriterGrants, SameControl, OwnInv, DeadEmpty
    <2>2. wrIdx[p] \notin pool.ready
      BY <1>0, <1>3 DEF getWriterGrants, OwnInv, AskersDistinct, SetsOwned, Asking
    <2>3. Cardinality(pool'.ready) = Cardinality(pool.ready) + 1
      BY <1>b, <2>1, <2>2, FS_AddElement
    <2>4. pool.free # {} => Cardinality(pool'.free) = Cardinality(pool.free) - 1
      BY <1>b, <2>1, FS_RemoveElement
    <2>5. HeldBy(pool) = pool.len
      BY <1>0, <2>1 DEF Counted
    <2>6. CASE pool.free = {}
      <3>1. pool'.free = pool.free /\ pool'.len = pool.len + 1
        BY <2>1, <2>6
      <3> QED BY <1>0, <1>b, <2>1, <2>3, <2>5, <3>1 DEF Counted, HeldBy
    <2>7. CASE pool.free # {}
      <3>1. pool'.len = pool.len
        BY <2>1, <2>7
      <3> QED BY <1>0, <1>b, <2>1, <2>3, <2>4, <2>5, <2>7, <3>1 DEF Counted, HeldBy
    <2> QED BY <2>6, <2>7
  <1>4. ASSUME NEW p \in Producers, FinishPipe(p)
        PROVE  Counted'
    BY <1>0, <1>4, <1>a, ControlFields DEF FinishPipe, SameControl
  <1>5. ASSUME NEW c \in Consumers, CallGetReader(c)
        PROVE  Counted'
    BY <1>5, <1>a DEF CallGetReader, SameSets
  <1>6. ASSUME NEW c \in Consumers, getReaderParks(c) \/ getReaderEnds(c)
        PROVE  Counted'
    <2>1. Announced(c) \in Pools /\ 0 \in Idx
      BY <1>0, <1>6, EntryTypes, PoolAssumption
         DEF getReaderParks, getReaderEnds, Idx
    <2>2. SameControl(pool, Announced(c)) /\ SameSets(pool, Announced(c))
      BY <1>0, AnnouncedFields
    <2>3. /\ SameControl(Announced(c), GetReaderNil(Announced(c), Want))
          /\ SameSets(Announced(c), GetReaderNil(Announced(c), Want))
      BY <2>1, GetReaderFields
    <2>4. SameSets(pool, pool') /\ pool'.dead = pool.dead
      BY <1>6, <2>2, <2>3
         DEF getReaderParks, getReaderEnds, SameControl, SameSets
    <2> QED BY <1>a, <2>4
  <1>7. ASSUME NEW c \in Consumers, getReaderTakes(c)
        PROVE  Counted'
    <2>1. PICK i \in Readable(pool, Want) :
            pool' = GetReader(Announced(c), Want, i)
      BY <1>7 DEF getReaderTakes
    <2>2. Announced(c) \in Pools /\ i \in Idx /\ i \in pool.ready
      BY <1>0, <1>7, <2>1, EntryTypes DEF getReaderTakes, Readable
    <2>3. /\ pool'.ready = pool.ready \ {i} /\ pool'.free = pool.free
          /\ pool'.active = pool.active \cup {i}
          /\ pool'.len = pool.len /\ pool'.dead = pool.dead
      BY <1>0, <2>1, <2>2, AnnouncedFields, GetReaderFields
         DEF SameControl, SameSets
    <2>4. i \notin pool.active
      BY <1>0, <2>2 DEF OwnInv, SetsOwned
    <2>5. Cardinality(pool'.ready) = Cardinality(pool.ready) - 1
      BY <1>b, <2>2, <2>3, FS_RemoveElement
    <2>6. Cardinality(pool'.active) = Cardinality(pool.active) + 1
      BY <1>b, <2>3, <2>4, FS_AddElement
    <2> QED BY <1>0, <1>b, <2>3, <2>5, <2>6 DEF Counted, HeldBy
  <1>8. ASSUME NEW c \in Consumers, restore(c)
        PROVE  Counted'
    <2> DEFINE i == rdIdx[c]
    <2>1. i \in pool.active /\ i \notin pool.free /\ i \in Idx
      BY <1>0, <1>8 DEF restore, OwnInv, UsersDistinct, SetsOwned
    <2>2. /\ pool'.ready = pool.ready /\ pool'.active = pool.active \ {i}
          /\ pool'.dead = pool.dead
          /\ Keeps(pool) => pool'.free = pool.free \cup {i} /\ pool'.len = pool.len
          /\ ~Keeps(pool) => pool'.free = pool.free /\ pool'.len = pool.len - 1
      BY <1>0, <1>8, <2>1, RestoreFields DEF restore, SameControl
    <2>3. Cardinality(pool'.active) = Cardinality(pool.active) - 1
      BY <1>b, <2>1, <2>2, FS_RemoveElement
    <2>4. Keeps(pool) => Cardinality(pool'.free) = Cardinality(pool.free) + 1
      BY <1>b, <2>1, <2>2, FS_AddElement
    <2> QED BY <1>0, <1>b, <2>2, <2>3, <2>4 DEF Counted, HeldBy
  <1>9. ASSUME NEW n \in 1 .. MaxCap, setCapacity(n)
        PROVE  Counted'
    BY <1>0, <1>9, <1>a, ControlFields DEF setCapacity
  <1>10. CASE interrupt \/ close
    BY <1>0, <1>10, <1>a, ControlFields DEF interrupt, close, SameControl
  <1>11. CASE terminate
    <2>1. /\ pool'.dead /\ pool'.ready = {} /\ pool'.len = pool.len
          /\ pool'.free = pool.free /\ pool'.active = pool.active
      BY <1>0, <1>11, ControlFields DEF terminate
    <2>2. Cardinality(pool'.ready) = 0
      BY <2>1, FS_EmptySet
    <2> QED BY <1>0, <1>b, <2>1, <2>2 DEF Counted, HeldBy
  <1>12. CASE UNCHANGED vars
    BY <1>12, <1>a DEF vars, SameSets
  <1> QED BY <1>1, <1>2, <1>3, <1>4, <1>5, <1>6, <1>7, <1>8, <1>9, <1>10,
             <1>11, <1>12 DEF Next, getWriter, getReader

\* Initially the count is zero.
LEMMA CountInvInit == Init => CountInv
  <1> SUFFICES ASSUME Init PROVE CountInv
    OBVIOUS
  <1>1. /\ pool.free = {} /\ pool.ready = {} /\ pool.active = {}
        /\ pool.len = 0 /\ ~pool.dead
    BY DEF Init, newPipePool
  <1>2. Cardinality({}) = 0
    BY FS_EmptySet
  <1> QED BY <1>1, <1>2, OwnInvInit DEF CountInv, Counted, HeldBy

\* pp.len is exact: every pipe is in one of the three sets and counted once,
\* through reuse, allocation beyond the capacity, drop, close and terminate.
THEOREM PipesAccounted == Spec => []Accounting
  <1>1. CountInv => Accounting
    BY DEF CountInv, OwnInv, SetsOwned, Counted, HeldBy, Accounting
  <1> QED BY <1>1, CountInvInit, CountInvStep, PTL DEF Spec
-----------------------------------------------------------------------------
(***************************************************************************)
(* The pool never exceeds its capacity by more than the announced pipe.    *)
(***************************************************************************)
\* The pipe beyond the capacity is still on its way to the index reader or
\* in its hands.
Extra ==
    \/ pool.waitIdx \in pool.ready
    \/ \E c \in Consumers : rd[c] = "using"

CapInv ==
    /\ CallInv
    /\ CapacityBound
    /\ Ordered /\ ~pool.closed /\ ~Extra => pool.len <= MaxCap

\* No step takes the pool more than one pipe over its capacity.
LEMMA CapInvStep == CapInv /\ [Next]_vars => CapInv'
  <1> SUFFICES ASSUME CapInv, [Next]_vars PROVE CapInv'
    OBVIOUS
  <1>0. /\ TypeInv /\ OwnInv /\ CallInv /\ CallInv' /\ pool \in Pools
        /\ pool' \in Pools /\ pool.len \in Nat /\ pool'.len \in Nat
        /\ pool.cap \in 0 .. MaxCap /\ MaxCap \in Nat /\ NoIdx = -1
        /\ wrIdx \in [Producers -> Idx] /\ rdIdx \in [Consumers -> Idx]
        /\ rd \in [Consumers -> Place] /\ Consumers # {}
    BY CallInvStep, PoolAssumption
       DEF CapInv, CallInv, OwnInv, TypeInv, TypeOK, Pools, PoolType, NoIdx
  <1> DEFINE Bound == CapacityBound
                      /\ (Ordered /\ ~pool.closed /\ ~Extra => pool.len <= MaxCap)
  <1>b. Bound BY DEF CapInv
  <1> SUFFICES Bound'
    BY <1>0 DEF CapInv
  <1>a. ASSUME pool'.len = pool.len, pool'.closed = pool.closed, Extra => Extra'
        PROVE  Bound'
    BY <1>b, <1>a DEF CapacityBound
  <1>c. ASSUME pool'.len <= MaxCap
        PROVE  Bound'
    BY <1>0, <1>c DEF CapacityBound
  <1>d. ASSUME pool'.len = pool.len, pool'.closed
        PROVE  Bound'
    BY <1>b, <1>d DEF CapacityBound
  <1>1. ASSUME NEW p \in Producers, NEW i \in Idx, CallGetWriter(p, i)
        PROVE  Bound'
    BY <1>1, <1>a DEF CallGetWriter, Extra
  <1>2. ASSUME NEW p \in Producers, getWriterParks(p) \/ getWriterRefuses(p)
        PROVE  Bound'
    BY <1>2, <1>a DEF getWriterParks, getWriterRefuses, Extra
  <1>3. ASSUME NEW p \in Producers, getWriterGrants(p)
        PROVE  Bound'
    <2>1. /\ pool'.closed = pool.closed /\ pool'.waitIdx = pool.waitIdx
          /\ pool'.ready = pool.ready \cup {wrIdx[p]}
          /\ pool.free = {} => pool'.len = pool.len + 1
          /\ pool.free # {} => pool'.len = pool.len
      BY <1>0, <1>3, GetWriterFields DEF getWriterGrants, SameControl
    <2>2. OnlyWakes(rd, rd')
      BY <1>0, <1>3, WakeEffect DEF getWriterGrants, ReadersAfterGrant
    <2>3. CASE pool.free # {}
      <3>1. Extra => Extra'
        BY <1>0, <2>1, <2>2 DEF Extra, OnlyWakes
      <3> QED BY <1>a, <2>1, <2>3, <3>1
    <2>4. CASE pool.free = {} /\ pool.len < pool.cap
      <3>1. pool'.len <= MaxCap
        BY <1>0, <2>1, <2>4
      <3> QED BY <1>c, <3>1
    <2>5. CASE pool.free = {} /\ ~(pool.len < pool.cap)
      <3>1. wrIdx[p] = pool.waitIdx /\ wrIdx[p] # NoIdx /\ ~pool.closed
        BY <1>0, <1>3, <2>5 DEF getWriterGrants, WriterBlocked, Idx
      <3>2. Ordered /\ \A c \in Consumers : rd[c] \in {"parked", "woken"}
        BY <1>0, <3>1 DEF CallInv, WaitInv
      <3>3. pool.waitIdx \notin pool.ready
        BY <1>0, <1>3, <3>1
           DEF getWriterGrants, OwnInv, AskersDistinct, SetsOwned, Asking
      <3>4. ~Extra
        BY <3>2, <3>3 DEF Extra
      <3>5. pool.len <= MaxCap
        BY <1>b, <3>1, <3>2, <3>4
      <3>6. pool'.len <= MaxCap + 1
        BY <1>0, <2>1, <2>5, <3>5
      <3>7. Extra'
        BY <2>1, <3>1 DEF Extra
      <3> QED BY <3>2, <3>6, <3>7 DEF CapacityBound
    <2> QED BY <2>3, <2>4, <2>5
  <1>4. ASSUME NEW p \in Producers, FinishPipe(p)
        PROVE  Bound'
    <2>1. /\ SameControl(pool, pool') /\ SameSets(pool, pool')
          /\ pool'.waitIdx = pool.waitIdx
      BY <1>0, <1>4, ControlFields DEF FinishPipe
    <2> QED BY <1>4, <1>a, <2>1 DEF FinishPipe, Extra, SameControl, SameSets
  <1>5. ASSUME NEW c \in Consumers, CallGetReader(c)
        PROVE  Bound'
    <2>1. Extra => Extra'
      BY <1>0, <1>5 DEF CallGetReader, Extra
    <2> QED BY <1>5, <1>a, <2>1 DEF CallGetReader
  <1>6. ASSUME NEW c \in Consumers, getReaderParks(c)
        PROVE  Bound'
    <2>1. /\ SameControl(pool, pool') /\ SameSets(pool, pool')
          /\ pool'.waitIdx = IF Ordered /\ rd[c] = "enter" THEN cursor
                             ELSE pool.waitIdx
      BY <1>0, <1>6, AnnouncedFields DEF getReaderParks
    <2>2. Extra /\ Ordered => Extra'
      <3>1. CASE Ordered /\ rd[c] = "enter"
        <4>1. pool.waitIdx = NoIdx
          BY <1>0, <3>1 DEF CallInv, WaitInv
        <4>2. pool.waitIdx \notin pool.ready
          BY <1>0, <4>1 DEF Pools, PoolType, Idx
        <4>3. \A d \in Consumers : rd[d] # "using"
          BY <3>1, PoolAssumption
        <4> QED BY <4>2, <4>3 DEF Extra
      <3>2. CASE ~(Ordered /\ rd[c] = "enter")
        BY <1>0, <1>6, <2>1, <3>2 DEF getReaderParks, Extra, SameSets
      <3> QED BY <3>1, <3>2
    <2> QED BY <1>b, <2>1, <2>2 DEF SameControl, SameSets, CapacityBound
  <1>7. ASSUME NEW c \in Consumers, getReaderTakes(c)
        PROVE  Bound'
    <2>1. PICK i \in Readable(pool, Want) :
            pool' = GetReader(Announced(c), Want, i)
      BY <1>7 DEF getReaderTakes
    <2>2. Announced(c) \in Pools /\ i \in Idx
      BY <1>0, <1>7, <2>1, EntryTypes DEF getReaderTakes
    <2>3. pool'.len = pool.len /\ pool'.closed = pool.closed
      BY <1>0, <2>1, <2>2, AnnouncedFields, GetReaderFields
         DEF SameControl, SameSets
    <2>4. Extra'
      BY <1>0, <1>7 DEF getReaderTakes, Extra
    <2> QED BY <1>a, <2>3, <2>4
  <1>8. ASSUME NEW c \in Consumers, getReaderEnds(c)
        PROVE  Bound'
    <2>1. Announced(c) \in Pools /\ 0 \in Idx
      BY <1>0, <1>8, EntryTypes, PoolAssumption DEF getReaderEnds, Idx
    <2>2. SameControl(pool, Announced(c)) /\ SameSets(pool, Announced(c))
      BY <1>0, AnnouncedFields
    <2>3. SameControl(Announced(c), pool') /\ SameSets(Announced(c), pool')
      BY <1>8, <2>1, GetReaderFields DEF getReaderEnds
    <2>4. pool'.len = pool.len /\ pool'.closed
      BY <1>8, <2>2, <2>3 DEF getReaderEnds, Ended, SameControl, SameSets
    <2> QED BY <1>d, <2>4
  <1>9. ASSUME NEW c \in Consumers, restore(c)
        PROVE  Bound'
    <2>1. /\ pool'.closed = pool.closed
          /\ Keeps(pool) => pool'.len = pool.len
          /\ ~Keeps(pool) => pool'.len = pool.len - 1
      BY <1>0, <1>9, RestoreFields DEF restore, SameControl
    <2>2. CASE Keeps(pool)
      <3>1. pool'.len <= MaxCap
        BY <1>0, <2>1, <2>2 DEF Keeps
      <3> QED BY <1>c, <3>1
    <2>3. CASE ~Keeps(pool)
      <3>1. pool.len <= MaxCap + 1
        BY <1>0, <1>b DEF CapacityBound
      <3>2. pool'.len <= MaxCap
        BY <1>0, <2>1, <2>3, <3>1
      <3> QED BY <1>c, <3>2
    <2> QED BY <2>2, <2>3
  <1>10. ASSUME NEW n \in 1 .. MaxCap, setCapacity(n)
         PROVE  Bound'
    <2>1. /\ pool'.closed = pool.closed /\ SameSets(pool, pool')
          /\ pool'.waitIdx = pool.waitIdx
      BY <1>0, <1>10, ControlFields DEF setCapacity
    <2> QED BY <1>10, <1>a, <2>1 DEF setCapacity, Extra, SameSets
  <1>11. CASE interrupt
    <2>1. /\ SameControl(pool, pool') /\ SameSets(pool, pool')
          /\ pool'.waitIdx = pool.waitIdx
      BY <1>0, <1>11, ControlFields DEF interrupt
    <2> QED BY <1>11, <1>a, <2>1 DEF interrupt, Extra, SameControl, SameSets
  <1>12. CASE close \/ terminate
    <2>1. pool'.closed /\ pool'.len = pool.len
      BY <1>0, <1>12, ControlFields DEF close, terminate, SameSets
    <2> QED BY <1>d, <2>1
  <1>13. CASE UNCHANGED vars
    BY <1>13, <1>a DEF vars, Extra
  <1> HIDE DEF Bound
  <1> QED BY <1>1, <1>2, <1>3, <1>4, <1>5, <1>6, <1>7, <1>8, <1>9, <1>10,
             <1>11, <1>12, <1>13 DEF Next, getWriter, getReader

\* "Violating the capacity limit temporarily" (getReader's comment) means by
\* one pipe, for any number of producers and whatever setCapacity did before;
\* a pool read in any order never exceeds the largest capacity it was given.
THEOREM CapacityKept == Spec => []CapacityBound
  <1>1. Init => CapInv
    BY CallInvInit, PoolAssumption DEF Init, CapInv, CapacityBound, newPipePool
  <1>2. CapInv => CapacityBound BY DEF CapInv
  <1> QED BY <1>1, <1>2, CapInvStep, PTL DEF Spec
-----------------------------------------------------------------------------
(***************************************************************************)
(* Resources and woken callers stay matched.                               *)
(***************************************************************************)
\* The two halves of NoLostWakeup.
ProducersMatched ==
    Parked(wr) # {} =>
      /\ Cardinality(pool.free) <= Cardinality(Woken(wr))
      /\ Cardinality(pool.free) + (pool.cap - pool.len)
           <= Cardinality(Woken(wr))

ConsumersMatched ==
    Parked(rd) # {} =>
      IF Ordered THEN cursor \notin pool.ready
      ELSE Cardinality(pool.ready) <= Cardinality(Woken(rd))

\* There are finitely many woken callers.
LEMMA WokenFinite ==
    ASSUME NEW S, IsFiniteSet(S), NEW place \in [S -> Place]
    PROVE  IsFiniteSet(Woken(place)) /\ Cardinality(Woken(place)) \in Nat
  <1>1. Woken(place) \subseteq S
    BY DEF Woken
  <1> QED BY <1>1, FS_Subset, FS_CardinalityType

\* A caller that goes anywhere but to "woken" is one woken caller less if it
\* was one, and everybody else stays asleep or woken.
LEMMA Moves ==
    ASSUME NEW S, IsFiniteSet(S), NEW place \in [S -> Place], NEW x \in S,
           NEW after \in [S -> Place], after[x] # "woken",
           \A y \in S : y # x => after[y] = place[y]
    PROVE  /\ place[x] # "woken" =>
                Cardinality(Woken(after)) = Cardinality(Woken(place))
           /\ place[x] = "woken" =>
                /\ Cardinality(Woken(after)) = Cardinality(Woken(place)) - 1
                /\ Cardinality(Woken(place)) > 0
           /\ after[x] # "parked" => Parked(after) \subseteq Parked(place)
  <1>1. Woken(after) = Woken(place) \ {x}
    BY DEF Woken
  <1>2. IsFiniteSet(Woken(place)) /\ Cardinality(Woken(place)) \in Nat
    BY WokenFinite
  <1>3. place[x] # "woken" => Woken(after) = Woken(place)
    BY <1>1 DEF Woken
  <1>4. ASSUME place[x] = "woken"
        PROVE  /\ Cardinality(Woken(after)) = Cardinality(Woken(place)) - 1
               /\ Cardinality(Woken(place)) > 0
    <2>1. x \in Woken(place)
      BY <1>4 DEF Woken
    <2>2. Cardinality(Woken(after)) = Cardinality(Woken(place)) - 1
      BY <1>1, <1>2, <2>1, FS_RemoveElement
    <2>3. Cardinality(Woken(place)) # 0
      BY <1>2, <2>1, FS_EmptySet
    <2> QED BY <1>2, <2>2, <2>3
  <1>5. after[x] # "parked" => Parked(after) \subseteq Parked(place)
    BY DEF Parked
  <1> QED BY <1>3, <1>4, <1>5

\* Signal is one woken caller more if there was somebody to wake.
LEMMA SignalWakes ==
    ASSUME NEW S, IsFiniteSet(S), NEW place \in [S -> Place],
           NEW after \in Signal(place)
    PROVE  /\ Parked(place) = {} => after = place
           /\ Parked(place) # {} =>
                Cardinality(Woken(after)) = Cardinality(Woken(place)) + 1
           /\ Parked(after) \subseteq Parked(place)
           /\ (\A x, y \in S : x = y) => Parked(after) = {}
  <1>1. CASE Parked(place) = {}
    <2>1. after = place
      BY <1>1 DEF Signal
    <2> QED BY <1>1, <2>1
  <1>2. CASE Parked(place) # {}
    <2>1. PICK x \in Parked(place) : after = [place EXCEPT ![x] = "woken"]
      BY <1>2 DEF Signal
    <2>2. x \in S /\ place[x] = "parked"
      BY DEF Parked
    <2>3. Woken(after) = Woken(place) \cup {x} /\ x \notin Woken(place)
      BY <2>1, <2>2 DEF Woken
    <2>4. IsFiniteSet(Woken(place))
      BY WokenFinite
    <2>5. Cardinality(Woken(after)) = Cardinality(Woken(place)) + 1
      BY <2>3, <2>4, FS_AddElement
    <2>6. Parked(after) \subseteq Parked(place) /\ x \notin Parked(after)
      BY <2>1, <2>2 DEF Parked
    <2>7. Parked(after) \subseteq S
      BY <2>1 DEF Parked
    <2> QED BY <1>2, <2>2, <2>5, <2>6, <2>7
  <1> QED BY <1>1, <1>2

\* Broadcast leaves nobody asleep.
LEMMA BroadcastWakes ==
    ASSUME NEW S, NEW place \in [S -> Place]
    PROVE  Parked(Broadcast(place)) = {}
  BY DEF Parked, Broadcast

\* No step leaves a producer asleep beside a free pipe, or beside room for a
\* new one, that nobody is coming for.
LEMMA ProducersMatchedStep ==
    ASSUME CallInv, ProducersMatched, [Next]_vars
    PROVE  ProducersMatched'
  <1>0. /\ TypeInv /\ OwnInv /\ pool \in Pools /\ pool' \in Pools
        /\ pool.len \in Nat /\ pool.cap \in Nat
        /\ wr \in [Producers -> Place] /\ wrIdx \in [Producers -> Idx]
        /\ rd \in [Consumers -> Place] /\ rdIdx \in [Consumers -> Idx]
        /\ IsFiniteSet(Producers)
    BY CallInvStep, PoolAssumption
       DEF CallInv, OwnInv, TypeInv, TypeOK, Pools, PoolType
  <1>m. ASSUME NEW p \in Producers, NEW to \in {"idle", "enter", "using", "quit"},
               wr' = [wr EXCEPT ![p] = to]
        PROVE  /\ wr[p] # "woken" =>
                    Cardinality(Woken(wr')) = Cardinality(Woken(wr))
               /\ wr[p] = "woken" =>
                    /\ Cardinality(Woken(wr')) = Cardinality(Woken(wr)) - 1
                    /\ Cardinality(Woken(wr)) > 0
               /\ Parked(wr') \subseteq Parked(wr)
    <2>1. wr' \in [Producers -> Place] /\ wr'[p] = to
      BY <1>0, <1>m DEF Place
    <2>2. \A q \in Producers : q # p => wr'[q] = wr[q]
      BY <1>0, <1>m
    <2>3. to # "woken" /\ to # "parked"
      OBVIOUS
    <2> QED BY <1>0, <2>1, <2>2, <2>3, Moves
  <1>1. /\ IsFiniteSet(pool.free) /\ Cardinality(pool.free) \in Nat
        /\ IsFiniteSet(pool'.free) /\ Cardinality(pool'.free) \in Nat
        /\ Cardinality(Woken(wr)) \in Nat
    BY <1>0, PoolFinite, WokenFinite
  \* Nobody is asleep, or neither the resources nor the producers change.
  <1>a. ASSUME Parked(wr') = {} PROVE ProducersMatched'
    BY <1>a DEF ProducersMatched
  <1>b. ASSUME SameSets(pool, pool'), pool'.cap = pool.cap,
               Parked(wr') \subseteq Parked(wr),
               Cardinality(Woken(wr')) = Cardinality(Woken(wr))
        PROVE  ProducersMatched'
    BY <1>b DEF ProducersMatched, SameSets
  <1>2. ASSUME NEW p \in Producers, NEW i \in Idx, CallGetWriter(p, i)
        PROVE  ProducersMatched'
    <2>1. /\ wr[p] = "idle" /\ wr' = [wr EXCEPT ![p] = "enter"]
          /\ pool' = pool
      BY <1>2 DEF CallGetWriter
    <2>2. /\ Parked(wr') \subseteq Parked(wr)
          /\ Cardinality(Woken(wr')) = Cardinality(Woken(wr))
      BY <1>m, <2>1
    <2> QED BY <1>b, <2>1, <2>2 DEF SameSets
  <1>3. ASSUME NEW p \in Producers, getWriterParks(p)
        PROVE  ProducersMatched'
    <2>1. pool' = pool /\ pool.free = {} /\ pool.cap - pool.len <= 0
      BY <1>0, <1>3 DEF getWriterParks, WriterBlocked
    <2>2. wr' \in [Producers -> Place]
      BY <1>0, <1>3 DEF getWriterParks, Place
    <2>3. Cardinality(Woken(wr')) \in Nat
      BY <1>0, <2>2, WokenFinite
    <2>4. Cardinality(pool'.free) = 0
      BY <2>1, FS_EmptySet
    <2>5. pool'.cap - pool'.len <= 0 /\ pool'.cap - pool'.len \in Int
      BY <1>0, <2>1
    <2> QED BY <2>3, <2>4, <2>5 DEF ProducersMatched
  <1>4. ASSUME NEW p \in Producers, getWriterRefuses(p)
        PROVE  ProducersMatched'
    <2>1. Parked(wr) = {}
      BY <1>4 DEF getWriterRefuses, CallInv, AnnouncedProceeds
    <2>2. Parked(wr') \subseteq Parked(wr)
      BY <1>m, <1>4 DEF getWriterRefuses
    <2> QED BY <1>a, <2>1, <2>2
  <1>5. ASSUME NEW p \in Producers, getWriterGrants(p)
        PROVE  ProducersMatched'
    <2>1. /\ wr[p] \in {"enter", "woken"} /\ wr' = [wr EXCEPT ![p] = "using"]
          /\ pool' \in GetWriter(pool, wrIdx[p])
      BY <1>5 DEF getWriterGrants
    <2>2. /\ pool'.cap = pool.cap
          /\ pool.free = {} => pool'.free = {} /\ pool'.len = pool.len + 1
          /\ pool.free # {} =>
               /\ \E f \in pool.free : pool'.free = pool.free \ {f}
               /\ pool'.len = pool.len
      BY <1>0, <2>1, GetWriterFields DEF SameControl
    <2>3. /\ wr[p] # "woken" =>
               Cardinality(Woken(wr')) = Cardinality(Woken(wr))
          /\ wr[p] = "woken" =>
               /\ Cardinality(Woken(wr')) = Cardinality(Woken(wr)) - 1
               /\ Cardinality(Woken(wr)) > 0
          /\ Parked(wr') \subseteq Parked(wr)
      BY <1>m, <2>1
    <2> SUFFICES ASSUME Parked(wr) # {}
                 PROVE  /\ Cardinality(pool'.free) <= Cardinality(Woken(wr'))
                        /\ Cardinality(pool'.free) + (pool'.cap - pool'.len)
                             <= Cardinality(Woken(wr'))
      BY <2>3 DEF ProducersMatched
    <2>4. /\ Cardinality(pool.free) <= Cardinality(Woken(wr))
          /\ Cardinality(pool.free) + (pool.cap - pool.len)
               <= Cardinality(Woken(wr))
      BY DEF ProducersMatched
    <2>5. CASE pool.free = {}
      <3>1. /\ Cardinality(pool.free) = 0 /\ Cardinality(pool'.free) = 0
            /\ pool'.len = pool.len + 1
        BY <2>2, <2>5, FS_EmptySet
      <3> QED BY <1>0, <1>1, <2>2, <2>3, <2>4, <3>1
    <2>6. CASE pool.free # {}
      <3>1. pool'.len = pool.len
        BY <2>2, <2>6
      <3>2. Cardinality(pool'.free) = Cardinality(pool.free) - 1
        BY <1>1, <2>2, <2>6, FS_RemoveElement
      <3> QED BY <1>0, <1>1, <2>2, <2>3, <2>4, <3>1, <3>2
    <2> QED BY <2>5, <2>6
  <1>6. ASSUME NEW p \in Producers, FinishPipe(p)
        PROVE  ProducersMatched'
    <2>1. SameControl(pool, pool') /\ SameSets(pool, pool')
      BY <1>0, <1>6, ControlFields DEF FinishPipe
    <2>2. wr[p] = "using" /\ wr' = [wr EXCEPT ![p] = "idle"]
      BY <1>6 DEF FinishPipe
    <2>3. /\ Parked(wr') \subseteq Parked(wr)
          /\ Cardinality(Woken(wr')) = Cardinality(Woken(wr))
      BY <1>m, <2>2
    <2> QED BY <1>b, <2>1, <2>3 DEF SameControl
  <1>7. ASSUME NEW c \in Consumers, CallGetReader(c)
        PROVE  ProducersMatched'
    BY <1>b, <1>7 DEF CallGetReader, SameSets
  <1>8. ASSUME NEW c \in Consumers, getReader(c)
        PROVE  ProducersMatched'
    <2>1. wr' = ProducersAfterEntry(c) /\ rd[c] \in {"enter", "woken"}
      BY <1>8 DEF getReader, getReaderParks, getReaderTakes, getReaderEnds
    <2>2. CASE Ordered /\ rd[c] = "enter"
      <3>1. wr' = Broadcast(wr)
        BY <2>1, <2>2 DEF ProducersAfterEntry
      <3> QED BY <1>0, <1>a, <3>1, BroadcastWakes
    <2>3. CASE ~(Ordered /\ rd[c] = "enter")
      <3>1. wr' = wr
        BY <2>1, <2>3 DEF ProducersAfterEntry
      <3>2. Announced(c) \in Pools /\ Readable(pool, Want) \subseteq Idx
            /\ 0 \in Idx
        BY <1>0, <2>1, EntryTypes, PoolAssumption DEF Idx
      <3>3. SameControl(pool, Announced(c)) /\ SameSets(pool, Announced(c))
        BY <1>0, AnnouncedFields
      <3>4. pool'.free = pool.free /\ pool'.len = pool.len
            /\ pool'.cap = pool.cap
        <4>1. CASE getReaderParks(c)
          BY <3>3, <4>1 DEF getReaderParks, SameControl, SameSets
        <4>2. CASE getReaderTakes(c)
          <5>1. PICK i \in Readable(pool, Want) :
                  pool' = GetReader(Announced(c), Want, i)
            BY <4>2 DEF getReaderTakes
          <5> QED BY <3>2, <3>3, <5>1, GetReaderFields
              DEF SameControl, SameSets
        <4>3. CASE getReaderEnds(c)
          <5>1. pool' = GetReaderNil(Announced(c), Want)
            BY <4>3 DEF getReaderEnds
          <5> QED BY <3>2, <3>3, <5>1, GetReaderFields
              DEF SameControl, SameSets
        <4> QED BY <1>8, <4>1, <4>2, <4>3 DEF getReader
      <3> QED BY <3>1, <3>4 DEF ProducersMatched
    <2> QED BY <2>2, <2>3
  <1>9. ASSUME NEW c \in Consumers, restore(c)
        PROVE  ProducersMatched'
    <2> DEFINE i == rdIdx[c]
    <2>1. i \in pool.active /\ i \notin pool.free /\ i \in Idx
      BY <1>0, <1>9 DEF restore, OwnInv, UsersDistinct, SetsOwned
    <2>2. /\ pool'.cap = pool.cap
          /\ Keeps(pool) => /\ pool'.free = pool.free \cup {i}
                            /\ pool'.len = pool.len
          /\ ~Keeps(pool) => /\ pool'.free = pool.free
                             /\ pool'.len = pool.len - 1
      BY <1>0, <1>9, <2>1, RestoreFields DEF restore, SameControl
    <2>3. CASE Keeps(pool)
      <3>1. wr' \in Signal(wr)
        BY <1>9, <2>3 DEF restore, ProducersAfterRestore
      <3>2. /\ Parked(wr) = {} => wr' = wr
            /\ Parked(wr) # {} =>
                 Cardinality(Woken(wr')) = Cardinality(Woken(wr)) + 1
        BY <1>0, <3>1, SignalWakes
      <3>3. Cardinality(pool'.free) = Cardinality(pool.free) + 1
        BY <1>1, <2>1, <2>2, <2>3, FS_AddElement
      <3> QED BY <1>0, <1>1, <2>2, <2>3, <3>2, <3>3 DEF ProducersMatched
    <2>4. CASE ~Keeps(pool)
      <3>1. wr' = wr
        BY <1>9, <2>4 DEF restore, ProducersAfterRestore
      <3>2. pool'.cap - pool'.len <= 0 /\ pool'.cap - pool'.len \in Int
        BY <1>0, <2>2, <2>4 DEF Keeps
      <3>3. pool'.free = pool.free
        BY <2>2, <2>4
      <3> QED BY <1>1, <3>1, <3>2, <3>3 DEF ProducersMatched
    <2> QED BY <2>3, <2>4
  <1>10. ASSUME NEW n \in 1 .. MaxCap, setCapacity(n)
         PROVE  ProducersMatched'
    BY <1>0, <1>a, <1>10, BroadcastWakes DEF setCapacity
  <1>11. CASE interrupt
    <2>1. SameControl(pool, pool') /\ SameSets(pool, pool')
      BY <1>0, <1>11, ControlFields DEF interrupt
    <2> QED BY <1>b, <1>11, <2>1 DEF interrupt, SameControl
  <1>12. CASE close \/ terminate
    BY <1>0, <1>a, <1>12, BroadcastWakes DEF close, terminate
  <1>13. CASE UNCHANGED vars
    BY <1>b, <1>13 DEF vars, SameSets
  <1> QED BY <1>2, <1>3, <1>4, <1>5, <1>6, <1>7, <1>8, <1>9, <1>10, <1>11,
             <1>12, <1>13 DEF Next, getWriter

\* No step leaves a consumer asleep beside a ready pipe that nobody is coming
\* for.
LEMMA ConsumersMatchedStep ==
    ASSUME CallInv, ConsumersMatched, [Next]_vars
    PROVE  ConsumersMatched'
  <1>0. /\ TypeInv /\ OwnInv /\ pool \in Pools /\ pool' \in Pools
        /\ wr \in [Producers -> Place] /\ wrIdx \in [Producers -> Idx]
        /\ rd \in [Consumers -> Place] /\ rdIdx \in [Consumers -> Idx]
        /\ cursor \in Nat /\ NoIdx = -1
        /\ IsFiniteSet(Consumers)
        /\ Ordered => \A c, d \in Consumers : c = d
    BY CallInvStep, PoolAssumption
       DEF CallInv, OwnInv, TypeInv, TypeOK, Pools, NoIdx
  <1>1. /\ IsFiniteSet(pool.ready) /\ Cardinality(pool.ready) \in Nat
        /\ Cardinality(Woken(rd)) \in Nat
    BY <1>0, PoolFinite, WokenFinite
  <1>a. ASSUME Parked(rd') = {} PROVE ConsumersMatched'
    BY <1>a DEF ConsumersMatched
  <1>b. ASSUME pool'.ready = pool.ready, cursor' = cursor,
               Parked(rd') \subseteq Parked(rd),
               Cardinality(Woken(rd')) = Cardinality(Woken(rd))
        PROVE  ConsumersMatched'
    BY <1>b DEF ConsumersMatched
  <1>m. ASSUME NEW c \in Consumers, NEW to \in {"idle", "enter", "using", "quit"},
               rd' = [rd EXCEPT ![c] = to]
        PROVE  /\ rd[c] # "woken" =>
                    Cardinality(Woken(rd')) = Cardinality(Woken(rd))
               /\ rd[c] = "woken" =>
                    /\ Cardinality(Woken(rd')) = Cardinality(Woken(rd)) - 1
                    /\ Cardinality(Woken(rd)) > 0
               /\ Parked(rd') \subseteq Parked(rd)
               /\ c \notin Parked(rd')
    <2>1. rd' \in [Consumers -> Place] /\ rd'[c] = to
      BY <1>0, <1>m DEF Place
    <2>2. \A d \in Consumers : d # c => rd'[d] = rd[d]
      BY <1>0, <1>m
    <2>3. to # "woken" /\ to # "parked"
      OBVIOUS
    <2>4. c \notin Parked(rd')
      BY <2>1, <2>3 DEF Parked
    <2> QED BY <1>0, <2>1, <2>2, <2>3, <2>4, Moves
  <1>2. ASSUME NEW p \in Producers,
               \/ \E i \in Idx : CallGetWriter(p, i)
               \/ getWriterParks(p) \/ getWriterRefuses(p)
        PROVE  ConsumersMatched'
    BY <1>b, <1>2 DEF CallGetWriter, getWriterParks, getWriterRefuses
  <1>3. ASSUME NEW p \in Producers, getWriterGrants(p)
        PROVE  ConsumersMatched'
    <2>1. /\ rd' \in Signal(rd) /\ cursor' = cursor
          /\ pool' \in GetWriter(pool, wrIdx[p])
      BY <1>3 DEF getWriterGrants, ReadersAfterGrant
    <2>2. pool'.ready = pool.ready \cup {wrIdx[p]}
      BY <1>0, <2>1, GetWriterFields
    <2>3. /\ Parked(rd) = {} => rd' = rd
          /\ Parked(rd) # {} =>
               Cardinality(Woken(rd')) = Cardinality(Woken(rd)) + 1
          /\ Parked(rd') \subseteq Parked(rd)
          /\ Ordered => Parked(rd') = {}
      BY <1>0, <2>1, SignalWakes
    <2>4. Cardinality(pool'.ready) <= Cardinality(pool.ready) + 1
          /\ Cardinality(pool'.ready) \in Nat
      <3>1. CASE wrIdx[p] \in pool.ready
        <4>1. pool'.ready = pool.ready
          BY <2>2, <3>1
        <4> QED BY <1>1, <4>1
      <3>2. CASE wrIdx[p] \notin pool.ready
        <4>1. Cardinality(pool'.ready) = Cardinality(pool.ready) + 1
          BY <1>1, <2>2, <3>2, FS_AddElement
        <4> QED BY <1>1, <4>1
      <3> QED BY <3>1, <3>2
    <2>5. CASE Parked(rd) = {}
      BY <1>a, <2>3, <2>5
    <2>6. CASE Parked(rd) # {} /\ Ordered
      BY <1>a, <2>3, <2>6
    <2>7. CASE Parked(rd) # {} /\ ~Ordered
      <3>1. Cardinality(pool.ready) <= Cardinality(Woken(rd))
        BY <2>7 DEF ConsumersMatched
      <3>2. Cardinality(pool'.ready) <= Cardinality(Woken(rd'))
        BY <1>1, <2>3, <2>4, <2>7, <3>1
      <3> QED BY <2>7, <3>2 DEF ConsumersMatched
    <2> QED BY <2>5, <2>6, <2>7
  <1>4. ASSUME NEW p \in Producers, FinishPipe(p)
        PROVE  ConsumersMatched'
    <2>1. SameSets(pool, pool')
      BY <1>0, <1>4, ControlFields DEF FinishPipe
    <2> QED BY <1>b, <1>4, <2>1 DEF FinishPipe, SameSets
  <1>5. ASSUME NEW c \in Consumers, CallGetReader(c)
        PROVE  ConsumersMatched'
    <2>1. /\ rd[c] = "idle" /\ rd' = [rd EXCEPT ![c] = "enter"]
          /\ pool' = pool /\ cursor' = cursor
      BY <1>5 DEF CallGetReader
    <2> QED BY <1>b, <1>m, <2>1
  <1>6. ASSUME NEW c \in Consumers, getReaderParks(c)
        PROVE  ConsumersMatched'
    <2>1. /\ ReaderBlocked(pool, Want) /\ cursor' = cursor
          /\ pool' = Announced(c) /\ rd' = [rd EXCEPT ![c] = "parked"]
      BY <1>6 DEF getReaderParks
    <2>2. pool'.ready = pool.ready
      BY <1>0, <2>1, AnnouncedFields DEF SameSets
    <2>3. CASE Ordered
      <3>1. cursor \notin pool.ready
        BY <1>0, <2>1, <2>3 DEF ReaderBlocked, Want
      <3> QED BY <2>1, <2>2, <2>3, <3>1 DEF ConsumersMatched
    <2>4. CASE ~Ordered
      <3>1. pool.ready = {}
        BY <2>1, <2>4 DEF ReaderBlocked, Want
      <3>2. Cardinality(pool'.ready) = 0
        BY <2>2, <3>1, FS_EmptySet
      <3>3. rd' \in [Consumers -> Place]
        BY <1>0, <2>1 DEF Place
      <3>4. Cardinality(Woken(rd')) \in Nat
        BY <1>0, <3>3, WokenFinite
      <3> QED BY <2>4, <3>2, <3>4 DEF ConsumersMatched
    <2> QED BY <2>3, <2>4
  <1>7. ASSUME NEW c \in Consumers, getReaderTakes(c)
        PROVE  ConsumersMatched'
    <2>1. PICK i \in Readable(pool, Want) :
            pool' = GetReader(Announced(c), Want, i)
      BY <1>7 DEF getReaderTakes
    <2>2. Announced(c) \in Pools /\ i \in Idx /\ i \in pool.ready
      BY <1>0, <1>7, <2>1, EntryTypes DEF getReaderTakes, Readable
    <2>3. pool'.ready = pool.ready \ {i}
      BY <1>0, <2>1, <2>2, AnnouncedFields, GetReaderFields DEF SameSets
    <2>4. Cardinality(pool'.ready) = Cardinality(pool.ready) - 1
      BY <1>1, <2>2, <2>3, FS_RemoveElement
    <2>5. rd' = [rd EXCEPT ![c] = "using"]
      BY <1>7 DEF getReaderTakes
    <2>6. /\ rd[c] # "woken" =>
               Cardinality(Woken(rd')) = Cardinality(Woken(rd))
          /\ rd[c] = "woken" =>
               Cardinality(Woken(rd')) = Cardinality(Woken(rd)) - 1
          /\ Parked(rd') \subseteq Parked(rd)
          /\ c \notin Parked(rd')
      BY <1>m, <2>5
    <2>7. CASE Ordered
      <3>1. Parked(rd') \subseteq Consumers
        BY <1>0, <2>5 DEF Parked
      <3>2. Parked(rd') = {}
        BY <1>0, <2>6, <2>7, <3>1
      <3> QED BY <1>a, <3>2
    <2>8. CASE ~Ordered
      BY <1>1, <2>4, <2>6, <2>8 DEF ConsumersMatched
    <2> QED BY <2>7, <2>8
  <1>8. ASSUME NEW c \in Consumers, getReaderEnds(c)
        PROVE  ConsumersMatched'
    <2>1. pool.closed /\ rd' = [rd EXCEPT ![c] = "quit"]
      BY <1>8 DEF getReaderEnds, Ended
    <2>2. Parked(rd) = {}
      BY <2>1 DEF CallInv, AnnouncedProceeds
    <2>3. Parked(rd') \subseteq Parked(rd)
      BY <1>m, <2>1
    <2> QED BY <1>a, <2>2, <2>3
  <1>9. ASSUME NEW c \in Consumers, restore(c)
        PROVE  ConsumersMatched'
    <2>1. /\ rd[c] = "using" /\ rd' = [rd EXCEPT ![c] = "idle"]
          /\ cursor' = cursor
      BY <1>9 DEF restore
    <2>2. pool'.ready = pool.ready
      BY <1>0, <1>9, RestoreFields DEF restore
    <2> QED BY <1>b, <1>m, <2>1, <2>2
  <1>10. ASSUME NEW n \in 1 .. MaxCap, setCapacity(n)
         PROVE  ConsumersMatched'
    <2>1. SameSets(pool, pool')
      BY <1>0, <1>10, ControlFields DEF setCapacity
    <2> QED BY <1>b, <1>10, <2>1 DEF setCapacity, SameSets
  <1>11. CASE interrupt
    <2>1. SameSets(pool, pool')
      BY <1>0, <1>11, ControlFields DEF interrupt
    <2> QED BY <1>b, <1>11, <2>1 DEF interrupt, SameSets
  <1>12. CASE close \/ terminate
    BY <1>0, <1>a, <1>12, BroadcastWakes DEF close, terminate
  <1>13. CASE UNCHANGED vars
    BY <1>b, <1>13 DEF vars
  <1> QED BY <1>2, <1>3, <1>4, <1>5, <1>6, <1>7, <1>8, <1>9, <1>10, <1>11,
             <1>12, <1>13 DEF Next, getWriter, getReader

\* No wake-up is lost, with single Signals, any number of callers and any
\* sequence of grants, returns, drops and changes of the capacity.
THEOREM WakeupsKept == Spec => []NoLostWakeup
  <1> DEFINE Inv == CallInv /\ ProducersMatched /\ ConsumersMatched
  <1>1. Init => Inv
    BY CallInvInit
       DEF Init, ProducersMatched, ConsumersMatched, Parked
  <1>2. Inv /\ [Next]_vars => Inv'
    BY CallInvStep, ProducersMatchedStep, ConsumersMatchedStep
  <1>3. Inv => NoLostWakeup
    BY DEF ProducersMatched, ConsumersMatched, NoLostWakeup
  <1> QED BY <1>1, <1>2, <1>3, PTL DEF Spec
-----------------------------------------------------------------------------
(***************************************************************************)
(* Nothing is left behind when a reader is told the end.                   *)
(***************************************************************************)
\* Until terminate forgets it, what was granted and not yet taken is ready.
NothingForgotten == ~pool.dead => granted \ taken \subseteq pool.ready

\* A pool that was closed, not terminated, has been granted every index up to
\* the last one.
NoGaps ==
    pool.closed /\ ~pool.dead =>
      \A i \in granted : \A j \in 0 .. i : j \in granted

\* The index reader has taken nothing from its cursor on.
NothingAhead == Ordered => \A i \in taken : i < cursor

\* A reader that was told the end was told so by a pool that is closed and
\* has nothing ready.
ToldTheEnd ==
    \A c \in Consumers : rd[c] = "quit" => pool.closed /\ pool.ready = {}

EndInv ==
    CallInv /\ NothingForgotten /\ NoGaps /\ NothingAhead /\ ToldTheEnd

\* Every step keeps what is granted on its way to a reader.
LEMMA EndInvStep == EndInv /\ [Next]_vars => EndInv'
  <1> SUFFICES ASSUME EndInv, [Next]_vars
               PROVE  (NothingForgotten /\ NoGaps /\ NothingAhead
                        /\ ToldTheEnd)'
    BY CallInvStep DEF EndInv
  <1>0. /\ TypeInv /\ OwnInv /\ pool \in Pools
        /\ wrIdx \in [Producers -> Idx] /\ rdIdx \in [Consumers -> Idx]
        /\ rd \in [Consumers -> Place] /\ wr \in [Producers -> Place]
        /\ cursor \in Nat /\ NoIdx = -1
        /\ taken \subseteq Idx /\ granted \subseteq Idx
    BY DEF EndInv, CallInv, OwnInv, TypeInv, TypeOK, Pools, NoIdx
  <1>1. NothingForgotten /\ NoGaps /\ NothingAhead /\ ToldTheEnd
    BY DEF EndInv
  <1> USE DEF NothingForgotten, NoGaps, NothingAhead, ToldTheEnd
  <1>a. ASSUME pool'.ready = pool.ready, pool'.closed = pool.closed,
               pool'.dead = pool.dead, UNCHANGED <<granted, taken, cursor>>,
               \A c \in Consumers : rd'[c] = "quit" => rd[c] = "quit"
        PROVE  (NothingForgotten /\ NoGaps /\ NothingAhead /\ ToldTheEnd)'
    BY <1>1, <1>a
  <1>2. ASSUME NEW p \in Producers,
               \/ \E i \in Idx : CallGetWriter(p, i)
               \/ getWriterParks(p) \/ getWriterRefuses(p)
        PROVE  (NothingForgotten /\ NoGaps /\ NothingAhead /\ ToldTheEnd)'
    BY <1>a, <1>2 DEF CallGetWriter, getWriterParks, getWriterRefuses
  <1>3. ASSUME NEW p \in Producers, getWriterGrants(p)
        PROVE  (NothingForgotten /\ NoGaps /\ NothingAhead /\ ToldTheEnd)'
    <2>1. /\ pool'.ready = pool.ready \cup {wrIdx[p]} /\ ~pool.closed
          /\ pool'.closed = pool.closed /\ pool'.dead = pool.dead
          /\ granted' = granted \cup {wrIdx[p]}
          /\ UNCHANGED <<cursor, taken>>
      BY <1>0, <1>3, GetWriterFields DEF getWriterGrants, SameControl
    <2>2. OnlyWakes(rd, rd')
      BY <1>0, <1>3, WakeEffect DEF getWriterGrants, ReadersAfterGrant
    <2>3. \A c \in Consumers : rd'[c] = "quit" => rd[c] = "quit"
      BY <1>0, <2>2 DEF OnlyWakes
    <2> QED BY <1>1, <2>1, <2>3
  <1>4. ASSUME NEW p \in Producers, FinishPipe(p)
        PROVE  (NothingForgotten /\ NoGaps /\ NothingAhead /\ ToldTheEnd)'
    <2>1. SameControl(pool, pool') /\ SameSets(pool, pool')
      BY <1>0, <1>4, ControlFields DEF FinishPipe
    <2> QED BY <1>a, <1>4, <2>1 DEF FinishPipe, SameControl, SameSets
  <1>5. ASSUME NEW c \in Consumers, CallGetReader(c)
        PROVE  (NothingForgotten /\ NoGaps /\ NothingAhead /\ ToldTheEnd)'
    BY <1>0, <1>a, <1>5 DEF CallGetReader
  <1>6. ASSUME NEW c \in Consumers, getReaderParks(c)
        PROVE  (NothingForgotten /\ NoGaps /\ NothingAhead /\ ToldTheEnd)'
    <2>1. SameControl(pool, pool') /\ SameSets(pool, pool')
      BY <1>0, <1>6, AnnouncedFields DEF getReaderParks
    <2> QED BY <1>0, <1>a, <1>6, <2>1
        DEF getReaderParks, SameControl, SameSets
  <1>7. ASSUME NEW c \in Consumers, getReaderTakes(c)
        PROVE  (NothingForgotten /\ NoGaps /\ NothingAhead /\ ToldTheEnd)'
    <2>1. PICK i \in Readable(pool, Want) :
            /\ pool' = GetReader(Announced(c), Want, i)
            /\ taken' = taken \cup {i}
      BY <1>7 DEF getReaderTakes
    <2>2. Announced(c) \in Pools /\ i \in Idx /\ i \in pool.ready
      BY <1>0, <1>7, <2>1, EntryTypes DEF getReaderTakes, Readable
    <2>3. /\ pool'.ready = pool.ready \ {i}
          /\ pool'.closed = pool.closed /\ pool'.dead = pool.dead
      BY <1>0, <2>1, <2>2, AnnouncedFields, GetReaderFields
         DEF SameControl, SameSets
    <2>4. /\ rd' = [rd EXCEPT ![c] = "using"] /\ granted' = granted
          /\ cursor' = IF Ordered THEN cursor + 1 ELSE cursor
      BY <1>7 DEF getReaderTakes
    <2>5. Ordered => i = cursor
      BY <1>0, <2>1 DEF Readable, Want
    <2>6. NothingAhead'
      BY <1>0, <1>1, <2>1, <2>4, <2>5 DEF Idx
    <2>7. ToldTheEnd'
      BY <1>0, <1>1, <2>3, <2>4
    <2> QED BY <1>1, <2>1, <2>3, <2>4, <2>6, <2>7
  <1>8. ASSUME NEW c \in Consumers, getReaderEnds(c)
        PROVE  (NothingForgotten /\ NoGaps /\ NothingAhead /\ ToldTheEnd)'
    <2>1. Announced(c) \in Pools /\ 0 \in Idx
      BY <1>0, <1>8, EntryTypes, PoolAssumption DEF getReaderEnds, Idx
    <2>2. SameControl(pool, Announced(c)) /\ SameSets(pool, Announced(c))
      BY <1>0, AnnouncedFields
    <2>3. SameControl(Announced(c), pool') /\ SameSets(Announced(c), pool')
      BY <1>8, <2>1, GetReaderFields DEF getReaderEnds
    <2>4. /\ pool'.ready = pool.ready /\ pool'.closed = pool.closed
          /\ pool'.dead = pool.dead
      BY <2>2, <2>3 DEF SameControl, SameSets
    <2>5. /\ pool.closed /\ Readable(pool, Want) = {}
          /\ rd[c] # "quit" /\ UNCHANGED <<granted, taken>>
          /\ cursor' = IF Ordered THEN cursor + 1 ELSE cursor
          /\ rd' = [rd EXCEPT ![c] = "quit"]
      BY <1>8 DEF getReaderEnds, Ended
    <2>6. pool.ready = {}
      <3>1. CASE pool.dead
        BY <1>0, <3>1 DEF OwnInv, DeadEmpty
      <3>2. CASE ~Ordered
        BY <2>5, <3>2 DEF Readable, Want
      <3>3. CASE Ordered /\ ~pool.dead
        <4>1. cursor \notin pool.ready
          BY <1>0, <2>5, <3>3 DEF Readable, Want
        <4>2. cursor \notin granted
          BY <1>0, <1>1, <3>3, <4>1
        <4>3. ASSUME NEW i \in pool.ready PROVE FALSE
          <5>1. i \in granted \ taken /\ i \in Idx
            BY <1>0 DEF OwnInv, SetsOwned
          <5>2. ~(i < cursor)
            BY <2>5, <3>3, <5>1 DEF EndInv, CallInv, InOrder
          <5>3. cursor \in 0 .. i
            BY <1>0, <5>1, <5>2, PoolAssumption DEF Idx
          <5> QED BY <1>1, <2>5, <3>3, <4>2, <5>1, <5>3
        <4> QED BY <4>3
      <3> QED BY <3>1, <3>2, <3>3
    <2>7. NothingAhead'
      BY <1>0, <1>1, <2>5 DEF Idx
    <2>8. ToldTheEnd'
      BY <1>0, <1>1, <2>4, <2>5, <2>6
    <2> QED BY <1>1, <2>4, <2>5, <2>7, <2>8
  <1>9. ASSUME NEW c \in Consumers, restore(c)
        PROVE  (NothingForgotten /\ NoGaps /\ NothingAhead /\ ToldTheEnd)'
    <2>1. /\ pool'.ready = pool.ready /\ pool'.closed = pool.closed
          /\ pool'.dead = pool.dead
      BY <1>0, <1>9, RestoreFields DEF restore, SameControl
    <2> QED BY <1>0, <1>a, <1>9, <2>1 DEF restore
  <1>10. ASSUME NEW n \in 1 .. MaxCap, setCapacity(n)
         PROVE  (NothingForgotten /\ NoGaps /\ NothingAhead /\ ToldTheEnd)'
    <2>1. /\ pool'.closed = pool.closed /\ pool'.dead = pool.dead
          /\ SameSets(pool, pool')
      BY <1>0, <1>10, ControlFields DEF setCapacity
    <2> QED BY <1>a, <1>10, <2>1 DEF setCapacity, SameSets
  <1>11. CASE interrupt
    <2>1. SameControl(pool, pool') /\ SameSets(pool, pool')
      BY <1>0, <1>11, ControlFields DEF interrupt
    <2> QED BY <1>a, <1>11, <2>1 DEF interrupt, SameControl, SameSets
  <1>12. CASE close \/ terminate
    <2>1. \A c \in Consumers : rd'[c] = "quit" => rd[c] = "quit"
      BY <1>0, <1>12, WakeEffect DEF close, terminate, OnlyWakes
    <2>2. UNCHANGED <<granted, taken, cursor>>
      BY <1>12 DEF close, terminate
    <2>3. CASE close
      <3>1. /\ pool'.closed /\ pool'.dead = pool.dead
            /\ pool'.ready = pool.ready
        BY <1>0, <2>3, ControlFields DEF close, SameSets
      <3>2. \A i \in granted : \A j \in 0 .. i : j \in granted
        BY <2>3 DEF close
      <3> QED BY <1>1, <2>1, <2>2, <3>1, <3>2
    <2>4. CASE terminate
      <3>1. pool'.closed /\ pool'.dead /\ pool'.ready = {}
        BY <1>0, <2>4, ControlFields DEF terminate
      <3> QED BY <1>1, <2>1, <2>2, <3>1
    <2> QED BY <1>12, <2>3, <2>4
  <1>13. CASE UNCHANGED vars
    BY <1>a, <1>13 DEF vars
  <1> QED BY <1>2, <1>3, <1>4, <1>5, <1>6, <1>7, <1>8, <1>9, <1>10, <1>11,
             <1>12, <1>13 DEF Next, getWriter, getReader

\* errs.Assert(outPool.getReader(-1) == nil) never fires: a reader is given
\* nil only by a pool that has been drained, and nothing becomes ready after
\* that, for any number of blocks and callers.
THEOREM NilMeansDrained == Spec => []EndMeansDrained
  <1>1. Init => EndInv
    BY CallInvInit
       DEF Init, EndInv, NothingForgotten, NoGaps, NothingAhead, ToldTheEnd
  <1>2. EndInv => EndMeansDrained
    BY DEF EndInv, ToldTheEnd, EndMeansDrained
  <1> QED BY <1>1, <1>2, EndInvStep, PTL DEF Spec
=============================================================================
