------------------------------- MODULE PipePool -------------------------------
(***************************************************************************)
(* The pipePool of xz/pool.go under concurrent callers: the bookkeeping of *)
(* PoolOps plus the two condition variables wrCond and rdCond.             *)
(*                                                                         *)
(* A caller is in one of these places:                                     *)
(*   "idle"    outside the pool                                            *)
(*   "enter"   has called getWriter/getReader and contends for the mutex   *)
(*   "parked"  asleep in Cond.Wait                                         *)
(*   "woken"   signalled, contends for the mutex to re-test the loop       *)
(*   "using"   holds the pipe it was given                                 *)
(*   "quit"    was given nil                                               *)
(* A critical section is one step.  Cond.Signal wakes any one parked       *)
(* caller, Cond.Broadcast wakes all of them.                               *)
(*                                                                         *)
(* The callers behave as xz/writer.go uses the pool.  An ordered pool is   *)
(* outPool: the workers produce, the writer goroutine consumes by index.   *)
(* An unordered pool is inPool: the client produces, the workers consume.  *)
(***************************************************************************)
EXTENDS PoolOps

CONSTANTS Producers, \* callers of getWriter
          Consumers, \* callers of getReader and restore
          LastIdx,   \* bound: the indices handed out are 0 .. LastIdx
          MaxCap,    \* bound: the largest argument of setCapacity
          Ordered    \* TRUE: getReader(idx); FALSE: getReader(-1)

ASSUME PoolAssumption ==
    /\ LastIdx \in Nat
    /\ MaxCap \in Nat \ {0}
    /\ Ordered \in BOOLEAN
    /\ IsFiniteSet(Producers) /\ Producers # {}
    /\ IsFiniteSet(Consumers) /\ Consumers # {}
    \* getReader(idx) has one caller, the writer goroutine
    /\ Ordered => \A c, d \in Consumers : c = d
    \* inPool has one producer, the client
    /\ ~Ordered => \A p, q \in Producers : p = q

Idx == 0 .. LastIdx

VARIABLES pool,    \* the record of PoolOps
          wr,      \* where each producer is
          wrIdx,   \* the index it asked for, and then fills
          rd,      \* where each consumer is
          rdIdx,   \* the index of the pipe it holds
          cursor,  \* the next index of iterReaderIdx
          granted, \* history: indices for which getWriter returned a pipe
          taken    \* history: indices for which getReader returned a pipe

vars == <<pool, wr, wrIdx, rd, rdIdx, cursor, granted, taken>>

Place == {"idle", "enter", "parked", "woken", "using", "quit"}

TypeOK ==
    /\ pool \in PoolType(Idx, 0 .. MaxCap)
    /\ wr \in [Producers -> Place]
    /\ wrIdx \in [Producers -> Idx]
    /\ rd \in [Consumers -> Place]
    /\ rdIdx \in [Consumers -> Idx]
    /\ cursor \in Nat
    /\ granted \subseteq Idx
    /\ taken \subseteq Idx

Init ==
    /\ pool = newPipePool
    /\ wr = [p \in Producers |-> "idle"]
    /\ wrIdx = [p \in Producers |-> 0]
    /\ rd = [c \in Consumers |-> "idle"]
    /\ rdIdx = [c \in Consumers |-> 0]
    /\ cursor = 0
    /\ granted = {}
    /\ taken = {}
-----------------------------------------------------------------------------
(***************************************************************************)
(* Condition variables.                                                    *)
(***************************************************************************)
Parked(place) == {x \in DOMAIN place : place[x] = "parked"}
Woken(place) == {x \in DOMAIN place : place[x] = "woken"}

Broadcast(place) ==
    [x \in DOMAIN place |-> IF place[x] = "parked" THEN "woken" ELSE place[x]]

\* The places after a Signal: one parked caller is woken, if there is any.
Signal(place) ==
    IF Parked(place) = {}
    THEN {place}
    ELSE {[place EXCEPT ![x] = "woken"] : x \in Parked(place)}

\* Callers counted by wrWaitCnt, respectively rdWaitCnt: the counter is
\* incremented before Wait and decremented after it has the lock again.
Waiting(place) == Parked(place) \cup Woken(place)

getStats == <<Cardinality(Waiting(wr)), Cardinality(Waiting(rd))>>
-----------------------------------------------------------------------------
(***************************************************************************)
(* Producers.                                                              *)
(***************************************************************************)
Asking(p) == wr[p] \in {"enter", "parked", "woken"}

Claimed == granted \cup {wrIdx[p] : p \in {q \in Producers : Asking(q)}}

\* The caller's next index.  The client numbers its pipes consecutively; a
\* worker passes on the index of the pipe it took from inPool, and inPool
\* never holds more unprocessed pipes than there are workers to take them.
\* So at most as many indices up to i are unclaimed as producers are idle.
Claimable(i) ==
    /\ i \notin Claimed
    /\ Cardinality((0 .. i) \ Claimed)
         <= Cardinality({p \in Producers : wr[p] = "idle"})

CallGetWriter(p, i) ==
    /\ wr[p] = "idle"
    /\ Claimable(i)
    /\ wr' = [wr EXCEPT ![p] = "enter"]
    /\ wrIdx' = [wrIdx EXCEPT ![p] = i]
    /\ UNCHANGED <<pool, rd, rdIdx, cursor, granted, taken>>

\* getWriter finds no room and waits on wrCond.
getWriterParks(p) ==
    /\ wr[p] \in {"enter", "woken"}
    /\ WriterBlocked(pool, wrIdx[p])
    /\ wr' = [wr EXCEPT ![p] = "parked"]
    /\ UNCHANGED <<pool, wrIdx, rd, rdIdx, cursor, granted, taken>>

\* getWriter returns nil from a closed pool.
getWriterRefuses(p) ==
    /\ wr[p] \in {"enter", "woken"}
    /\ pool.closed
    /\ wr' = [wr EXCEPT ![p] = "quit"]
    /\ UNCHANGED <<pool, wrIdx, rd, rdIdx, cursor, granted, taken>>

\* Mutant: no rdCond.Signal.
ReadersNotWoken == {rd}

ReadersAfterGrant == Signal(rd)

\* getWriter returns a pipe and signals one reader.
getWriterGrants(p) ==
    /\ wr[p] \in {"enter", "woken"}
    /\ ~pool.closed
    /\ ~WriterBlocked(pool, wrIdx[p])
    /\ pool' \in GetWriter(pool, wrIdx[p])
    /\ wr' = [wr EXCEPT ![p] = "using"]
    /\ rd' \in ReadersAfterGrant
    /\ granted' = granted \cup {wrIdx[p]}
    /\ UNCHANGED <<wrIdx, rdIdx, cursor, taken>>

getWriter(p) ==
    getWriterParks(p) \/ getWriterRefuses(p) \/ getWriterGrants(p)

\* The producer is done with its pipe: p.Close or p.CloseWithError.
FinishPipe(p) ==
    /\ wr[p] = "using"
    /\ pool' = ClosePipe(pool, wrIdx[p])
    /\ wr' = [wr EXCEPT ![p] = "idle"]
    /\ UNCHANGED <<wrIdx, rd, rdIdx, cursor, granted, taken>>
-----------------------------------------------------------------------------
(***************************************************************************)
(* Consumers.                                                              *)
(***************************************************************************)
\* The argument of getReader.
Want == IF Ordered THEN cursor ELSE NoIdx

CallGetReader(c) ==
    /\ rd[c] = "idle"
    /\ Ordered => cursor \in Idx   \* LastIdx bounds the run, not the code
    /\ rd' = [rd EXCEPT ![c] = "enter"]
    /\ UNCHANGED <<pool, wr, wrIdx, rdIdx, cursor, granted, taken>>

\* On entry, and only then, a reader that wants one index announces it and
\* wakes every producer, because the one with that index may now proceed.
Announced(c) ==
    IF Ordered /\ rd[c] = "enter" THEN Announce(pool, cursor) ELSE pool

\* Mutant: no wrCond.Broadcast with the announcement.
ProducersNotWoken(c) == wr

ProducersAfterEntry(c) ==
    IF Ordered /\ rd[c] = "enter" THEN Broadcast(wr) ELSE wr

getReaderParks(c) ==
    /\ rd[c] \in {"enter", "woken"}
    /\ ReaderBlocked(pool, Want)
    /\ pool' = Announced(c)
    /\ wr' = ProducersAfterEntry(c)
    /\ rd' = [rd EXCEPT ![c] = "parked"]
    /\ UNCHANGED <<wrIdx, rdIdx, cursor, granted, taken>>

getReaderTakes(c) ==
    /\ rd[c] \in {"enter", "woken"}
    /\ \E i \in Readable(pool, Want) :
         /\ pool' = GetReader(Announced(c), Want, i)
         /\ rdIdx' = [rdIdx EXCEPT ![c] = i]
         /\ taken' = taken \cup {i}
    /\ wr' = ProducersAfterEntry(c)
    /\ rd' = [rd EXCEPT ![c] = "using"]
    /\ cursor' = IF Ordered THEN cursor + 1 ELSE cursor
    /\ UNCHANGED <<wrIdx, granted>>

\* Mutant: a closed pool returns nil at once.
EndedEarly == pool.closed

Ended == pool.closed /\ Readable(pool, Want) = {}

\* getReader returns nil: the pool is closed and has nothing (more) for c.
getReaderEnds(c) ==
    /\ rd[c] \in {"enter", "woken"}
    /\ Ended
    /\ pool' = GetReaderNil(Announced(c), Want)
    /\ wr' = ProducersAfterEntry(c)
    /\ rd' = [rd EXCEPT ![c] = "quit"]
    /\ cursor' = IF Ordered THEN cursor + 1 ELSE cursor
    /\ UNCHANGED <<wrIdx, rdIdx, granted, taken>>

getReader(c) == getReaderParks(c) \/ getReaderTakes(c) \/ getReaderEnds(c)

\* Mutant: no wrCond.Signal.
ProducersNotSignalled == {wr}

ProducersAfterRestore == IF Keeps(pool) THEN Signal(wr) ELSE {wr}

\* The writer goroutine returns a pipe once WriteTo has seen it closed; a
\* worker may also give up on a pipe the client is still filling.
restore(c) ==
    /\ rd[c] = "using"
    /\ Ordered => rdIdx[c] \in pool.shut
    /\ pool' = Restore(pool, rdIdx[c])
    /\ wr' \in ProducersAfterRestore
    /\ rd' = [rd EXCEPT ![c] = "idle"]
    /\ UNCHANGED <<wrIdx, rdIdx, cursor, granted, taken>>
-----------------------------------------------------------------------------
(***************************************************************************)
(* Control of the pool.                                                    *)
(***************************************************************************)
setCapacity(n) ==
    /\ pool' = SetCapacity(pool, n)
    /\ wr' = Broadcast(wr)
    /\ UNCHANGED <<wrIdx, rd, rdIdx, cursor, granted, taken>>

interrupt ==
    /\ pool' = Interrupt(pool)
    /\ UNCHANGED <<wr, wrIdx, rd, rdIdx, cursor, granted, taken>>

\* inPool is closed by its only producer, outPool once every worker has
\* died: no producer is inside and no index has been skipped.
close ==
    /\ \A p \in Producers : wr[p] \in {"idle", "quit"}
    /\ \A i \in granted : \A j \in 0 .. i : j \in granted
    /\ pool' = Close(pool)
    /\ wr' = Broadcast(wr)
    /\ rd' = Broadcast(rd)
    /\ UNCHANGED <<wrIdx, rdIdx, cursor, granted, taken>>

terminate ==
    /\ pool' = Terminate(pool)
    /\ wr' = Broadcast(wr)
    /\ rd' = Broadcast(rd)
    /\ UNCHANGED <<wrIdx, rdIdx, cursor, granted, taken>>

Next ==
    \/ \E p \in Producers :
         \/ \E i \in Idx : CallGetWriter(p, i)
         \/ getWriter(p)
         \/ FinishPipe(p)
    \/ \E c \in Consumers : CallGetReader(c) \/ getReader(c) \/ restore(c)
    \/ \E n \in 1 .. MaxCap : setCapacity(n)
    \/ interrupt
    \/ close
    \/ terminate

Spec == Init /\ [][Next]_vars

\* Goroutines that can run do run; workers keep asking for work until they
\* are given nil; the monitor goroutine sets a capacity first thing.
Fairness ==
    /\ \A p \in Producers :
         /\ WF_vars(\E i \in Idx : CallGetWriter(p, i))
         /\ WF_vars(getWriter(p))
         /\ WF_vars(FinishPipe(p))
    /\ \A c \in Consumers :
         /\ WF_vars(CallGetReader(c))
         /\ WF_vars(getReader(c))
         /\ WF_vars(restore(c))
    /\ WF_vars(pool.cap = 0 /\ \E n \in 1 .. MaxCap : setCapacity(n))

FairSpec == Spec /\ Fairness
-----------------------------------------------------------------------------
(***************************************************************************)
(* Properties.                                                             *)
(***************************************************************************)
\* Every allocated pipe is in exactly one of the three sets and is counted
\* in pp.len once, through reuse, overflow beyond cap, drop and close.
\* terminate forgets the ready pipes but not that they were allocated.
Accounting ==
    /\ pool.free \cap pool.ready = {}
    /\ pool.free \cap pool.active = {}
    /\ pool.ready \cap pool.active = {}
    /\ LET held == Cardinality(pool.free) + Cardinality(pool.ready)
                    + Cardinality(pool.active)
       IN  IF pool.dead THEN held <= pool.len ELSE held = pool.len

\* The capacity limit is violated "temporarily" (getReader's comment) by at
\* most one pipe, the one the index reader asked for, and not at all in a
\* pool that is read in any order.
CapacityBound ==
    pool.len <= MaxCap + (IF Ordered THEN 1 ELSE 0)

\* None of the panics of pool.go is reached: getWriter never meets its index
\* in the ready set, getReader never finds another index announced, restore
\* is only given an active pipe.
NoPanic ==
    /\ \A p \in Producers : Asking(p) => wrIdx[p] \notin pool.ready
    /\ \A c \in Consumers :
         /\ (Ordered /\ rd[c] = "enter") => pool.waitIdx = NoIdx
         /\ rd[c] = "using" => rdIdx[c] \in pool.active

\* "Waiting on a specific index ensures that a getWriter call for that index
\* will succeed": a producer asleep on wrCond is never the one whose index
\* is announced, and a closed pool has nobody asleep on either side.
AnnouncedProceeds ==
    /\ \A p \in Parked(wr) : wrIdx[p] # pool.waitIdx
    /\ pool.closed => Parked(wr) = {} /\ Parked(rd) = {}

\* Signal wakes one caller per resource, so resources and woken callers stay
\* matched: while a producer sleeps, every free pipe and every unit of spare
\* capacity has a woken producer coming for it, and likewise for readers and
\* ready pipes.
NoLostWakeup ==
    /\ Parked(wr) # {} =>
         /\ Cardinality(pool.free) <= Cardinality(Woken(wr))
         /\ Cardinality(pool.free) + (pool.cap - pool.len)
              <= Cardinality(Woken(wr))
    /\ Parked(rd) # {} =>
         IF Ordered THEN cursor \notin pool.ready
         ELSE Cardinality(pool.ready) <= Cardinality(Woken(rd))

\* The writer goroutine's final check, errs.Assert(outPool.getReader(-1) ==
\* nil): when a reader is given nil nothing is left in the ready set, so no
\* finished block is abandoned.
EndMeansDrained ==
    \A c \in Consumers : rd[c] = "quit" => pool.ready = {}

\* The pool implements the queue it stands for.
Queue == INSTANCE PipeQueue WITH
    offered <- granted,
    delivered <- taken,
    state <- IF pool.dead THEN "terminated"
             ELSE IF pool.closed THEN "closed" ELSE "open"

\* Every index handed to a producer reaches one consumer, in order when
\* asked by index, and none is offered after close or delivered after
\* terminate.
ImplementsQueue == Queue!Spec

\* ... and no granted pipe is forgotten: with goroutines that keep running it
\* is delivered unless the pool is terminated.
ImplementsFairQueue == Queue!FairSpec

\* No producer is starved: with a full pool, readers waiting for one
\* particular index and single wake-ups, every getWriter call returns.
GetWriterReturns ==
    \A p \in Producers : Asking(p) ~> wr[p] \in {"using", "idle", "quit"}
=============================================================================
