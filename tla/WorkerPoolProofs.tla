-------------------------- MODULE WorkerPoolProofs --------------------------
(***************************************************************************)
(* Proofs about WorkerPool, for any number of workers and any sequence of  *)
(* capacities.                                                             *)
(***************************************************************************)
EXTENDS WorkerPool, FiniteSetTheorems, TLAPS

Places == [Worker -> {"none", "running", "dead"}]

\* The counter of the WaitGroup is the number of workers alive.
GroupCounts == group = Cardinality(Running)

TypeInv == TypeOK /\ GroupCounts

\* A worker that is born is counted once more.
LEMMA RunningGrows ==
    ASSUME place \in Places, NEW w \in Fresh,
           place' = [place EXCEPT ![w] = "running"]
    PROVE  /\ Running' = Running \cup {w}
           /\ Cardinality(Running') = Cardinality(Running) + 1
           /\ Cardinality(Running) \in Nat
  <1>1. Running' = Running \cup {w} /\ w \notin Running
    BY DEF Running, Fresh, Places
  <1>2. IsFiniteSet(Worker)
    BY WorkerPoolAssumption, FS_Interval DEF Worker
  <1>3. IsFiniteSet(Running)
    BY <1>2, FS_Subset DEF Running
  <1> QED BY <1>1, <1>3, FS_AddElement, FS_CardinalityType

\* A worker that dies is counted no more.
LEMMA RunningShrinks ==
    ASSUME place \in Places, NEW w \in Worker, place[w] = "running",
           place' = [place EXCEPT ![w] = "dead"]
    PROVE  /\ Running' = Running \ {w}
           /\ Cardinality(Running') = Cardinality(Running) - 1
           /\ Cardinality(Running) \in Nat \ {0}
           /\ Cardinality(Running) = 1 => Running' = {}
  <1>1. Running' = Running \ {w} /\ w \in Running
    BY DEF Running, Places
  <1>2. IsFiniteSet(Worker)
    BY WorkerPoolAssumption, FS_Interval DEF Worker
  <1>3. IsFiniteSet(Running) /\ IsFiniteSet(Running \ {w})
    BY <1>2, FS_Subset DEF Running
  <1>4. Cardinality(Running') = Cardinality(Running) - 1
    BY <1>1, <1>3, FS_RemoveElement
  <1>5. Cardinality(Running) \in Nat /\ Cardinality(Running) # 0
    BY <1>1, <1>3, FS_CardinalityType, FS_EmptySet
  <1>6. Cardinality(Running) = 1 => Running \ {w} = {}
    BY <1>1, <1>3, <1>4, FS_EmptySet
  <1> QED BY <1>1, <1>4, <1>5, <1>6

\* Every step preserves the types and the count.
LEMMA TypeInvStep == TypeInv /\ [Next]_vars => TypeInv'
  <1> SUFFICES ASSUME TypeInv, [Next]_vars PROVE TypeInv'
    OBVIOUS
  <1> USE DEF TypeInv, TypeOK, GroupCounts
  <1>0. place \in Places
    BY DEF Places
  <1>1. ASSUME NEW n \in 1 .. MaxWorkers, CallSetCapacity(n)
        PROVE  TypeInv'
    BY <1>1, WorkerPoolAssumption DEF CallSetCapacity, Running
  <1>2. CASE Spawn
    <2>1. PICK w \in Fresh : /\ workers' = Append(workers, w)
                             /\ place' = [place EXCEPT ![w] = "running"]
      BY <1>2 DEF Spawn
    <2>2. w \in Worker
      BY DEF Fresh
    <2>3. Cardinality(Running') = Cardinality(Running) + 1
      BY <1>0, <2>1, RunningGrows
    <2>4. group' = group + 1
      BY <1>2 DEF Spawn, Add
    <2>5. workers' \in Seq(Worker)
      BY <2>1, <2>2
    <2>6. place' \in Places
      BY <1>0, <2>1, <2>2 DEF Places
    <2> QED BY <1>2, <2>3, <2>4, <2>5, <2>6 DEF Spawn, Places
  <1>3. CASE StartMonitor
    BY <1>3 DEF StartMonitor, Waiter, Running
  <1>4. CASE Kill
    BY <1>4 DEF Kill, Shrunk, Running
  <1>5. CASE setCapacityReturns
    BY <1>5, WorkerPoolAssumption DEF setCapacityReturns, Running
  <1>6. CASE terminate
    BY <1>6 DEF terminate, Running
  <1>7. CASE InputEnds
    BY <1>7 DEF InputEnds, Running
  <1>8. ASSUME NEW w \in Worker, Exit(w)
        PROVE  TypeInv'
    <2>0. /\ place[w] = "running" /\ group' = group - 1
          /\ place' = [place EXCEPT ![w] = "dead"]
      BY <1>8 DEF Exit
    <2>1. /\ Cardinality(Running') = Cardinality(Running) - 1
          /\ Cardinality(Running) \in Nat \ {0}
      BY <1>0, <2>0, RunningShrinks
    <2>2. waiter' \in Waiter
      BY <1>8 DEF Exit, Waiter
    <2>3. place' \in Places
      BY <1>0, <2>0 DEF Places
    <2> QED BY <1>8, <2>0, <2>1, <2>2, <2>3 DEF Exit, Places
  <1>9. CASE Wait \/ WaitReturns \/ End
    BY <1>9 DEF Wait, WaitReturns, End, Waiter, Running
  <1>10. CASE Finished \/ UNCHANGED vars
    BY <1>10 DEF Finished, vars, Running
  <1> QED BY <1>1, <1>2, <1>3, <1>4, <1>5, <1>6, <1>7, <1>8, <1>9, <1>10
      DEF Next, Step

\* The pool is created without workers.
LEMMA TypeInvInit == Init => TypeInv
  <1> SUFFICES ASSUME Init PROVE TypeInv
    OBVIOUS
  <1>1. Running = {}
    BY DEF Init, Running
  <1>2. workers \in Seq(Worker)
    BY DEF Init
  <1>3. target \in 0 .. MaxWorkers
    BY WorkerPoolAssumption DEF Init
  <1>4. Cardinality(Running) = 0
    BY <1>1, FS_EmptySet
  <1> QED BY <1>2, <1>3, <1>4
      DEF Init, TypeInv, TypeOK, GroupCounts, Waiter

\* Every variable keeps its type; in particular the counter of the WaitGroup
\* never becomes negative, which in Go is a panic of Done.
THEOREM TypeCorrect == Spec => []TypeOK
  <1>1. TypeInv => TypeOK BY DEF TypeInv
  <1> QED BY <1>1, TypeInvInit, TypeInvStep, PTL DEF Spec
-----------------------------------------------------------------------------
(***************************************************************************)
(* Kill channels.                                                          *)
(***************************************************************************)
\* Only workers that were born have a kill channel, in the slice or closed.
BornOnly ==
    /\ \A k \in DOMAIN workers : place[workers[k]] # "none"
    /\ \A w \in killed : place[w] # "none"

KillInv == TypeInv /\ BornOnly /\ KillDiscipline

\* Every step keeps each kill channel in one place.
LEMMA KillInvStep == KillInv /\ [Next]_vars => KillInv'
  <1> SUFFICES ASSUME KillInv, [Next]_vars PROVE (BornOnly /\ KillDiscipline)'
    BY TypeInvStep DEF KillInv
  <1>0. /\ place \in Places /\ workers \in Seq(Worker) /\ killed \subseteq Worker
        /\ target \in Nat
        /\ BornOnly /\ KillDiscipline
    BY WorkerPoolAssumption DEF KillInv, TypeInv, TypeOK, Places
  <1>1. CASE Spawn
    <2>1. PICK w \in Fresh : /\ workers' = Append(workers, w)
                             /\ place' = [place EXCEPT ![w] = "running"]
      BY <1>1 DEF Spawn
    <2>2. /\ Len(workers') = Len(workers) + 1 /\ w \in Worker
          /\ DOMAIN workers = 1 .. Len(workers)
          /\ DOMAIN workers' = 1 .. Len(workers) + 1
          /\ workers'[Len(workers) + 1] = w
          /\ \A k \in 1 .. Len(workers) : workers'[k] = workers[k]
      BY <1>0, <2>1 DEF Fresh
    <2>3. killed' = killed /\ place[w] = "none"
      BY <1>1, <2>1 DEF Spawn, Fresh
    <2>4. BornOnly'
      BY <1>0, <2>1, <2>2, <2>3 DEF BornOnly, Places
    <2>5. \A k \in DOMAIN workers : workers[k] # w
      BY <1>0, <2>3 DEF BornOnly
    <2>6. (\A j, k \in DOMAIN workers : workers[j] = workers[k] => j = k)'
      BY <1>0, <2>2, <2>5 DEF KillDiscipline
    <2>7. (\A k \in DOMAIN workers : workers[k] \notin killed)'
      BY <1>0, <2>2, <2>3 DEF KillDiscipline, BornOnly
    <2>8. Running' = Running \cup {w}
      BY <1>0, <2>1, RunningGrows
    <2>9. \A v \in Running' :
             v \in killed' \/ \E k \in DOMAIN workers' : workers'[k] = v
      BY <1>0, <2>2, <2>3, <2>8 DEF KillDiscipline
    <2> QED BY <2>4, <2>6, <2>7, <2>9 DEF KillDiscipline
  <1>2. CASE Kill
    <2> DEFINE n == Len(workers)
    <2>1. /\ n \in Nat \ {0} /\ DOMAIN workers = 1 .. n
          /\ DOMAIN workers' = 1 .. n - 1
          /\ \A k \in 1 .. n - 1 : workers'[k] = workers[k]
          /\ killed' = killed \cup {workers[n]}
          /\ place' = place
      BY <1>0, <1>2 DEF Kill, Shrunk
    <2> HIDE DEF n
    <2>2. BornOnly'
      BY <1>0, <2>1 DEF BornOnly
    <2>3. (\A j, k \in DOMAIN workers : workers[j] = workers[k] => j = k)'
      BY <1>0, <2>1 DEF KillDiscipline
    <2>4. (\A k \in DOMAIN workers : workers[k] \notin killed)'
      BY <1>0, <2>1 DEF KillDiscipline
    <2>5. ASSUME NEW v \in Running'
          PROVE  v \in killed' \/ \E k \in DOMAIN workers' : workers'[k] = v
      <3>1. v \in Running
        BY <2>1 DEF Running
      <3>2. CASE v \in killed
        BY <3>2, <2>1
      <3>3. CASE v \notin killed
        <4>1. PICK k \in 1 .. n : workers[k] = v
          BY <1>0, <2>1, <3>1, <3>3 DEF KillDiscipline
        <4> QED BY <2>1, <4>1
      <3> QED BY <3>2, <3>3
    <2> QED BY <2>2, <2>3, <2>4, <2>5 DEF KillDiscipline
  <1>3. CASE terminate
    <2>1. /\ DOMAIN workers' = {} /\ place' = place
          /\ killed' = killed \cup {workers[k] : k \in DOMAIN workers}
      BY <1>3 DEF terminate
    <2> QED BY <1>0, <2>1 DEF BornOnly, KillDiscipline, Running
  <1>4. ASSUME NEW w \in Worker, Exit(w)
        PROVE  (BornOnly /\ KillDiscipline)'
    <2>1. /\ workers' = workers /\ killed' = killed
          /\ place' = [place EXCEPT ![w] = "dead"]
      BY <1>4 DEF Exit
    <2>2. Running' \subseteq Running
      BY <1>0, <2>1 DEF Running, Places
    <2>3. BornOnly'
      BY <1>0, <2>1 DEF BornOnly, Places
    <2> QED BY <1>0, <2>1, <2>2, <2>3 DEF KillDiscipline
  <1>5. ASSUME UNCHANGED <<workers, place, killed>>
        PROVE  (BornOnly /\ KillDiscipline)'
    BY <1>0, <1>5 DEF BornOnly, KillDiscipline, Running
  <1> QED BY <1>1, <1>2, <1>3, <1>4, <1>5
      DEF Next, Step, CallSetCapacity, StartMonitor, setCapacityReturns,
          InputEnds, Wait, WaitReturns, End, Finished, vars

\* There are no kill channels at first.
LEMMA KillInvInit == Init => KillInv
  BY TypeInvInit DEF Init, KillInv, BornOnly, KillDiscipline, Running

\* No kill channel is closed twice, and whoever has not been killed is still
\* in the slice that terminate goes through.
THEOREM KillsAreDisciplined == Spec => []KillDiscipline
  <1>1. KillInv => KillDiscipline BY DEF KillInv
  <1> QED BY <1>1, KillInvInit, KillInvStep, PTL DEF Spec
-----------------------------------------------------------------------------
(***************************************************************************)
(* The end callback.                                                       *)
(***************************************************************************)
\* Nobody resizes a pool that has its final size, or is terminated.
Phases ==
    /\ sized => target = 0
    /\ closed => sized
    /\ inputEnd = "late" => sized

\* Once there is a worker, the slice is empty only in a terminated pool.
NeverEmptied ==
    waiter # "none" /\ ~closed => workers # <<>>

\* Without an end of the input only killed workers die, so whoever is in the
\* slice is alive.
SliceAlive ==
    inputEnd = "no" => \A k \in DOMAIN workers : place[workers[k]] = "running"

EndInv ==
    KillInv /\ Phases /\ NeverEmptied /\ SliceAlive /\ EndAfterDeathOnceSized

\* Every step keeps the end callback behind the last worker.
LEMMA EndInvStep == EndInv /\ [Next]_vars => EndInv'
  <1> SUFFICES ASSUME EndInv, [Next]_vars
               PROVE  (Phases /\ NeverEmptied /\ SliceAlive
                        /\ EndAfterDeathOnceSized)'
    BY KillInvStep DEF EndInv
  <1>0. /\ place \in Places /\ workers \in Seq(Worker) /\ killed \subseteq Worker
        /\ target \in Nat /\ closed \in BOOLEAN /\ sized \in BOOLEAN
        /\ GroupCounts /\ group \in Nat
        /\ KillDiscipline
        /\ Phases /\ NeverEmptied /\ SliceAlive /\ EndAfterDeathOnceSized
    BY WorkerPoolAssumption DEF EndInv, KillInv, TypeInv, TypeOK, Places
  <1> USE DEF Phases
  <1>1. CASE Spawn
    <2>1. PICK w \in Fresh : /\ workers' = Append(workers, w)
                             /\ place' = [place EXCEPT ![w] = "running"]
      BY <1>1 DEF Spawn
    <2>2. /\ w \in Worker
          /\ DOMAIN workers = 1 .. Len(workers)
          /\ DOMAIN workers' = 1 .. Len(workers) + 1
          /\ workers'[Len(workers) + 1] = w
          /\ \A k \in 1 .. Len(workers) : workers'[k] = workers[k]
          /\ workers' # <<>> /\ Len(workers) \in Nat
      BY <1>0, <2>1 DEF Fresh
    <2>3. ~sized /\ ~closed /\ inputEnd # "late"
      BY <1>0, <1>1, <2>2 DEF Spawn
    <2>4. Phases' /\ NeverEmptied'
      BY <1>0, <1>1, <2>2 DEF Spawn, NeverEmptied
    <2>5. SliceAlive'
      BY <1>0, <1>1, <2>1, <2>2 DEF Spawn, SliceAlive, Places
    <2>6. inputEnd = "no" => waiter \notin {"released", "ending", "panicked"}
      <3> SUFFICES ASSUME inputEnd = "no",
                          waiter \in {"released", "ending", "panicked"}
                   PROVE  FALSE
        OBVIOUS
      <3>1. Running = {}
        BY <1>0 DEF EndAfterDeathOnceSized, EndAfterDeath
      <3>2. workers # <<>>
        BY <1>0, <2>3 DEF NeverEmptied
      <3>3. 1 \in DOMAIN workers /\ workers[1] \in Worker
        BY <1>0, <3>2
      <3> QED BY <1>0, <3>1, <3>3 DEF SliceAlive, Running
    <2>7. inputEnd' = inputEnd /\ waiter' = waiter
      BY <1>1 DEF Spawn
    <2>8. inputEnd \in {"no", "early", "late"}
      BY DEF EndInv, KillInv, TypeInv, TypeOK
    <2>9. EndAfterDeathOnceSized'
      BY <2>3, <2>6, <2>7, <2>8 DEF EndAfterDeathOnceSized, EndAfterDeath
    <2> QED BY <2>4, <2>5, <2>9
  <1>2. CASE Kill
    <2>1. /\ Len(workers) \in Nat /\ Len(workers) > 1
          /\ DOMAIN workers = 1 .. Len(workers)
          /\ DOMAIN workers' = 1 .. Len(workers) - 1
          /\ \A k \in 1 .. Len(workers) - 1 : workers'[k] = workers[k]
          /\ UNCHANGED <<closed, target, sized, place, waiter, inputEnd>>
      BY <1>0, <1>2 DEF Kill, Shrunk
    <2>2. workers' # <<>>
      BY <2>1
    <2> QED BY <1>0, <2>1, <2>2
        DEF NeverEmptied, SliceAlive, EndAfterDeathOnceSized, EndAfterDeath,
            Running
  <1>3. CASE terminate
    <2>1. DOMAIN workers' = {} /\ closed'
          /\ UNCHANGED <<target, sized, place, waiter, inputEnd>> /\ sized
      BY <1>3 DEF terminate
    <2> QED BY <1>0, <2>1
        DEF NeverEmptied, SliceAlive, EndAfterDeathOnceSized, EndAfterDeath,
            Running
  <1>4. ASSUME NEW w \in Worker, Exit(w)
        PROVE  (Phases /\ NeverEmptied /\ SliceAlive
                 /\ EndAfterDeathOnceSized)'
    <2>1. /\ UNCHANGED <<workers, closed, target, sized, killed, inputEnd>>
          /\ place' = [place EXCEPT ![w] = "dead"] /\ place[w] = "running"
          /\ inputEnd # "no" \/ w \in killed
          /\ waiter' # waiter => waiter # "none" /\ group = 1
          /\ waiter' = "none" => waiter = "none"
      BY <1>4 DEF Exit, MayExit
    <2>2. /\ Running' = Running \ {w}
          /\ Cardinality(Running) = 1 => Running' = {}
      BY <1>0, <2>1, RunningShrinks
    <2>3. SliceAlive'
      BY <1>0, <2>1 DEF SliceAlive, KillDiscipline, Places
    <2>4. EndAfterDeathOnceSized'
      BY <1>0, <2>1, <2>2
         DEF EndAfterDeathOnceSized, EndAfterDeath, GroupCounts
    <2>5. Phases' /\ NeverEmptied'
      BY <1>0, <2>1 DEF NeverEmptied
    <2> QED BY <2>3, <2>4, <2>5
  <1>5. CASE Wait
    <2>1. /\ UNCHANGED <<workers, closed, target, sized, place, inputEnd>>
          /\ waiter # "none"
          /\ waiter' \in {"released", "ending", "panicked"} => group = 0
      BY <1>5 DEF Wait
    <2>2. group = 0 => Running = {}
      <3>1. IsFiniteSet(Worker)
        BY WorkerPoolAssumption, FS_Interval DEF Worker
      <3>2. IsFiniteSet(Running)
        BY <3>1, FS_Subset DEF Running
      <3> QED BY <1>0, <3>2, FS_EmptySet DEF GroupCounts
    <2> QED BY <1>0, <2>1, <2>2
        DEF NeverEmptied, SliceAlive, EndAfterDeathOnceSized, EndAfterDeath,
            Running
  <1>6. CASE StartMonitor
    BY <1>0, <1>6
       DEF StartMonitor, NeverEmptied, SliceAlive, EndAfterDeathOnceSized,
           EndAfterDeath, Running
  <1>7. CASE WaitReturns \/ End
    BY <1>0, <1>7
       DEF WaitReturns, End, NeverEmptied, SliceAlive, EndAfterDeathOnceSized,
           EndAfterDeath, Running
  <1>8. CASE InputEnds
    BY <1>0, <1>8
       DEF InputEnds, InputMayEnd, NeverEmptied, SliceAlive,
           EndAfterDeathOnceSized, EndAfterDeath, Running
  <1>9. ASSUME NEW n \in 1 .. MaxWorkers, CallSetCapacity(n)
        PROVE  (Phases /\ NeverEmptied /\ SliceAlive
                 /\ EndAfterDeathOnceSized)'
    BY <1>0, <1>9
       DEF CallSetCapacity, NeverEmptied, SliceAlive, EndAfterDeathOnceSized,
           EndAfterDeath, Running
  <1>10. CASE setCapacityReturns
    BY <1>0, <1>10
       DEF setCapacityReturns, NeverEmptied, SliceAlive,
           EndAfterDeathOnceSized, EndAfterDeath, Running
  <1>11. CASE Finished \/ UNCHANGED vars
    BY <1>0, <1>11
       DEF Finished, vars, NeverEmptied, SliceAlive, EndAfterDeathOnceSized,
           EndAfterDeath, Running
  <1> QED BY <1>1, <1>2, <1>3, <1>4, <1>5, <1>6, <1>7, <1>8, <1>9, <1>10,
             <1>11 DEF Next, Step

\* At first nobody has been waited for.
LEMMA EndInvInit == Init => EndInv
  BY KillInvInit
     DEF Init, EndInv, Phases, NeverEmptied, SliceAlive,
         EndAfterDeathOnceSized, EndAfterDeath

\* If the input ends after the last setCapacity call, Wait returns, and the
\* end callback closes outPool, only after the last worker has died.
THEOREM EndComesLast == Spec => []EndAfterDeathOnceSized
  <1>1. EndInv => EndAfterDeathOnceSized BY DEF EndInv
  <1> QED BY <1>1, EndInvInit, EndInvStep, PTL DEF Spec
=============================================================================
