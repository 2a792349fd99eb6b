------------------------------ MODULE WorkerPool ------------------------------
(***************************************************************************)
(* The workerPool of xz/pool.go: one goroutine (Writer.monitor) sizes the  *)
(* pool with setCapacity and finally calls terminate; workers leave when   *)
(* they are killed or when their input ends; a single monitor routine      *)
(* waits on a sync.WaitGroup and then calls the end callback.              *)
(*                                                                         *)
(* sync.WaitGroup is modelled by its counter and by the place of its one   *)
(* waiter: Done on the last worker releases the waiter, which resumes in a *)
(* later step of its own.  Resuming while the counter is not zero is       *)
(* misuse of a WaitGroup: the runtime goes on, as it did before Go 1.5, or *)
(* panics with "WaitGroup is reused before previous Wait has returned",    *)
(* which nobody recovers and which ends the program.                       *)
(***************************************************************************)
EXTENDS Naturals, Sequences, FiniteSets

CONSTANTS MaxSpawn,  \* bound: workers spawned over the life of the pool
          MaxWorkers \* bound: the largest argument of setCapacity

ASSUME WorkerPoolAssumption ==
    /\ MaxSpawn \in Nat \ {0}
    /\ MaxWorkers \in 1 .. MaxSpawn

Worker == 1 .. MaxSpawn   \* in the order they are spawned

VARIABLES workers,  \* the slice of kill channels, named by their worker
          closed,   \* set by terminate
          target,   \* the argument of the running setCapacity call, 0 if none
          sized,    \* has the caller made its last setCapacity call?
          place,    \* place[w]: "none", "running" or "dead"
          killed,   \* workers whose kill channel is closed
          group,    \* counter of the WaitGroup
          waiter,   \* the monitor routine
          inputEnd  \* has the input ended: "no", "early" (while the pool
                    \* was being sized) or "late"

vars == <<workers, closed, target, sized, place, killed, group, waiter,
          inputEnd>>

\* "none": not started; "started": before Wait; "blocked": inside Wait;
\* "released": Wait may return; "ending": about to call end; "ended": done;
\* "panicked": Wait has found the group in use again.
Waiter ==
    {"none", "started", "blocked", "released", "ending", "ended", "panicked"}

TypeOK ==
    /\ workers \in Seq(Worker)
    /\ closed \in BOOLEAN
    /\ target \in 0 .. MaxWorkers
    /\ sized \in BOOLEAN
    /\ place \in [Worker -> {"none", "running", "dead"}]
    /\ killed \subseteq Worker
    /\ group \in Nat
    /\ waiter \in Waiter
    /\ inputEnd \in {"no", "early", "late"}

Init ==
    /\ workers = <<>>
    /\ closed = FALSE
    /\ target = 0
    /\ sized = FALSE
    /\ place = [w \in Worker |-> "none"]
    /\ killed = {}
    /\ group = 0
    /\ waiter = "none"
    /\ inputEnd = "no"

Fresh == {w \in Worker : place[w] = "none"}
Running == {w \in Worker : place[w] = "running"}

\* A panic in a goroutine takes the program with it.
Alive == waiter # "panicked"
-----------------------------------------------------------------------------
(***************************************************************************)
(* setCapacity and terminate, both called by Writer.monitor.               *)
(***************************************************************************)
\* Writer.monitor asks for one worker first, then for the final number.
CallSetCapacity(n) ==
    /\ target = 0 /\ ~sized /\ ~closed
    /\ Len(workers) = 0 => n = 1
    /\ n <= Len(workers) + Cardinality(Fresh)
    /\ target' = n
    /\ UNCHANGED <<workers, closed, sized, place, killed, group, waiter,
                   inputEnd>>

\* Mutant: no group.Add.
AddNone == group

\* Mutant: group.Add only for the first worker.
AddOnce == IF waiter = "none" THEN 1 ELSE group

\* group.Add(1)
Add == group + 1

\* group.Add(1), go wp.work(...), append; once.Do follows in its own step.
Spawn ==
    /\ target > Len(workers)
    /\ waiter = "none" => workers = <<>>
    /\ \E w \in Fresh :
         /\ \A v \in Fresh : w <= v
         /\ workers' = Append(workers, w)
         /\ place' = [place EXCEPT ![w] = "running"]
    /\ group' = Add
    /\ UNCHANGED <<closed, target, sized, killed, waiter, inputEnd>>

\* wp.once.Do(wp.monitor) after the first worker.
StartMonitor ==
    /\ waiter = "none"
    /\ workers # <<>>
    /\ waiter' = "started"
    /\ UNCHANGED <<workers, closed, target, sized, place, killed, group,
                   inputEnd>>

\* Mutant: the kill channel stays in the slice.
ShrunkNot == workers

Shrunk == SubSeq(workers, 1, Len(workers) - 1)

Kill ==
    /\ target # 0 /\ target < Len(workers)
    /\ workers' = Shrunk
    /\ killed' = killed \cup {workers[Len(workers)]}
    /\ UNCHANGED <<closed, target, sized, place, group, waiter, inputEnd>>

\* setCapacity returns; the caller may be content with the size.
setCapacityReturns ==
    /\ target # 0 /\ target = Len(workers)
    /\ waiter # "none"
    /\ target' = 0
    /\ sized' \in BOOLEAN
    /\ UNCHANGED <<workers, closed, place, killed, group, waiter, inputEnd>>

terminate ==
    /\ sized /\ ~closed
    /\ closed' = TRUE
    /\ killed' = killed \cup {workers[k] : k \in DOMAIN workers}
    /\ workers' = <<>>
    /\ UNCHANGED <<target, sized, place, group, waiter, inputEnd>>
-----------------------------------------------------------------------------
(***************************************************************************)
(* Workers and their input.                                                *)
(***************************************************************************)
\* Mutant: terminate is not followed by the end of the input.
InputMayEndByClient == inputEnd = "no" /\ ~closed

InputMayEnd == inputEnd = "no"

\* The input is closed and drained, or work is called off: Writer.Close ends
\* it at any time, and after terminate the input pool is terminated too.
InputEnds ==
    /\ InputMayEnd
    /\ inputEnd' = IF sized THEN "late" ELSE "early"
    /\ UNCHANGED <<workers, closed, target, sized, place, killed, group,
                   waiter>>

\* Mutant: the end of the input is ignored.
MayExitKilled(w) == w \in killed

MayExit(w) == inputEnd # "no" \/ w \in killed

\* A worker leaves after a piece of work if its kill channel is closed, or
\* when it is given no more work, and runs its deferred group.Done.
Exit(w) ==
    /\ place[w] = "running"
    /\ MayExit(w)
    /\ place' = [place EXCEPT ![w] = "dead"]
    /\ group' = group - 1
    /\ waiter' = IF group = 1 /\ waiter = "blocked" THEN "released" ELSE waiter
    /\ UNCHANGED <<workers, closed, target, sized, killed, inputEnd>>
-----------------------------------------------------------------------------
(***************************************************************************)
(* The monitor routine: group.Wait(), then end().                          *)
(***************************************************************************)
Wait ==
    /\ waiter = "started"
    /\ waiter' = IF group = 0 THEN "ending" ELSE "blocked"
    /\ UNCHANGED <<workers, closed, target, sized, place, killed, group,
                   inputEnd>>

WaitReturns ==
    /\ waiter = "released"
    /\ \/ waiter' = "ending"
       \/ group # 0 /\ waiter' = "panicked"
    /\ UNCHANGED <<workers, closed, target, sized, place, killed, group,
                   inputEnd>>

End ==
    /\ waiter = "ending"
    /\ waiter' = "ended"
    /\ UNCHANGED <<workers, closed, target, sized, place, killed, group,
                   inputEnd>>

\* Everybody has left, or the program has ended.
Finished ==
    /\ Alive => closed /\ Running = {} /\ waiter = "ended"
    /\ UNCHANGED vars

Step ==
    \/ \E n \in 1 .. MaxWorkers : CallSetCapacity(n)
    \/ Spawn \/ StartMonitor \/ Kill \/ setCapacityReturns \/ terminate
    \/ InputEnds
    \/ \E w \in Worker : Exit(w)
    \/ Wait \/ WaitReturns \/ End

Next == (Alive /\ Step) \/ Finished

Spec == Init /\ [][Next]_vars

\* Writer.monitor asks for the first worker without delay; the goroutine
\* inside setCapacity, the monitor routine and the workers keep running.  A
\* killed worker notices only after its next piece of work, so it is certain
\* to leave only when the input ends; after terminate the
\* input pool is terminated next, so the input does end.
Fairness ==
    /\ WF_vars(waiter = "none" /\ CallSetCapacity(1))
    /\ WF_vars(Alive /\ (Spawn \/ StartMonitor \/ Kill \/ setCapacityReturns))
    /\ WF_vars(Wait \/ WaitReturns \/ End)
    /\ WF_vars(Alive /\ closed /\ InputEnds)
    /\ \A w \in Worker : WF_vars(Alive /\ inputEnd # "no" /\ Exit(w))

FairSpec == Spec /\ Fairness
-----------------------------------------------------------------------------
(***************************************************************************)
(* Properties.                                                             *)
(***************************************************************************)
\* close(killChan) never meets a closed channel, whether the worker is killed
\* by a shrinking setCapacity or by terminate, and terminate reaches every
\* worker that has not been killed before: none outlives the pool.
KillDiscipline ==
    /\ \A j, k \in DOMAIN workers : workers[j] = workers[k] => j = k
    /\ \A k \in DOMAIN workers : workers[k] \notin killed
    /\ \A w \in Running :
         w \in killed \/ \E k \in DOMAIN workers : workers[k] = w

\* "It blocks until all workers have died and then calls the provided end
\* callback" (workerPool.monitor): no worker is alive when Wait has returned.
EndAfterDeath ==
    waiter \in {"released", "ending", "panicked"} => Running = {}

\* The same for the order of events the code is written for: whatever the
\* pool's growing and shrinking did, if the input ends only after the last
\* setCapacity call then no worker is alive when Wait has returned, and Wait
\* does not panic.
EndAfterDeathOnceSized == inputEnd # "early" => EndAfterDeath

\* The end callback, which closes outPool and so lets the writer goroutine
\* finish, is called once the input has ended, whatever the resizing did; if
\* the input ended while the pool was being sized, Wait may panic instead.
EndIsCalled ==
    inputEnd # "no" ~>
        waiter = "ended" \/ (inputEnd = "early" /\ waiter = "panicked")

\* After terminate all workers leave for good, because their input ends then
\* (Writer.monitor), unless a panic of Wait has ended the program.
WorkersReaped == closed ~> [](Running = {} \/ ~Alive)
=============================================================================
