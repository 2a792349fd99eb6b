------------------------------ MODULE PipeQueue ------------------------------
(***************************************************************************)
(* What a pipePool promises the goroutines on its two sides, without       *)
(* buffers, capacities, locks or waiting: every pipe index a producer is   *)
(* given reaches exactly one consumer, in index order when the consumer    *)
(* asks by index; nothing new is offered once the pool is closed, and      *)
(* nothing is delivered once it is terminated.                             *)
(***************************************************************************)
EXTENDS Integers, FiniteSets

CONSTANTS Idx,     \* the pipe indices
          Ordered  \* does the consumer ask for the indices one by one?

VARIABLES offered,   \* indices handed to a producer
          delivered, \* indices handed to a consumer
          state      \* "open", "closed" or "terminated"

vars == <<offered, delivered, state>>

Init ==
    /\ offered = {}
    /\ delivered = {}
    /\ state = "open"

Offer(i) ==
    /\ state = "open"
    /\ i \notin offered
    /\ offered' = offered \cup {i}
    /\ UNCHANGED <<delivered, state>>

\* In order means that everything below i has gone out already.
Deliver(i) ==
    /\ state # "terminated"
    /\ i \in offered \ delivered
    /\ Ordered => \A j \in Idx : j < i => j \in delivered
    /\ delivered' = delivered \cup {i}
    /\ UNCHANGED <<offered, state>>

Close ==
    /\ state = "open"
    /\ state' = "closed"
    /\ UNCHANGED <<offered, delivered>>

Terminate ==
    /\ state # "terminated"
    /\ state' = "terminated"
    /\ UNCHANGED <<offered, delivered>>

Next ==
    \/ \E i \in Idx : Offer(i) \/ Deliver(i)
    \/ Close
    \/ Terminate

\* Nothing a producer was given is forgotten: a pipe that may be delivered
\* is delivered or the pool is terminated.
Spec == Init /\ [][Next]_vars

FairSpec == Spec /\ \A i \in Idx : WF_vars(Deliver(i))
=============================================================================
