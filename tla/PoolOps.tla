------------------------------- MODULE PoolOps -------------------------------
(***************************************************************************)
(* The bookkeeping of a pipePool (xz/pool.go) as operators on one record.  *)
(*                                                                         *)
(* Every exported method of pipePool runs under pp.mutex, so each operator *)
(* is one critical section, or the part of one that follows a return from  *)
(* sync.Cond.Wait.  Blocking and waking are not here: PipePool adds the    *)
(* condition variables, AsyncWriter composes two pools.                    *)
(*                                                                         *)
(* The three pipeSet maps are keyed by p.idx, and a pipe carries exactly   *)
(* one index at a time, so a pipe is identified with its current index:    *)
(* reusing a pipe removes its old index from "free" and adds the new one   *)
(* to "ready".                                                             *)
(***************************************************************************)
EXTENDS Integers, FiniteSets

\* The waitIdx of a pool nobody waits on.
NoIdx == -1

\* len, cap, closed, free, ready, active and waitIdx are the fields of the
\* Go struct; "dead" records that terminate has set pp.ready to nil, and
\* "shut" holds the indices whose pipe has been closed.
PoolType(Idx, Caps) ==
    [len : Nat, cap : Caps, closed : BOOLEAN, dead : BOOLEAN,
     free : SUBSET Idx, ready : SUBSET Idx, active : SUBSET Idx,
     shut : SUBSET Idx, waitIdx : Idx \cup {NoIdx}]

newPipePool ==
    [len |-> 0, cap |-> 0, closed |-> FALSE, dead |-> FALSE,
     free |-> {}, ready |-> {}, active |-> {}, shut |-> {},
     waitIdx |-> NoIdx]

\* Mutant: one pipe too many, > for >=.
WriterBlockedLate(pp, i) ==
    /\ ~pp.closed
    /\ i # pp.waitIdx
    /\ pp.free = {}
    /\ pp.len > pp.cap

\* The loop condition of getWriter.
WriterBlocked(pp, i) ==
    /\ ~pp.closed
    /\ i # pp.waitIdx
    /\ pp.free = {}
    /\ pp.len >= pp.cap

\* What getWriter may leave behind once it is past its loop on an open pool:
\* it reuses any one free pipe, or allocates when there is none.  The index
\* is new, so the pipe it names is open again.
GetWriter(pp, i) ==
    IF pp.free = {}
    THEN {[pp EXCEPT !.len = @ + 1, !.ready = @ \cup {i}]}
    ELSE {[pp EXCEPT !.free = @ \ {f}, !.ready = @ \cup {i}] : f \in pp.free}

\* The loop condition of getReader, for one index or for any (NoIdx).
ReaderBlocked(pp, idx) ==
    /\ ~pp.closed
    /\ IF idx = NoIdx THEN pp.ready = {} ELSE idx \notin pp.ready

\* Mutant: announces the index after the increment of iterReaderIdx.
AnnounceNext(pp, idx) == [pp EXCEPT !.waitIdx = idx + 1]

\* The announcement getReader makes before it waits for one index.
Announce(pp, idx) == [pp EXCEPT !.waitIdx = idx]

\* Mutant: pops any ready pipe even when asked for one index.
ReadableAny(pp, idx) == pp.ready

\* The pipes getReader may return; none means that it returns nil.
Readable(pp, idx) ==
    IF idx = NoIdx THEN pp.ready ELSE pp.ready \cap {idx}

\* Mutant: waitIdx is not reset.
GetReaderNilStale(pp, idx) == pp

\* getReader returns nil; only a wait for one index touches waitIdx.
GetReaderNil(pp, idx) ==
    [pp EXCEPT !.waitIdx = IF idx = NoIdx THEN @ ELSE NoIdx]

\* Mutant: the pipe is not pushed to the active set.
GetReaderInactive(pp, idx, i) ==
    [GetReaderNil(pp, idx) EXCEPT !.ready = @ \ {i}]

\* getReader(idx) takes pipe i.
GetReader(pp, idx, i) ==
    [GetReaderNil(pp, idx) EXCEPT !.ready = @ \ {i}, !.active = @ \cup {i}]

\* restore keeps the pipe while the pool is within its capacity and drops
\* it when the pool has grown beyond.
Keeps(pp) == pp.cap >= pp.len

\* Mutant: a dropped pipe is not taken off pp.len.
RestoreLeaks(pp, i) ==
    IF Keeps(pp)
    THEN [pp EXCEPT !.active = @ \ {i}, !.shut = @ \cup {i},
                    !.free = @ \cup {i}]
    ELSE [pp EXCEPT !.active = @ \ {i}, !.shut = @ \cup {i}]

Restore(pp, i) ==
    IF Keeps(pp)
    THEN [pp EXCEPT !.active = @ \ {i}, !.shut = @ \cup {i},
                    !.free = @ \cup {i}]
    ELSE [pp EXCEPT !.active = @ \ {i}, !.shut = @ \cup {i},
                    !.len = @ - 1]

SetCapacity(pp, c) == [pp EXCEPT !.cap = c]

Interrupt(pp) == [pp EXCEPT !.shut = @ \cup pp.ready \cup pp.active]

Close(pp) == [pp EXCEPT !.closed = TRUE]

Terminate(pp) ==
    [pp EXCEPT !.shut = @ \cup pp.ready \cup pp.active,
               !.ready = {}, !.dead = TRUE, !.closed = TRUE]

\* The side that fills pipe i closes it (BufferPipe.Close), under the
\* pipe's own lock and outside the pool's.
ClosePipe(pp, i) == [pp EXCEPT !.shut = @ \cup {i}]
=============================================================================
