------------------------------ MODULE XzStream ------------------------------
(***************************************************************************)
(* What a Writer promises, whatever its mode: the blocks of the file are   *)
(* the data the client handed over, cut into consecutive non-empty pieces, *)
(* and a Close that succeeds leaves a file that holds all of it and an     *)
(* index that lists exactly its blocks.  The units of data are numbered    *)
(* 1, 2, 3, ... in the order the client writes them.                       *)
(***************************************************************************)
EXTENDS Naturals, Sequences

VARIABLES accepted, \* number of units the client has handed over
          blocks,   \* the blocks in the file, each a sequence of units
          index,    \* the uncompressed sizes in the index of the file
          outcome   \* "none", "ok" (Close has succeeded) or "err"

vars == <<accepted, blocks, index, outcome>>

\* The units from lo up to hi.
Units(lo, hi) == [k \in 1 .. (hi - lo) |-> lo + k]

Last(s) == s[Len(s)]

\* The number of units already in the file.
Emitted == IF blocks = <<>> THEN 0 ELSE Last(Last(blocks))

Init ==
    /\ accepted = 0
    /\ blocks = <<>>
    /\ index = <<>>
    /\ outcome = "none"

\* A client may go on after an error; nothing is promised about that data.
Accept ==
    /\ outcome # "ok"
    /\ accepted' \in Nat /\ accepted' > accepted
    /\ UNCHANGED <<blocks, index, outcome>>

Emit ==
    /\ outcome = "none"
    /\ \E hi \in (Emitted + 1) .. accepted :
         blocks' = Append(blocks, Units(Emitted, hi))
    /\ UNCHANGED <<accepted, index, outcome>>

Finish ==
    /\ outcome = "none"
    /\ Emitted = accepted
    /\ index' = [k \in DOMAIN blocks |-> Len(blocks[k])]
    /\ outcome' = "ok"
    /\ UNCHANGED <<accepted, blocks>>

Fail ==
    /\ outcome = "none"
    /\ outcome' = "err"
    /\ UNCHANGED <<accepted, blocks, index>>

Next == Accept \/ Emit \/ Finish \/ Fail

Spec == Init /\ [][Next]_vars
=============================================================================
