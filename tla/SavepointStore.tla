--------------------------- MODULE SavepointStore ---------------------------
(***************************************************************************)
(* What a store with savepoints promises to its callers: a current state,  *)
(* and a stack of savepoints each of which remembers the whole state at    *)
(* the moment it was taken.  The token database implements this promise    *)
(* without ever copying a state: see TokenDatabase.                        *)
(***************************************************************************)
EXTENDS Naturals, SequencesExt

CONSTANT States          \* the states the store can be in

VARIABLES cur,           \* the state readers see
          saved          \* the savepoints, oldest first: [seq, val]

vars == <<cur, saved>>

Init == cur \in States /\ saved = <<>>

(* A caller changes the current state.                                     *)
Write == cur' \in States /\ UNCHANGED saved

(* The current state is remembered under a larger number than any before.  *)
Save == /\ Len(saved') = Len(saved) + 1
        /\ saved' = Append(saved, [seq |-> Last(saved').seq, val |-> cur])
        /\ saved # <<>> => Last(saved).seq < Last(saved').seq
        /\ UNCHANGED cur

(* Everything since the latest savepoint is undone.                        *)
Rollback == /\ saved # <<>>
            /\ cur' = Last(saved).val
            /\ saved' = Front(saved)

(* The two latest savepoints become one: nothing a reader sees changes.    *)
Squash == /\ Len(saved) >= 2
          /\ saved' = Front(saved)
          /\ UNCHANGED cur

(* The oldest savepoints are given up: nothing a reader sees changes.      *)
Commit == \E n \in 1..Len(saved) :
             /\ saved' = SubSeq(saved, n + 1, Len(saved))
             /\ UNCHANGED cur

Next == Write \/ Save \/ Rollback \/ Squash \/ Commit

Spec == Init /\ [][Next]_vars
=============================================================================
