---------------------------- MODULE BranchDriver ----------------------------
(***************************************************************************)
(* What a population relies on when it asks a branch driver to advance:    *)
(* the branch is at most one step ahead of what was charged, a step may    *)
(* move the champion to its own candidate and nothing else does, a stopped *)
(* branch answers without a step and never moves again.                    *)
(***************************************************************************)
EXTENDS Naturals

VARIABLES charged,    \* steps the population has settled
          completed,  \* steps the branch has taken
          champion,   \* step whose candidate is the incumbent, 0 for H0
          stopped

driver == <<charged, completed, champion, stopped>>

Init == charged = 0 /\ completed = 0 /\ champion = 0 /\ stopped = FALSE

Advance ==
    /\ completed = charged /\ ~stopped
    /\ completed' = completed + 1
    /\ champion' \in {champion, completed'}
    /\ stopped' \in BOOLEAN
    /\ UNCHANGED charged

Charge ==
    /\ completed = charged + 1
    /\ charged' = completed
    /\ UNCHANGED <<completed, champion, stopped>>

(* A branch may also end without a step, when its updater asks for it or   *)
(* when it closes after its last one.                                      *)
Stop ==
    /\ ~stopped /\ stopped' = TRUE
    /\ UNCHANGED <<charged, completed, champion>>

Next == Advance \/ Charge \/ Stop

Spec == Init /\ [][Next]_driver

=============================================================================
