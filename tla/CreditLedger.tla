---------------------------- MODULE CreditLedger ----------------------------
(***************************************************************************)
(* What a population campaign promises about its budget, without waves,    *)
(* processes, pauses or crashes.  Branches work on credit, one round at a  *)
(* time; all rounds done are charged together; a competition moves credits *)
(* from the pool to one branch, at a settlement or when nobody has any     *)
(* left; a closed ledger never changes.                                    *)
(***************************************************************************)
EXTENDS EvolutionModes

VARIABLES done,   \* candidate rounds each branch has completed
          paid,   \* rounds each branch has been charged for
          bonus,  \* credits granted to each branch from the pool
          pool,   \* credits not granted yet
          closed

ledger == <<done, paid, bonus, pool, closed>>

Init ==
    /\ done = [b \in Branches |-> 0]
    /\ paid = [b \in Branches |-> 0]
    /\ bonus = [b \in Branches |-> 0]
    /\ pool = BonusPool
    /\ closed = FALSE

Funded(b) == paid[b] < BaseBudget[b] + bonus[b]

(* At most one round ahead of the charges, and only with a credit to pay.  *)
Work(b) ==
    /\ ~closed /\ done[b] = paid[b] /\ Funded(b)
    /\ done' = [done EXCEPT ![b] = @ + 1]
    /\ UNCHANGED <<paid, bonus, pool, closed>>

GrantTo(b) ==
    /\ UsesCompetition /\ pool > 0
    /\ bonus' = [bonus EXCEPT ![b] = @ + GrantSize(pool)]
    /\ pool' = pool - GrantSize(pool)

(* Every round done is charged; in a competition with a pool, a branch that*)
(* just worked may win a grant.                                            *)
Settle ==
    /\ ~closed /\ paid # done
    /\ paid' = done
    /\ \/ UNCHANGED <<bonus, pool>>
       \/ \E b \in Branches : done[b] > paid[b] /\ GrantTo(b)
    /\ UNCHANGED <<done, closed>>

(* A branch out of credit gets a grant only when nothing is owed.          *)
Bootstrap ==
    /\ ~closed /\ paid = done
    /\ \E b \in Branches : ~Funded(b) /\ GrantTo(b)
    /\ UNCHANGED <<done, paid, closed>>

Close ==
    /\ ~closed /\ paid = done
    /\ closed' = TRUE
    /\ UNCHANGED <<done, paid, bonus, pool>>

Next == Settle \/ Bootstrap \/ Close \/ \E b \in Branches : Work(b)

Spec == Init /\ [][Next]_ledger

=============================================================================
