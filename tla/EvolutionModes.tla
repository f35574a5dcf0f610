--------------------------- MODULE EvolutionModes ---------------------------
(***************************************************************************)
(* The five controller modes, the integer budget plan and the two rankings *)
(* of controller/src/evolution-modes.mjs.  Branch "branch-00i" is the      *)
(* number i: the ids are zero-padded, so their string order is the numeric *)
(* one.  A score is an integer that grows with quality, as incumbentScore  *)
(* makes it; beta is the fraction BetaNum / BetaDen.                       *)
(***************************************************************************)
EXTENDS Integers, FiniteSets

CONSTANTS Mode,         \* one of Modes
          N,            \* concurrency.n_branches
          TotalBudget,  \* budget.total_budget, in candidate rounds
          BetaNum,      \* budget.beta = BetaNum / BetaDen
          BetaDen,
          GrantUnit     \* competition.bonus_grant_unit

Modes == {"single", "independent", "mutualism", "competition", "combined"}

(* What normalizeControllerConfig accepts; its caps of 32 branches and     *)
(* 10000 rounds are not needed.                                            *)
ASSUME ConfigAssumption ==
    /\ Mode \in Modes
    /\ N \in Nat \ {0}
    /\ Mode = "single" <=> N = 1
    /\ TotalBudget \in Nat \ {0}
    /\ BetaNum \in Nat
    /\ BetaDen \in Nat \ {0}
    /\ BetaNum <= BetaDen
    /\ GrantUnit \in 1..TotalBudget

Branches == 1..N

UsesCompetition == Mode \in {"competition", "combined"}

(* createBudgetPlan: with competition every branch gets the same floor and *)
(* what is left is the bonus pool; without it the remainder goes one round *)
(* each to the first branches.                                             *)
PerBranch == (TotalBudget * BetaNum) \div (BetaDen * N)

EvenShare(b) == (TotalBudget \div N) + (IF b <= TotalBudget % N THEN 1 ELSE 0)

BaseBudget ==
    [b \in Branches |-> IF UsesCompetition THEN PerBranch ELSE EvenShare(b)]

BonusPool == IF UsesCompetition THEN TotalBudget - PerBranch * N ELSE 0

(* The credits a per-branch count stands for, one pair each.               *)
Credits(f) == UNION {{b} \X (1..f[b]) : b \in Branches}

(* The grant made at once: a unit, or what the pool still holds.           *)
GrantSizeUnclamped(pool) == GrantUnit

GrantSize(pool) == IF GrantUnit <= pool THEN GrantUnit ELSE pool

(* selectPopulationBest: w has the best incumbent of S, ties to the lowest *)
(* branch id.                                                              *)
IsPopulationBest(w, S, score) ==
    /\ w \in S
    /\ \A b \in S \ {w} :
         \/ score[w] > score[b]
         \/ score[w] = score[b] /\ w < b

(* selectCompetitionWinner over the eligible results E: the largest delta, *)
(* then the largest validation score, then the lowest branch id.           *)
IsCompetitionWinner(w, E, delta, score) ==
    /\ w \in E
    /\ \A b \in E \ {w} :
         \/ delta[w] > delta[b]
         \/ delta[w] = delta[b] /\ score[w] > score[b]
         \/ delta[w] = delta[b] /\ score[w] = score[b] /\ w < b

=============================================================================
