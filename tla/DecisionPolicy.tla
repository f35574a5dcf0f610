--------------------------- MODULE DecisionPolicy ---------------------------
(***************************************************************************)
(* The decision on a candidate (controller/src/evaluator.mjs).  The        *)
(* records of the champion and of the candidate on the instances of the    *)
(* decision partition are compared pair by pair, and the candidate is      *)
(* eligible if every gate of the policy passes.  Records can be missing,   *)
(* know no cost, or stand for a run that never finished.  Rates are        *)
(* counts here, all being over the same instances.                         *)
(***************************************************************************)
EXTENDS Integers, FiniteSets, FiniteSetsExt

CONSTANTS Instances, Sealed, \* decision partition, one sealed instance
          Records,           \* [status, reward, cost, violations]
          Policies,
          Rounds

DecisionAssumption ==
    /\ IsFiniteSet(Instances) /\ Sealed \notin Instances /\ Rounds \in Nat
    /\ \A r \in Records : r.reward \in Int
    /\ \A p \in Policies : p.net \in Int /\ p.reward \in Int

VARIABLES policy, base, cand, \* instance |-> record, of those reported
          decision, rounds

decisionVars == <<policy, base, cand, decision, rounds>>

Unknown == -1  \* no such number in the record, or no such gate
NoRecords == [i \in {} |-> Unknown]

Init ==
    /\ policy \in Policies /\ base = NoRecords /\ cand = NoRecords
    /\ decision = "open" /\ rounds = 0

With(run, i, r) == [j \in DOMAIN run \cup {i} |-> IF j = i THEN r ELSE run[j]]

(* A sealed instance turns up only where partitions were mixed up.         *)
Report(i, r) ==
    /\ decision = "open"
    /\ \/ i \notin DOMAIN base /\ base' = With(base, i, r) /\ UNCHANGED cand
       \/ i \notin DOMAIN cand /\ cand' = With(cand, i, r) /\ UNCHANGED base
    /\ UNCHANGED <<policy, decision, rounds>>

-----------------------------------------------------------------------------
(* An instance without a record was not attempted (materializeRecords).    *)
NotAttempted == [status |-> "not_attempted", reward |-> 0, cost |-> Unknown, violations |-> 0]
Of(run, i) == IF i \in DOMAIN run THEN run[i] ELSE NotAttempted

Present(run) == Cardinality(Instances \cap DOMAIN run)
Completed(run) == Cardinality({i \in Instances : Of(run, i).status \in {"resolved", "unresolved"}})
Resolved(run, i) == Of(run, i).status = "resolved"
Violations(run) == MapThenSumSet(LAMBDA i : Of(run, i).violations, Instances)

(* A total is known only if every record knows its part of it.             *)
ObservedCost(run) ==
    MapThenSumSet(LAMBDA i : IF Of(run, i).cost = Unknown THEN 0 ELSE Of(run, i).cost, Instances)
Cost(run) ==
    IF \E i \in Instances : Of(run, i).cost = Unknown THEN Unknown
    ELSE MapThenSumSet(LAMBDA i : Of(run, i).cost, Instances)

(* compareRuns: the pairs that were won, lost, improved and worsened.      *)
NewlyResolved(b, c) == {i \in Instances : Resolved(c, i) /\ ~Resolved(b, i)}
Regressed(b, c) == {i \in Instances : Resolved(b, i) /\ ~Resolved(c, i)}
Net(b, c) == Cardinality(NewlyResolved(b, c)) - Cardinality(Regressed(b, c))
Improved(b, c) == {i \in Instances : Of(c, i).reward > Of(b, i).reward}
Worsened(b, c) == {i \in Instances : Of(c, i).reward < Of(b, i).reward}
RewardDelta(b, c) == MapThenSumSet(LAMBDA i : Of(c, i).reward - Of(b, i).reward, Instances)

(* Whether the lower bound of the bootstrap interval of the paired deltas  *)
(* is positive: the samples only repeat the pairs, so it is if all pairs   *)
(* were won and is not if none was; in between it depends on the samples.  *)
PositiveBound(b, c) ==
    IF NewlyResolved(b, c) = Instances THEN {TRUE}
    ELSE IF NewlyResolved(b, c) = {} THEN {FALSE} ELSE BOOLEAN

(* compareOptionalTotals: no increase can be told from an unknown total,   *)
(* nor from nothing to something.  Tokens and latency have limits like it. *)
IncreaseWithin(b, c, limit) ==
    /\ Cost(b) # Unknown /\ Cost(c) # Unknown
    /\ IF Cost(b) = 0 THEN Cost(c) = 0 ELSE 100 * (Cost(c) - Cost(b)) <= limit * Cost(b)

Within(n, limit) == limit = Unknown \/ n <= limit

Quality(b, c) ==
    /\ Net(b, c) >= policy.net /\ RewardDelta(b, c) >= policy.reward
    /\ Within(Cardinality(Regressed(b, c)), policy.regressions)
    /\ Cardinality(Improved(b, c)) >= policy.improved
    /\ Within(Cardinality(Worsened(b, c)), policy.worsened)

CoverageOfCandidate(b, c) == Present(c) >= policy.records /\ Completed(c) >= policy.completed
Coverage(b, c) ==
    \A run \in {b, c} : Present(run) >= policy.records /\ Completed(run) >= policy.completed

(* applyPolicy: every gate counts; the bound is the only uncertain one.    *)
Eligible(b, c) ==
    {Coverage(b, c) /\ Quality(b, c) /\ (policy.bound => bound)
        /\ (policy.cost = Unknown \/ IncreaseWithin(b, c, policy.cost))
        /\ Violations(c) <= policy.violations : bound \in PositiveBound(b, c)}

(* evaluateBenchmark refuses records of a sealed partition altogether.     *)
Leaked == Sealed \in DOMAIN base \cup DOMAIN cand

Decide ==
    /\ decision = "open"
    /\ decision' \in IF Leaked THEN {"refused"}
                     ELSE {IF e THEN "promoted" ELSE "rejected" : e \in Eligible(base, cand)}
    /\ UNCHANGED <<policy, base, cand, rounds>>

(* The next generation measures both sides anew.                           *)
NextRound ==
    /\ decision \notin {"open", "refused"} /\ rounds < Rounds
    /\ rounds' = rounds + 1 /\ decision' = "open"
    /\ base' = NoRecords /\ cand' = NoRecords /\ UNCHANGED policy

Next ==
    \/ Decide \/ NextRound \/ Report(Sealed, NotAttempted)
    \/ \E i \in Instances, r \in Records : Report(i, r)

Spec == Init /\ [][Next]_decisionVars

-----------------------------------------------------------------------------
Wins(run) == Cardinality({i \in Instances \cap DOMAIN run : run[i].status = "resolved"})

(* With a quality threshold above zero no two runs beat each other: a      *)
(* champion cannot be replaced by a candidate it would replace in turn.    *)
OneWay ==
    policy.net > 0 \/ policy.reward > 0 => TRUE \notin Eligible(cand, base)

(* Nothing unmeasured counts for the candidate: not a cost nobody knows,   *)
(* not a record that is not there on either side.                          *)
NothingUnmeasured ==
    /\ policy.cost # Unknown =>
         \A i \in Instances : \A run \in {base, cand} : i \in DOMAIN run /\ run[i].cost # Unknown
    /\ policy.records = Cardinality(Instances) =>
         Instances \subseteq DOMAIN base \cap DOMAIN cand

(* A promotion is earned on the decision partition alone: the candidate    *)
(* resolves as many more as the policy asks, by whichever instances, never *)
(* against an instance or a cost that was not measured, and never both     *)
(* ways.                                                                   *)
PromotionIsEarned ==
    decision = "promoted" =>
      /\ Wins(cand) - Wins(base) >= policy.net
      /\ Sealed \notin DOMAIN base \cup DOMAIN cand
      /\ OneWay /\ NothingUnmeasured
=============================================================================
