---------------------------- MODULE RegionSearch ----------------------------
(***************************************************************************)
(* What an updater may change (controller/src/mutation-catalog.mjs) and    *)
(* how the search widens it (strategies/progressive-risk-expansion.mjs).   *)
(* A target declares regions with a risk level, paths, requirements and    *)
(* conflicts; a recipe masks some; each generation a strategy plans a set  *)
(* of regions, and the controller turns a valid plan into a lease of       *)
(* paths.  After too many misses in a row the strategy goes a level up.    *)
(***************************************************************************)
EXTENDS Naturals, FiniteSets, FiniteSetsExt, Sequences

CONSTANTS Regions,
          LevelPaths,   \* <<paths a level may write>>, level by level
          Misses,       \* missesBeforeExpansion
          Generations

Levels == DOMAIN LevelPaths
Paths == UNION {LevelPaths[l] : l \in Levels}

SearchAssumption ==
    /\ Misses \in Nat \ {0} /\ Generations \in Nat
    /\ LevelPaths \in Seq(SUBSET Paths) /\ Len(LevelPaths) > 0

VARIABLES catalog,   \* [risk, writable, requires, conflicts], by region
          mask,      \* [ceiling, exclude], the recipe's module search
          strategy,  \* the built-in strategy: "linear", "progressive"
          step, plan, lease,
          active, misses, exhausted, \* state of the progressive strategy
          outcomes   \* of the progressive strategy's generations

search == <<active, misses, exhausted>>
searchVars == <<catalog, mask, strategy, step, plan, lease, search, outcomes>>

UpTo(level) == {r \in Regions : catalog.risk[r] <= level}
Writable(rs) == UNION {catalog.writable[r] : r \in rs}

(* normalizeMutationCatalogConfiguration: a region stays within its level  *)
(* and requires no riskier one, nothing requires itself in the end, and    *)
(* all regions up to a level together write exactly what the level may.    *)
Acyclic == \A rs \in SUBSET Regions \ {{}} : \E r \in rs : catalog.requires[r] \cap rs = {}
Normalized ==
    /\ \A r \in Regions :
         /\ catalog.writable[r] \subseteq LevelPaths[catalog.risk[r]]
         /\ r \notin catalog.conflicts[r]
         /\ catalog.requires[r] \cap catalog.conflicts[r] = {}
         /\ \A q \in catalog.requires[r] : catalog.risk[q] <= catalog.risk[r]
    /\ Acyclic
    /\ \A l \in Levels : Writable(UpTo(l)) = LevelPaths[l]

(* mutationCatalogForModuleSearch: the mask may not part a region from     *)
(* what it requires, nor leave nothing.                                    *)
Selected == UpTo(mask.ceiling) \ mask.exclude
Masked == Selected # {} /\ \A r \in Selected : catalog.requires[r] \subseteq Selected

(* The levels the progressive strategy goes through; it starts at the      *)
(* first, which must have regions of its own left.                         *)
Open == {l \in Levels : \E r \in Selected : catalog.risk[r] = l}
Startable == strategy = "progressive" => 1 \in Open

One(f) == \E r \in Regions : \A q \in Regions : q # r => f[q] = {}

Init ==
    /\ catalog \in [risk : [Regions -> Levels], writable : [Regions -> {{p} : p \in Paths}],
                    requires : [Regions -> {rs \in SUBSET Regions : Cardinality(rs) <= 1}],
                    conflicts : {f \in [Regions -> {rs \in SUBSET Regions : Cardinality(rs) <= 1}] : One(f)}]
    /\ Normalized
    /\ mask \in [ceiling : Levels, exclude : {rs \in SUBSET Regions : Cardinality(rs) <= 1}]
    /\ strategy \in {"linear", "progressive"}
    /\ Masked /\ Startable
    /\ step = "propose" /\ plan = {} /\ lease = {}
    /\ active = IF strategy = "linear" THEN mask.ceiling ELSE 1
    /\ misses = 0 /\ exhausted = FALSE /\ outcomes = <<>>

(* Both strategies take every region that is left up to a level: the       *)
(* ceiling, or the one the progressive strategy is at.                     *)
Proposed == UpTo(active) \cap Selected

Propose ==
    /\ step = "propose" /\ ~exhausted /\ Len(outcomes) < Generations
    /\ plan' = Proposed /\ step' = "planned"
    /\ UNCHANGED <<catalog, mask, strategy, lease, search, outcomes>>

(* A strategy in a container may return any plan.                          *)
ProposeAnything ==
    /\ step = "propose" /\ strategy = "linear"
    /\ \E rs \in SUBSET Regions \ {{}} : plan' = rs
    /\ step' = "planned"
    /\ UNCHANGED <<catalog, mask, strategy, lease, search, outcomes>>

(* validateMutationPlan.                                                   *)
ValidAlone == plan # {} /\ plan \subseteq Selected
Valid ==
    /\ plan # {} /\ plan \subseteq Selected
    /\ \A r \in plan : catalog.requires[r] \subseteq plan /\ catalog.conflicts[r] \cap plan = {}

Issue ==
    /\ step = "planned"
    /\ IF Valid THEN lease' = Writable(plan) /\ step' = "leased"
       ELSE step' = "refused" /\ UNCHANGED lease
    /\ UNCHANGED <<catalog, mask, strategy, plan, search, outcomes>>

(* Misses go back to zero with a promotion and with a step up; a rejected  *)
(* candidate and an invalid proposal are misses alike.                     *)
MissesAfter(outcome) == IF outcome = "promoted" THEN 0 ELSE misses + 1
Above == {l \in Open : l > active}

Observe(outcome) ==
    /\ step = "leased" /\ step' = "propose" /\ lease' = {}
    /\ outcomes' = IF strategy = "linear" THEN outcomes ELSE Append(outcomes, outcome)
    /\ IF strategy = "linear" THEN UNCHANGED search
       ELSE IF MissesAfter(outcome) < Misses
       THEN misses' = MissesAfter(outcome) /\ UNCHANGED <<active, exhausted>>
       ELSE IF Above # {} THEN active' = Min(Above) /\ misses' = 0 /\ UNCHANGED exhausted
       ELSE misses' = MissesAfter(outcome) /\ exhausted' = TRUE /\ UNCHANGED active
    /\ UNCHANGED <<catalog, mask, strategy, plan>>

Next ==
    \/ Propose \/ ProposeAnything \/ Issue
    \/ \E outcome \in {"promoted", "missed"} : Observe(outcome)

Spec == Init /\ [][Next]_searchVars

-----------------------------------------------------------------------------
(* Whatever the strategy planned, an updater may only write what the       *)
(* ceiling of the recipe allows, never for a region that is masked, that   *)
(* conflicts with another one, or that lacks one it requires.              *)
LeaseIsAuthorized ==
    step = "leased" =>
      /\ lease \subseteq LevelPaths[mask.ceiling]
      /\ plan \cap mask.exclude = {}
      /\ \A r, q \in plan : q \notin catalog.conflicts[r]
      /\ \A r \in plan, q \in Regions \ plan : q \notin catalog.requires[r]

(* How many misses the last so many outcomes are, uninterrupted.           *)
MissedLast(n) ==
    /\ n <= Len(outcomes)
    /\ \A k \in Len(outcomes) - n + 1 .. Len(outcomes) : outcomes[k] # "promoted"

(* The search widens only where it is stuck: it is above its first level,  *)
(* or gives up, only after as many misses in a row as that takes, and it   *)
(* never plans again after that.                                           *)
WidensWhenStuck ==
    strategy = "progressive" =>
      /\ exhausted => MissedLast(Misses) /\ active = Max(Open) /\ step = "propose"
      /\ misses = Max({n \in 0 .. misses : MissedLast(n)})
      /\ ~exhausted => misses < Misses
      /\ \E climbs \in 0 .. Len(outcomes) :
           /\ climbs = Cardinality({l \in Open : l < active})
           /\ Cardinality({k \in DOMAIN outcomes : outcomes[k] # "promoted"})
                >= climbs * Misses + misses

(* A catalog and a mask the controller takes leave its own strategies a    *)
(* valid plan at every level, unless regions conflict: conflicts that a    *)
(* catalog may declare (docs/mutation-policy-reference.zh.md:183) are not  *)
(* resolved by any built-in strategy, every plan of theirs is refused.     *)
OwnPlansAreValid ==
    step = "refused" /\ plan = Proposed => \E r \in plan : catalog.conflicts[r] \cap plan # {}

(* The three together: what a search may write, when it may write more,    *)
(* and that it can go on.                                                  *)
SearchIsSound == LeaseIsAuthorized /\ WidensWhenStuck /\ OwnPlansAreValid
=============================================================================
