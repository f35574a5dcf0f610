--------------------------- MODULE MCEvaluation -----------------------------
(***************************************************************************)
(* How candidates are measured: the systems between the dataset and the    *)
(* decision on a promotion.  They share no state: the initial state        *)
(* chooses the one that moves, the others rest in an initial state.        *)
(***************************************************************************)
EXTENDS Integers, FiniteSets, Sequences

CONSTANTS Preparers, Nobody,                                  \* dataset
          Campaigns, Programs, Baseline, DigestOf, SlimOf,    \* runtime cache
          Tasks,                                              \* trials, partition, HLE, session
          Concurrency, Retries,                               \* trials, partition, HLE
          PausePolicy, Identities, MaxTrialStarts,            \* trials
          Requests, MaxTaskStarts,                            \* partition
          MaxSessions,                                        \* HLE
          Instances, Sealed, Records, Policies, Rounds,       \* decision
          Jobs, Candidates, Trained, Launches, Edits,         \* evaluation session
          Pops, Finalizers, MaxLaunches,                      \* final
          MaxStep, MaxSteps, MaxRuns                          \* generic algorithm

VARIABLES system,
          prepAt, told, lease, out, stage, backup, stalls, judged, seized,
          cacheAt, built, entry, runtime,
          strict, identity, trialStep, tries, dir, budget, output, trialStarts, sampled,
          taskStep, solverTries, verifierTries, requests, record, kept, temporary,
          ending, result, taskStarts,
          store, hleStep, sessions, lastCall, answer, aborted, solver, verifier,
          hleSolverTries, hleVerifierTries, hleRecord,
          policy, base, cand, decision, rounds,
          workspace, inputs, launches, edits, former, restored,
          root, named, trials, results, summary, holder, job,
          public, branch, claims, report, touched, adopted, proc, started, suite, claim,
          done,
          at, state, steps, saved, files, log, launched

Dataset == INSTANCE DatasetPreparation WITH at <- prepAt

Cache == INSTANCE RuntimeCache WITH Candidates <- Programs, at <- cacheAt

Trials == INSTANCE TrialPartition WITH
    MaxStarts <- MaxTrialStarts, step <- trialStep, starts <- trialStarts

Partition == INSTANCE PartitionRun WITH
    MaxStarts <- MaxTaskStarts, step <- taskStep, starts <- taskStarts

Hle == INSTANCE HleTask WITH
    step <- hleStep, solverTries <- hleSolverTries, verifierTries <- hleVerifierTries,
    record <- hleRecord

Decision == INSTANCE DecisionPolicy
Session == INSTANCE EvaluationSession
Final == INSTANCE FinalEvaluation WITH launches <- started
Generic == INSTANCE GenericRun WITH Launches <- MaxRuns

ASSUME EvaluationAssumption ==
    /\ Dataset!PreparationAssumption
    /\ Cache!CacheAssumption
    /\ Trials!TrialAssumption
    /\ Partition!PartitionAssumption
    /\ Hle!TaskAssumption
    /\ Decision!DecisionAssumption
    /\ Session!SessionAssumption
    /\ Final!FinalAssumption
    /\ Generic!GenericAssumption

(* The candidates of an instance, two of them with the same source.        *)
TwoAlike == [c \in {"baseline", "c1", "c2"} |-> IF c = "baseline" THEN "d0" ELSE "d1"]

(* Records and policies the decision is taken on.                          *)
R(s, w, c, v) == [status |-> s, reward |-> w, cost |-> c, violations |-> v]
SomeRecords ==
    {R("resolved", 2, 1, 0), R("resolved", 2, -1, 1), R("unresolved", 0, 2, 0),
     R("timeout", 1, -1, 0), R("error", 0, 0, 0)}
P(records, completed, net, reward, regressions, improved, worsened, bound, cost) ==
    [records |-> records, completed |-> completed, net |-> net, reward |-> reward,
     regressions |-> regressions, improved |-> improved, worsened |-> worsened,
     bound |-> bound, cost |-> cost, violations |-> 0]
SomePolicies ==
    {P(2, 2, 1, 0, -1, 0, -1, FALSE, -1), P(1, 1, 0, 1, 0, 1, 1, FALSE, 0),
     P(2, 1, 1, -2, 1, 0, -1, TRUE, 50)}

On(s) == system = s

prepVars == <<prepAt, told, lease, out, stage, backup, stalls, judged, seized>>
cacheVars == <<cacheAt, built, entry, runtime>>
trialVars == <<strict, identity, trialStep, tries, dir, budget, output, trialStarts, sampled>>
partitionVars == <<taskStep, solverTries, verifierTries, requests, record, kept, temporary,
                   ending, result, taskStarts>>
taskVars == <<store, hleStep, sessions, lastCall, answer, aborted, solver, verifier,
              hleSolverTries, hleVerifierTries, hleRecord>>
decisionVars == <<policy, base, cand, decision, rounds>>
sessionVars == <<workspace, inputs, launches, edits, former, restored,
                 root, named, trials, results, summary, holder, job>>
finalVars == <<public, branch, claims, report, touched, adopted, proc, started, suite, claim, done>>
runVars == <<at, state, steps, saved, files, log, launched>>
evaluation == <<system, prepVars, cacheVars, trialVars, partitionVars, taskVars,
                decisionVars, sessionVars, finalVars, runVars>>

Init ==
    /\ system \in {"dataset", "cache", "trials", "partition", "hle", "decision",
                   "session", "final", "generic"}
    /\ Dataset!Init /\ Cache!Init /\ Trials!Init /\ Partition!Init /\ Hle!Init
    /\ Decision!Init /\ Session!Init /\ Final!Init /\ Generic!Init
    /\ ~stalls /\ (~On("dataset") => out = Dataset!Absent)
    /\ ~On("trials") => ~strict /\ identity = CHOOSE i \in Identities : TRUE
    /\ ~On("decision") => policy = CHOOSE p \in Policies : TRUE

Next ==
    \/ On("dataset") /\ Dataset!Next
         /\ UNCHANGED <<system, cacheVars, trialVars, partitionVars, taskVars,
                        decisionVars, sessionVars, finalVars, runVars>>
    \/ On("cache") /\ Cache!Next
         /\ UNCHANGED <<system, prepVars, trialVars, partitionVars, taskVars,
                        decisionVars, sessionVars, finalVars, runVars>>
    \/ On("trials") /\ Trials!Next
         /\ UNCHANGED <<system, prepVars, cacheVars, partitionVars, taskVars,
                        decisionVars, sessionVars, finalVars, runVars>>
    \/ On("partition") /\ Partition!Next
         /\ UNCHANGED <<system, prepVars, cacheVars, trialVars, taskVars,
                        decisionVars, sessionVars, finalVars, runVars>>
    \/ On("hle") /\ Hle!Next
         /\ UNCHANGED <<system, prepVars, cacheVars, trialVars, partitionVars,
                        decisionVars, sessionVars, finalVars, runVars>>
    \/ On("decision") /\ Decision!Next
         /\ UNCHANGED <<system, prepVars, cacheVars, trialVars, partitionVars,
                        taskVars, sessionVars, finalVars, runVars>>
    \/ On("session") /\ Session!Next
         /\ UNCHANGED <<system, prepVars, cacheVars, trialVars, partitionVars,
                        taskVars, decisionVars, finalVars, runVars>>
    \/ On("final") /\ Final!Next
         /\ UNCHANGED <<system, prepVars, cacheVars, trialVars, partitionVars,
                        taskVars, decisionVars, sessionVars, runVars>>
    \/ On("generic") /\ Generic!Next
         /\ UNCHANGED <<system, prepVars, cacheVars, trialVars, partitionVars,
                        taskVars, decisionVars, sessionVars, finalVars>>

Spec == Init /\ [][Next]_evaluation

-----------------------------------------------------------------------------
(* What several processes prepare - the official dataset, the runtime of a *)
(* candidate - is used only when it is whole and what its name says.       *)
PreparedIsWhole ==
    /\ Dataset!ReadyIsFrozen
    /\ Cache!RuntimeIsCandidate

(* A task of a strict final is solved at most once plus its retries,       *)
(* however often the evaluation is killed and started again.               *)
SamplesBounded == Trials!SamplesBounded

(* A partition is summarized only when every task has a kept score.        *)
SummaryIsComplete == Partition!SummaryIsComplete

(* What is held for or against a candidate is its own doing: the verdict   *)
(* on a task, and the promotion decided on the verdicts.                   *)
VerdictsAreEarned ==
    /\ Hle!VerdictIsEarned
    /\ Decision!PromotionIsEarned

(* An evaluation session that calls itself complete has measured every     *)
(* candidate as it was when the session was named, whatever was edited; of *)
(* a source that got a former version back this is not promised.           *)
CompleteIsMeasured == Session!CompleteIsMeasured

(* Finalize processes unseal the final of a population once, and one that  *)
(* is recorded as measured has its report, from the attempt recorded.      *)
FinalIsSound == Final!UnsealedOnce /\ Final!CompletedIsReported

(* What was committed stays: results of trials under their identity,       *)
(* scores of tasks, a completed final, checkpoints of an algorithm.        *)
CommittedStays ==
    [][/\ Trials!MeasuredOnce /\ Trials!OfOneIdentity
       /\ Partition!ScoresStay
       /\ Final!CompletedStays
       /\ Generic!CheckpointsStay]_evaluation
=============================================================================
