-------------------------- MODULE ReasoningCampaign --------------------------
(***************************************************************************)
(* The Reasoning campaign, which is also the Reasoning branch driver: one  *)
(* git worktree, a round of stages saved in state.json, files written once *)
(* per candidate, validation tasks checkpointed one by one, a sealed test  *)
(* run by a detached worker, an evolution log.  The process may die in     *)
(* between; an infrastructure error saves a pause and ends it.             *)
(***************************************************************************)
EXTENDS Integers, Sequences, SequencesExt, FiniteSets

CONSTANTS Budget,           \* rounds the population pays for
          LayerSelections,  \* subset of BOOLEAN: TRUE is "updater-soft"
          Misses,           \* consecutive misses before a level is left
          TopLevel,         \* levels 1 .. TopLevel
          Tasks,            \* the validation partition
          TestInterval,     \* evolution.testEvaluationInterval, 0 disables
          MaxFaults         \* bound on crashes and infrastructure errors

ASSUME ReasoningCampaignAssumption ==
    /\ Budget \in Nat /\ LayerSelections \subseteq BOOLEAN
    /\ Misses \in Nat \ {0} /\ TopLevel \in Nat \ {0}
    /\ IsFiniteSet(Tasks) /\ Tasks # {} /\ TestInterval \in Nat
    /\ MaxFaults \in Nat

VARIABLES
    soft,      \* layerSelection of the frozen configuration
    charged,   \* rounds the population has settled
    saved,     \* public/state.json
    git,       \* HEAD of the incumbent branch and the worktree
    mutation,  \* candidates/<id>/mutation.json
    build,     \* candidates/<id>/build.json
    records,   \* private checkpoints of the validation tasks
    summary,   \* candidates/<id>/validation-summary.json
    receipt,   \* sealed/test/<id>, 0 when the directory is absent
    log,       \* public/evolution-log.jsonl
    workers,   \* sealed-test children alive, orphans included
    pc, faults

artifacts == <<mutation, build, records, summary>>
sealed == <<receipt, workers>>
vars == <<soft, charged, saved, git, artifacts, sealed, log, pc, faults>>

Candidates == 0 .. Budget
NoGit == [head |-> -1, clean |-> FALSE]
NoScore == -1
Results == {"resolved", "unresolved"}

Init ==
    /\ soft \in LayerSelections /\ charged = 0
    /\ saved = [status |-> "CONFIG_FROZEN", resume |-> "none", level |-> 0,
                misses |-> 0, incumbent |-> 0, stage |-> "none",
                outcome |-> "none", score |-> NoScore, receipt |-> 0,
                candidates |-> <<>>]
    /\ git = NoGit
    /\ mutation = [c \in Candidates |-> "none"]
    /\ build = [c \in Candidates |-> "none"]
    /\ records = [c \in Candidates |-> [t \in Tasks |-> "none"]]
    /\ summary = [c \in Candidates |-> NoScore]
    /\ receipt = [c \in Candidates |-> 0]
    /\ log = <<>> /\ workers = {} /\ pc = "idle" /\ faults = 0

-----------------------------------------------------------------------------
(* Where the process stands                                                *)

G == Len(saved.candidates)   \* the candidate at work, 0 is the baseline
Completed == IF G = 0 THEN 0 ELSE G - 1
Idle(status) == pc = "idle" /\ saved.status = status
AtStage(stage) == Idle("EVOLVING") /\ saved.stage = stage
InBaseline == Idle("BASELINE_FROZEN")
AtIncumbent == git.head = saved.incumbent /\ git.clean
Reset == git' = [head |-> saved.incumbent, clean |-> TRUE]

TestDue == TestInterval # 0 /\ G % TestInterval = 0

Building == (InBaseline \/ AtStage("mutated")) /\ build[G] = "none"
Validating ==
    /\ (InBaseline /\ build[G] = "ok") \/ AtStage("built")
    /\ summary[G] = NoScore
Testable ==
    \/ InBaseline /\ summary[G] # NoScore
    \/ AtStage("validated") /\ saved.outcome = "completed"

Remaining(c) == {t \in Tasks : records[c][t] = "none"}
Score(c) == Cardinality({t \in Tasks : records[c][t] = "resolved"})

-----------------------------------------------------------------------------
(* Process ends and starts                                                 *)

Crash ==
    /\ pc # "down" /\ faults < MaxFaults
    /\ pc' = "down" /\ faults' = faults + 1
    /\ UNCHANGED <<soft, charged, saved, git, artifacts, sealed, log>>

Paused(s) == [s EXCEPT !.status = "PAUSED", !.resume = s.status]
ResumedAsPaused(s) == s
Resumed(s) == [s EXCEPT !.status = s.resume, !.resume = "none"]

Pause ==
    /\ saved' = Paused(saved) /\ pc' = "down"
    /\ UNCHANGED <<soft, charged, artifacts, receipt, log>>

InfrastructureError ==
    /\ faults < MaxFaults /\ faults' = faults + 1
    /\ \/ (Building \/ Validating) /\ Pause /\ UNCHANGED <<git, workers>>
       \/ pc = "updating" /\ Reset /\ Pause /\ UNCHANGED workers
       \/ /\ pc = "testing" /\ Pause
          /\ workers' = {w \in workers : w.by # faults}
          /\ UNCHANGED git

Boot ==
    /\ pc = "down" /\ pc' = "idle"
    /\ saved' = IF saved.status = "PAUSED" THEN Resumed(saved) ELSE saved
    /\ UNCHANGED <<soft, charged, git, artifacts, sealed, log, faults>>

-----------------------------------------------------------------------------
(* The repository and the baseline                                         *)

(* The bare clone is renamed into place before the worktree is filled.     *)
Clone ==
    /\ Idle("CONFIG_FROZEN") /\ git = NoGit
    /\ git' = [head |-> 0, clean |-> FALSE] /\ pc' = "checkout"
    /\ UNCHANGED <<soft, charged, saved, artifacts, sealed, log, faults>>

Checkout ==
    /\ pc = "checkout" /\ Reset /\ pc' = "idle"
    /\ UNCHANGED <<soft, charged, saved, artifacts, sealed, log, faults>>

FreezeBaseline ==
    /\ Idle("CONFIG_FROZEN") /\ git # NoGit
    /\ saved' = [saved EXCEPT !.status = "BASELINE_FROZEN"]
    /\ UNCHANGED <<soft, charged, git, artifacts, sealed, log, pc, faults>>

Entry(decision, level) ==
    [score |-> saved.score, decision |-> decision, level |-> level,
     outcome |-> saved.outcome, receipt |-> saved.receipt]

RecordBaseline ==
    /\ Testable /\ InBaseline /\ (TestInterval = 0 \/ receipt[0] # 0)
    /\ saved' = [saved EXCEPT
         !.status = "EVOLVING", !.level = IF soft THEN 0 ELSE 1,
         !.candidates = <<[Entry("baseline", 0) EXCEPT
                             !.score = summary[0], !.receipt = receipt[0],
                             !.outcome = "completed"]>>]
    /\ UNCHANGED <<soft, charged, git, artifacts, sealed, log, pc, faults>>

-----------------------------------------------------------------------------
(* A round: mutation, build, validation                                    *)

Save(s) ==
    /\ saved' = s
    /\ UNCHANGED <<soft, charged, git, artifacts, sealed, log, pc, faults>>

StartRound ==
    /\ AtStage("none") /\ charged = Completed /\ charged < Budget
    /\ Save([saved EXCEPT !.stage = "started", !.outcome = "none",
                          !.score = NoScore, !.receipt = 0])

PrepareMutation ==
    /\ AtStage("started") /\ mutation[G] = "none" /\ AtIncumbent
    /\ pc' = "updating"
    /\ UNCHANGED <<soft, charged, saved, git, artifacts, sealed, log, faults>>

(* What the updater may do to the repository while it runs.                *)
UpdaterWorks ==
    /\ pc = "updating"
    /\ \/ git' = [git EXCEPT !.clean = FALSE]
       \/ git.head = saved.incumbent /\ git' = [head |-> G, clean |-> TRUE]
    /\ UNCHANGED <<soft, charged, saved, artifacts, sealed, log, pc, faults>>

WriteMutation(result) ==
    /\ mutation' = [mutation EXCEPT ![G] = result] /\ pc' = "idle"
    /\ UNCHANGED <<soft, charged, saved, build, records, summary, sealed, log,
                   faults>>

InspectMutation ==
    /\ pc = "updating" /\ git.head = G /\ git.clean
    /\ WriteMutation("completed") /\ UNCHANGED git

UpdaterStops ==
    /\ pc = "updating" /\ soft /\ AtIncumbent
    /\ WriteMutation("stopped") /\ UNCHANGED git

RejectedInPlace == UNCHANGED git
Rejected == Reset
UpdaterFails == pc = "updating" /\ Rejected /\ WriteMutation("failed")

MutationVerified ==
    git.head = IF mutation[G] = "completed" THEN G ELSE saved.incumbent

FinishMutation ==
    /\ AtStage("started") /\ mutation[G] # "none" /\ MutationVerified
    /\ Save(IF mutation[G] = "stopped"
            THEN [saved EXCEPT !.status = "CLOSING", !.stage = "none"]
            ELSE [saved EXCEPT !.stage = "mutated", !.outcome = mutation[G]])

(* A workspace that is not where the next step expects it ends the process.*)
RefuseWorkspace ==
    /\ AtStage("started")
    /\ IF mutation[G] = "none" THEN ~AtIncumbent ELSE ~MutationVerified
    /\ pc' = "down"
    /\ UNCHANGED <<soft, charged, saved, git, artifacts, sealed, log, faults>>

BuildCandidate ==
    /\ Building
    /\ \E result \in {"ok", "failed"} :
          /\ InBaseline => (result = "ok") = git.clean
          /\ saved.outcome = "failed" => result = "failed"
          /\ build' = [build EXCEPT ![G] = result]
    /\ UNCHANGED <<soft, charged, saved, git, mutation, records, summary,
                   sealed, log, pc, faults>>

FailBaselineBuild ==
    /\ InBaseline /\ build[0] = "failed"
    /\ Pause /\ UNCHANGED <<git, workers, faults>>

FinishBuild ==
    /\ AtStage("mutated") /\ build[G] # "none"
    /\ Save([saved EXCEPT !.stage = "built",
                          !.outcome = IF build[G] = "failed" THEN "failed" ELSE @])

RunTask ==
    /\ Validating /\ saved.outcome # "failed"
    /\ \E t \in Remaining(G), r \in Results :
          records' = [records EXCEPT ![G][t] = r]
    /\ UNCHANGED <<soft, charged, saved, git, mutation, build, summary, sealed,
                   log, pc, faults>>

Validated == saved.outcome = "failed" \/ Remaining(G) = {}
PublishSummary ==
    /\ Validating /\ Validated
    /\ summary' = [summary EXCEPT ![G] = Score(G)]
    /\ UNCHANGED <<soft, charged, saved, git, mutation, build, records, sealed,
                   log, pc, faults>>

FinishValidation ==
    /\ AtStage("built") /\ summary[G] # NoScore
    /\ Save([saved EXCEPT !.stage = "validated", !.score = summary[G]])

-----------------------------------------------------------------------------
(* The sealed test: a worker fills a staging directory of its own and      *)
(* renames it to sealed/test/<id>, unless that exists.                     *)

StartWorker ==
    /\ Testable /\ TestDue /\ receipt[G] = 0
    /\ workers' = workers \cup {[candidate |-> G, by |-> faults]}
    /\ pc' = "testing"
    /\ UNCHANGED <<soft, charged, saved, git, artifacts, receipt, log, faults>>

PublishedAnyway(w) == [receipt EXCEPT ![w.candidate] = w.by + 1]
Published(w) == [receipt EXCEPT ![w.candidate] = IF @ = 0 THEN w.by + 1 ELSE @]
WorkerEnds ==
    \E w \in workers :
       /\ workers' = workers \ {w}
       /\ receipt' = Published(w)
       /\ UNCHANGED <<soft, charged, saved, git, artifacts, log, pc, faults>>

OwnWorkerGone == pc = "testing" /\ ~\E w \in workers : w.by = faults

ReadReceipt ==
    /\ OwnWorkerGone /\ receipt[G] = faults + 1 /\ pc' = "idle"
    /\ UNCHANGED <<soft, charged, saved, git, artifacts, sealed, log, faults>>

WorkerFailed ==
    /\ OwnWorkerGone /\ receipt[G] # faults + 1
    /\ Pause /\ UNCHANGED <<git, workers, faults>>

FinishTest ==
    /\ AtStage("validated")
    /\ IF saved.outcome = "completed" /\ TestDue
       THEN /\ receipt[G] # 0
            /\ Save([saved EXCEPT !.stage = "sealed", !.receipt = receipt[G]])
       ELSE Save([saved EXCEPT !.stage = "sealed"])

-----------------------------------------------------------------------------
(* The decision: git, then the evolution log, then state.json              *)

IncumbentScore(s) == s.candidates[s.incumbent + 1].score
PromotedOnTie(s) == s.outcome = "completed" /\ s.score >= IncumbentScore(s)
Promoted(s) == s.outcome = "completed" /\ s.score > IncumbentScore(s)

Decide ==
    /\ AtStage("sealed")
    /\ IF Promoted(saved) THEN git.head = G /\ UNCHANGED git ELSE Rejected
    /\ pc' = "decided"
    /\ UNCHANGED <<soft, charged, saved, artifacts, sealed, log, faults>>

Logged(c) == \E i \in DOMAIN log : log[i].candidate = c

(* The entry carries the time of the decision, so an entry left by an      *)
(* earlier process is never equal to the one written now.                  *)
AppendLog ==
    /\ pc = "decided" /\ ~Logged(G)
    /\ log' = Append(log, [candidate |-> G, promoted |-> Promoted(saved)])
    /\ pc' = "logged"
    /\ UNCHANGED <<soft, charged, saved, git, artifacts, sealed, faults>>

RefuseLog ==
    /\ pc = "decided" /\ Logged(G) /\ pc' = "down"
    /\ UNCHANGED <<soft, charged, saved, git, artifacts, sealed, log, faults>>

NextMisses(s) == IF Promoted(s) THEN 0 ELSE s.misses + 1

IncumbentOffByOne(s) == IF Promoted(s) THEN G - 1 ELSE s.incumbent
IncumbentAfter(s) == IF Promoted(s) THEN G ELSE s.incumbent

Decided(s) ==
    LET missed == NextMisses(s)
        leaves == ~soft /\ ~Promoted(s) /\ missed = Misses
        closes == leaves /\ s.level = TopLevel
    IN [s EXCEPT
          !.candidates = Append(@, Entry(IF Promoted(s) THEN "promoted"
                                         ELSE "rejected", s.level)),
          !.incumbent = IncumbentAfter(s),
          !.status = IF closes THEN "CLOSING" ELSE @,
          !.level = IF closes THEN 0 ELSE IF leaves THEN @ + 1 ELSE @,
          !.misses = IF soft THEN 0 ELSE IF leaves /\ ~closes THEN 0 ELSE missed,
          !.stage = "none"]

CommitRound ==
    /\ pc = "logged"
    /\ saved' = Decided(saved) /\ pc' = "idle"
    /\ UNCHANGED <<soft, charged, git, artifacts, sealed, log, faults>>

Close == Idle("CLOSING") /\ Save([saved EXCEPT !.status = "CLOSED"])

(* report() refuses a ledger that does not match the files.                *)
ReportAccepted ==
    \A i \in DOMAIN saved.candidates :
       /\ summary[i - 1] # NoScore
       /\ saved.candidates[i].receipt \in {0, receipt[i - 1]}
Report ==
    /\ Idle("CLOSED") /\ ReportAccepted
    /\ Save([saved EXCEPT !.status = "REPORTED"])

Settle ==
    /\ pc = "idle" /\ Completed = charged + 1 /\ charged' = Completed
    /\ UNCHANGED <<soft, saved, git, artifacts, sealed, log, pc, faults>>

-----------------------------------------------------------------------------
Round ==
    \/ StartRound \/ PrepareMutation \/ InspectMutation \/ UpdaterFails
    \/ FinishMutation \/ RefuseWorkspace \/ BuildCandidate \/ FinishBuild
    \/ RunTask \/ PublishSummary \/ FinishValidation
    \/ StartWorker \/ WorkerEnds \/ ReadReceipt \/ WorkerFailed \/ FinishTest
    \/ Decide \/ AppendLog \/ RefuseLog \/ CommitRound

Work ==
    \/ Boot \/ Clone \/ Checkout \/ FreezeBaseline \/ FailBaselineBuild
    \/ RecordBaseline \/ Round \/ Close \/ Report \/ Settle

Next == Work \/ UpdaterWorks \/ UpdaterStops \/ Crash \/ InfrastructureError

Spec == Init /\ [][Next]_vars

(* The controller keeps working, its children end, the operator resumes a  *)
(* paused campaign; no process has to die and no updater to stop.          *)
FairSpec == Spec /\ WF_vars(Work)

-----------------------------------------------------------------------------
(* Properties                                                              *)

(* What each file and the saved state may hold.                            *)
TypeOK ==
    /\ soft \in BOOLEAN /\ charged \in 0 .. Budget /\ faults \in 0 .. MaxFaults
    /\ saved.status \in {"CONFIG_FROZEN", "BASELINE_FROZEN", "EVOLVING",
                         "PAUSED", "CLOSING", "CLOSED", "REPORTED"}
    /\ saved.level \in 0 .. TopLevel /\ saved.misses \in 0 .. Misses
    /\ saved.incumbent \in Candidates /\ G <= Budget + 1
    /\ git.head \in Candidates \cup {-1} /\ git.clean \in BOOLEAN
    /\ \A c \in Candidates :
          /\ mutation[c] \in {"none", "completed", "failed", "stopped"}
          /\ build[c] \in {"none", "ok", "failed"}
          /\ \A t \in Tasks : records[c][t] \in Results \cup {"none"}
          /\ summary[c] \in -1 .. Cardinality(Tasks)
          /\ receipt[c] \in 0 .. MaxFaults + 1

(* The incumbent is the first candidate that reached the best score any    *)
(* completed candidate reached: a tie keeps the older one.                 *)
IncumbentIsFirstBest ==
    \A i \in 1 .. G :
       saved.candidates[i].outcome = "completed" =>
          \/ saved.candidates[i].score < IncumbentScore(saved)
          \/ saved.candidates[i].score = IncumbentScore(saved)
                /\ saved.incumbent <= i - 1

(* Between rounds the worktree is the incumbent's; while a round builds,   *)
(* evaluates and tests, it is the commit that was inspected.               *)
WorkspaceFollowsRound ==
    saved.status = "EVOLVING" =>
       /\ saved.stage = "none" => AtIncumbent
       /\ saved.stage \in {"mutated", "built", "validated"} =>
             git.clean /\ MutationVerified

(* A score is the number of tasks the checkpoints hold as resolved, every  *)
(* task having one, whatever was interrupted and run again.                *)
ScoresAreComplete ==
    \A i \in 1 .. G :
       LET c == saved.candidates[i]
       IN c.score = Score(i - 1)
             /\ (c.outcome = "completed" => Remaining(i - 1) = {})

(* A level is left after exactly Misses rejections in a row at that level. *)
RejectedRun(i) ==
    /\ i > Misses
    /\ \A j \in (i - Misses + 1) .. i :
          /\ saved.candidates[j].decision = "rejected"
          /\ saved.candidates[j].level = saved.candidates[i].level
LevelsFollowMisses ==
    ~soft =>
       /\ \A i \in 2 .. (G - 1) :
             RejectedRun(i) <=>
                saved.candidates[i].level # saved.candidates[i + 1].level
       /\ G > 1 => (RejectedRun(G) <=> saved.level # saved.candidates[G].level)

(* The search over rounds and levels is the one described, on full scores. *)
SearchIsExact == IncumbentIsFirstBest /\ ScoresAreComplete /\ LevelsFollowMisses

(* The evolution log tells the rounds of state.json in order and may be    *)
(* ahead by the round being decided, with the same decision.               *)
LogFollowsState ==
    /\ Len(log) \in {Completed, Completed + 1}
    /\ \A i \in DOMAIN log :
          /\ log[i].candidate = i
          /\ log[i].promoted = IF i > Completed THEN Promoted(saved)
                               ELSE saved.candidates[i + 1].decision = "promoted"

(* What the round has written beside state.json agrees with its stage.     *)
RecordsFollowRound == WorkspaceFollowsRound /\ LogFollowsState

(* A sealed result once published stays, and it is the one in the ledger:  *)
(* a closed campaign can always be reported.                               *)
SealedOnce == ReportAccepted

(* The campaign is a branch driver in the sense of the population.         *)
Driver == INSTANCE BranchDriver
    WITH completed <- Completed, champion <- saved.incumbent,
         stopped <- saved.status \in {"CLOSED", "REPORTED"}
ImplementsDriver == Driver!Spec

(* The only states a restart cannot leave: a baseline build that failed, a *)
(* workspace an interrupted updater moved, a round logged but not saved.   *)
Blocked ==
    \/ build[0] = "failed"
    \/ /\ saved.stage = "started" /\ mutation[G] = "none"
       /\ pc # "updating" /\ ~AtIncumbent
    \/ saved.stage = "sealed" /\ pc # "logged" /\ Logged(G)
ReachesEnd ==
    <>(charged = Budget \/ saved.status = "REPORTED" \/ Blocked)

(* A round whose decision was logged is committed.                         *)
DecisionsAreCommitted == (saved.stage = "sealed") ~> (saved.stage = "none")

(* A round that the updater worked on gets a mutation artifact.            *)
MutationsAreRecorded ==
    (saved.stage = "started") ~> (saved.stage # "started")
=============================================================================
