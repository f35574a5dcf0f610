----------------------------- MODULE Population -----------------------------
(***************************************************************************)
(* PopulationOrchestrator: one controller process drives N branches in     *)
(* synchronized waves, keeps the budget ledger in public/state.json, writes*)
(* immutable checkpoint files and survives pauses and crashes.             *)
(*                                                                         *)
(* Three kinds of state: what public/state.json holds (rewritten atomically*)
(* by PopulationStore.saveState, so memory and file agree at every action  *)
(* boundary), what each branch's own store holds (changed only by that     *)
(* branch's driver), and what only the running process knows (lost by a    *)
(* crash).  The campaign lock admits one controller process at a time.     *)
(***************************************************************************)
EXTENDS EvolutionModes

CONSTANTS Scores,        \* scores an evaluation can yield, integers
          NoScore,       \* no evaluation
          Driver,        \* the branch driver, and the command line that goes
                         \* with it: "reasoning" (campaign) or "cowork"
                         \* (experiment)
          SoftLayers,    \* layerSelection: the updater decides when a Reasoning
                         \* branch stops, else its last level does
          Milestones,    \* checkpointing.budgetMilestones
          GenMilestones, \* checkpointing.branchGenerationMilestones
          RoundLimits,   \* values of --round-limit, 0 for none
          MaxFaults      \* bound on crashes, rejections and pauses

ASSUME PopulationAssumption ==
    /\ Scores \subseteq Int /\ Scores # {} /\ NoScore \notin Scores
    /\ Driver \in {"reasoning", "cowork"} /\ SoftLayers \in BOOLEAN
    /\ Milestones \subseteq Nat /\ GenMilestones \subseteq Nat \ {0}
    /\ RoundLimits \subseteq Nat /\ MaxFaults \in Nat

VARIABLES
    \* public/state.json
    status, epoch, consumed, bonusRemaining, bonusGranted, best,
    branchStatus, bonus, used, incumbent,     \* one entry per branch
    participants, beforeSteps, beforeScore,   \* inFlightWave; {} when absent
    recorded,                                 \* checkpoints, branchCheckpoints
    pausePhase,                               \* phase of the last pause event
    stableAt,                                 \* time of the last stable event
    \* other files of the campaign: checkpoints, report, execution.identity.json
    files, reported, identity,
    \* the branches' own stores
    childStatus, steps, champion, lastScore, lastBaseline,
    \* the controller process
    pc, settled, written, next, rounds, limit,
    \* faults so far; also the clock, since only times on either side of a
    \* crash need to be told apart
    faults

ledgerVars == <<consumed, bonusRemaining, bonusGranted, bonus, used>>
waveVars == <<participants, beforeSteps, beforeScore>>
stateVars == <<status, epoch, best, branchStatus, incumbent, ledgerVars,
               waveVars, recorded, pausePhase, stableAt>>
fileVars == <<files, reported, identity>>
childVars == <<childStatus, steps, champion, lastScore, lastBaseline>>
processVars == <<pc, settled, written, next, rounds, limit>>
vars == <<stateVars, fileVars, childVars, processVars, faults>>

(* The Cowork driver measures the baseline again beside each candidate and *)
(* has a restore() that finishes an interrupted baseline; the Reasoning    *)
(* driver has neither, but scores every candidate, and its branches close  *)
(* in two saves.  Only the campaign command line can "run" a campaign that *)
(* exists already; the experiment one starts, freezes and resumes.         *)
Maybe(S) == S \cup {NoScore}
Paired == Driver = "cowork"
StepScores == IF Driver = "cowork" THEN Maybe(Scores) ELSE Scores
RestoresBaselineNever == FALSE
RestoresBaseline == Driver = "cowork"
HasRunCommand == Driver = "reasoning"

Statuses == {"none", "CONFIG_FROZEN", "BASELINE_RUNNING", "EVOLVING",
             "BASELINE_FROZEN", "PAUSED_INFRASTRUCTURE", "CLOSED"}

NoBranch == 0

(* A checkpoint is named by its kind, its branch and its milestone.        *)
BudgetKeys == {"budget"} \X {NoBranch} \X Milestones
GenerationKeys == {"generation"} \X Branches \X GenMilestones
Keys == BudgetKeys \cup GenerationKeys
NoFile == <<>>

NoneSettled == [b \in Branches |-> "none"]

Init ==
    /\ status = "none" /\ epoch = 0 /\ best = NoBranch
    /\ consumed = 0 /\ bonusRemaining = BonusPool /\ bonusGranted = 0
    /\ branchStatus = [b \in Branches |-> "pending"]
    /\ bonus = [b \in Branches |-> 0]
    /\ used = [b \in Branches |-> 0]
    /\ incumbent = [b \in Branches |-> NoScore]
    /\ participants = {}
    /\ beforeSteps = [b \in Branches |-> 0]
    /\ beforeScore = [b \in Branches |-> NoScore]
    /\ recorded = {} /\ pausePhase = "none" /\ stableAt = 0
    /\ files = [k \in Keys |-> NoFile] /\ reported = FALSE
    /\ identity = FALSE
    /\ childStatus = [b \in Branches |-> "pending"]
    /\ steps = [b \in Branches |-> 0]
    /\ champion = [b \in Branches |-> NoScore]
    /\ lastScore = [b \in Branches |-> NoScore]
    /\ lastBaseline = [b \in Branches |-> NoScore]
    /\ pc = "down" /\ settled = NoneSettled /\ written = {}
    /\ next = "loop" /\ rounds = 0 /\ limit = 0
    /\ faults = 0

-----------------------------------------------------------------------------
(* The ledger                                                              *)

Remaining(b, granted, spent) == BaseBudget[b] + granted[b] - spent[b]

StatusOf(child, remaining) ==
    IF child = "stopped" THEN "stopped"
    ELSE IF remaining > 0 THEN "active" ELSE "exhausted"

NotStopped == {b \in Branches : branchStatus[b] # "stopped"}

Funded(granted) == {b \in NotStopped : Remaining(b, granted, used) > 0}

HasRemainingParticipantFundedOnly == Funded(bonus) # {}

HasRemainingParticipant ==
    \/ Funded(bonus) # {}
    \/ UsesCompetition /\ bonusRemaining > 0 /\ NotStopped # {}

GrantKeepingPool(w, amount) ==
    /\ bonus' = [bonus EXCEPT ![w] = @ + amount]
    /\ bonusGranted' = bonusGranted + amount
    /\ UNCHANGED bonusRemaining

Grant(w, amount) ==
    /\ bonus' = [bonus EXCEPT ![w] = @ + amount]
    /\ bonusRemaining' = bonusRemaining - amount
    /\ bonusGranted' = bonusGranted + amount

NoGrant == UNCHANGED <<bonus, bonusRemaining, bonusGranted>>

-----------------------------------------------------------------------------
(* A process ends: by itself, or by a pause that is saved first.           *)

Exit == /\ pc' = "down" /\ settled' = NoneSettled /\ written' = {}
        /\ next' = "loop" /\ rounds' = 0 /\ limit' = 0

SavePause(phase) ==
    /\ status' = "PAUSED_INFRASTRUCTURE"
    /\ pausePhase' = phase

Pause(phase) == SavePause(phase) /\ Exit

(* initialize() returns to the command line, whatever it came to.          *)
ReturnToCli == /\ pc' = "cli" /\ settled' = NoneSettled /\ written' = {}
               /\ UNCHANGED <<next, rounds, limit>>

Fault == faults < MaxFaults /\ faults' = faults + 1

Crash ==
    /\ pc # "down" /\ Fault /\ Exit
    /\ UNCHANGED <<stateVars, fileVars, childVars>>

-----------------------------------------------------------------------------
(* initialize()                                                            *)

Start ==
    /\ pc = "down" /\ status = "none"
    /\ status' = "CONFIG_FROZEN" /\ pc' = "launch"
    /\ UNCHANGED <<epoch, best, branchStatus, incumbent, ledgerVars, waveVars,
                   recorded, pausePhase, stableAt, fileVars, childVars,
                   settled, written, next, rounds, limit, faults>>

StartBaseline ==
    /\ pc = "launch"
    /\ status' = "BASELINE_RUNNING" /\ pc' = "baseline"
    /\ UNCHANGED <<epoch, best, branchStatus, incumbent, ledgerVars, waveVars,
                   recorded, pausePhase, stableAt, fileVars, childVars,
                   settled, written, next, rounds, limit, faults>>

(* The branch evaluates its baseline and persists the score.               *)
EvaluateBaseline(b) ==
    /\ childStatus' = [childStatus EXCEPT ![b] = "active"]
    /\ \E s \in Scores : champion' = [champion EXCEPT ![b] = s]
    /\ UNCHANGED <<steps, lastScore, lastBaseline>>

InitializeBranch(b) ==
    /\ pc = "baseline" /\ settled[b] = "none"
    /\ \/ /\ EvaluateBaseline(b)
          /\ settled' = [settled EXCEPT ![b] = "ok"]
          /\ UNCHANGED faults
       \/ /\ Fault
          /\ settled' = [settled EXCEPT ![b] = "failed"]
          /\ UNCHANGED childVars
    /\ UNCHANGED <<stateVars, fileVars, pc, written, next, rounds, limit>>

(* Shared by initialize() and by the recovery of a baseline pause.         *)
AdoptBaseline(after) ==
    /\ status' = "EVOLVING"
    /\ incumbent' = champion
    /\ branchStatus' = [b \in Branches |->
                          StatusOf(childStatus[b], Remaining(b, bonus, used))]
    /\ \E w \in Branches : IsPopulationBest(w, Branches, champion) /\ best' = w
    /\ stableAt' = faults
    /\ pc' = "capture" /\ next' = after
    /\ UNCHANGED <<epoch, ledgerVars, waveVars, recorded, pausePhase>>

FinishBaseline ==
    /\ pc = "baseline" /\ \A b \in Branches : settled[b] # "none"
    /\ IF \E b \in Branches : settled[b] = "failed"
       THEN /\ SavePause("baseline") /\ ReturnToCli
            /\ UNCHANGED <<epoch, best, branchStatus, incumbent, ledgerVars,
                           waveVars, recorded, stableAt>>
       ELSE /\ AdoptBaseline("cli")
            /\ settled' = NoneSettled
            /\ UNCHANGED <<written, rounds, limit>>
    /\ UNCHANGED <<fileVars, childVars, faults>>

-----------------------------------------------------------------------------
(* #captureReachedCheckpoints: immutable files first, one saveState last.  *)

ReachedExceeded == {k \in Keys : IF k[1] = "budget" THEN k[3] < consumed
                                                   ELSE k[3] < steps[k[2]]}

Reached == {k \in Keys : IF k[1] = "budget" THEN k[3] <= consumed
                                            ELSE k[3] <= steps[k[2]]}

ToCapture == Reached \ recorded

(* capturedAt is the time of the last stable event, not of the writing.    *)
CaptureTime == stableAt

Content(k) ==
    IF k[1] = "budget"
    THEN [epoch |-> epoch, charged |-> consumed, at |-> CaptureTime,
          best |-> best, incumbents |-> incumbent]
    ELSE [epoch |-> epoch, charged |-> used[k[2]], at |-> CaptureTime,
          best |-> k[2], incumbents |-> [b \in {k[2]} |-> incumbent[b]]]

(* immutableJson: link(2), or the existing file must be the same.  The     *)
(* order of the milestones is left open.                                   *)
WriteCheckpoint(k) ==
    /\ pc = "capture" /\ k \in ToCapture \ written
    /\ files[k] \in {NoFile, Content(k)}
    /\ files' = [files EXCEPT ![k] = Content(k)]
    /\ written' = written \cup {k}
    /\ UNCHANGED <<stateVars, reported, identity, childVars, pc, settled, next,
                   rounds, limit, faults>>

FinishCaptureReplacing ==
    /\ pc = "capture" /\ ToCapture \subseteq written
    /\ recorded' = written
    /\ written' = {} /\ pc' = next
    /\ UNCHANGED <<status, epoch, best, branchStatus, incumbent, ledgerVars,
                   waveVars, pausePhase, stableAt, fileVars, childVars,
                   settled, next, rounds, limit, faults>>

FinishCapture ==
    /\ pc = "capture" /\ ToCapture \subseteq written
    /\ recorded' = recorded \cup written
    /\ written' = {} /\ pc' = next
    /\ UNCHANGED <<status, epoch, best, branchStatus, incumbent, ledgerVars,
                   waveVars, pausePhase, stableAt, fileVars, childVars,
                   settled, next, rounds, limit, faults>>

(* An inspection or a write fails, or finds a different file.              *)
FailCapture ==
    /\ pc = "capture"
    /\ ToCapture # {} \/ GenMilestones # {}
    /\ Fault
    /\ SavePause("checkpoint")
    /\ IF next = "cli" THEN ReturnToCli ELSE Exit
    /\ UNCHANGED <<epoch, best, branchStatus, incumbent, ledgerVars, waveVars,
                   recorded, stableAt, fileVars, childVars>>

-----------------------------------------------------------------------------
(* Back in the command line.  The experiment one now writes the execution  *)
(* identity, and no resume is accepted without it.                         *)

Identified == Driver = "cowork" => identity

WriteIdentity ==
    /\ pc = "cli" /\ ~Identified
    /\ identity' = TRUE
    /\ UNCHANGED <<stateVars, files, reported, childVars, processVars, faults>>

(* run() refuses a paused campaign.                                        *)
LeavePaused ==
    /\ pc = "cli" /\ Identified /\ status = "PAUSED_INFRASTRUCTURE"
    /\ Exit
    /\ UNCHANGED <<stateVars, fileVars, childVars, faults>>

(* freezeBaseline(): a baseline-only experiment ends here.                 *)
Freeze ==
    /\ pc = "cli" /\ Driver = "cowork" /\ Identified
    /\ status = "EVOLVING" /\ epoch = 0 /\ consumed = 0
    /\ participants = {}
    /\ status' = "BASELINE_FROZEN" /\ Exit
    /\ UNCHANGED <<epoch, best, branchStatus, incumbent, ledgerVars, waveVars,
                   recorded, pausePhase, stableAt, fileVars, childVars,
                   faults>>

-----------------------------------------------------------------------------
(* run(): only a state without a wave goes through the checkpoints first.  *)

EnterRun ==
    /\ limit' \in RoundLimits /\ rounds' = 0
    /\ \/ /\ status = "EVOLVING"
          /\ pc' = IF participants = {} THEN "capture" ELSE "loop"
       \/ /\ status = "CLOSED"
          /\ pc' = "report"
    /\ next' = "loop"
    /\ UNCHANGED <<stateVars, fileVars, childVars, settled, written,
                   faults>>

(* In the process that initialized the campaign, or in a new one.          *)
Run == pc = "cli" /\ Identified /\ EnterRun

RunCommandOpenOnly ==
    pc = "down" /\ HasRunCommand /\ status # "CLOSED" /\ EnterRun

RunCommand == pc = "down" /\ HasRunCommand /\ EnterRun

LimitReached == limit # 0 /\ rounds >= limit

Close ==
    /\ pc = "loop" /\ participants = {} /\ ~HasRemainingParticipant
    /\ status' = "CLOSED" /\ pc' = "report"
    /\ UNCHANGED <<epoch, best, branchStatus, incumbent, ledgerVars, waveVars,
                   recorded, pausePhase, stableAt, fileVars, childVars,
                   settled, written, next, rounds, limit, faults>>

StopAtLimit ==
    /\ pc = "loop" /\ LimitReached /\ participants = {}
    /\ HasRemainingParticipant
    /\ Exit
    /\ UNCHANGED <<stateVars, fileVars, childVars, faults>>

(* report.json is written once; generating it again changes nothing.       *)
WriteReport ==
    /\ pc = "report"
    /\ reported' = TRUE /\ Exit
    /\ UNCHANGED <<stateVars, files, identity, childVars, faults>>

-----------------------------------------------------------------------------
(* #startWave and #ensureBonusParticipant: the intent is saved before any  *)
(* branch works, with the steps and scores it starts from.                 *)

OpenWave(S) ==
    /\ participants' = S
    /\ beforeSteps' = steps
    /\ beforeScore' = champion
    /\ pc' = "wave" /\ settled' = NoneSettled
    /\ UNCHANGED <<status, epoch, best, incumbent, consumed, used, recorded,
                   pausePhase, stableAt, fileVars, childVars, written,
                   next, rounds, limit, faults>>

StartWave ==
    /\ pc = "loop" /\ ~LimitReached /\ participants = {}
    /\ Funded(bonus) # {}
    /\ NoGrant /\ UNCHANGED branchStatus
    /\ OpenWave(Funded(bonus))

(* Nobody is funded but the pool is not empty: the best branch gets a grant.*)
BootstrapWave ==
    /\ pc = "loop" /\ ~LimitReached /\ participants = {}
    /\ Funded(bonus) = {}
    /\ UsesCompetition /\ bonusRemaining > 0
    /\ \E w \in NotStopped :
         /\ IsPopulationBest(w, NotStopped, incumbent)
         /\ Grant(w, GrantSize(bonusRemaining))
         /\ branchStatus' = [branchStatus EXCEPT ![w] = "active"]
         /\ OpenWave({w})

(* A wave found in the saved state is run again, not restarted.            *)
ResumeWave ==
    /\ pc = "loop" /\ ~LimitReached /\ participants # {}
    /\ pc' = "wave"
    /\ UNCHANGED <<stateVars, fileVars, childVars, settled, written,
                   next, rounds, limit, faults>>

-----------------------------------------------------------------------------
(* #runWave: the participants run concurrently.                            *)

Settle(b, outcome) ==
    /\ settled' = [settled EXCEPT ![b] = outcome]
    /\ UNCHANGED <<stateVars, fileVars, pc, written, next, rounds,
                   limit>>

InTurn(b) == pc = "wave" /\ b \in participants /\ settled[b] = "none"

CompletedForgotten(b) == FALSE

Completed(b) == steps[b] = beforeSteps[b] + 1

(* #runChildRound found the step done, or the driver found itself stopped. *)
NothingToDo(b) ==
    /\ InTurn(b)
    /\ Completed(b) \/ childStatus[b] = "stopped"
    /\ Settle(b, "ok") /\ UNCHANGED <<childVars, faults>>

Advancing(b) ==
    InTurn(b) /\ ~Completed(b) /\ childStatus[b] \notin {"stopped", "closing"}

(* advanceOne: the driver persists one more candidate, with the evaluation *)
(* it reached.  It may still fail afterwards.  An exhausted Cowork search  *)
(* stops the branch with the same save; a Reasoning branch that misses at  *)
(* its last level is left CLOSING first.                                   *)
AdvanceStep(b) ==
    /\ Advancing(b)
    /\ steps' = [steps EXCEPT ![b] = @ + 1]
    /\ \E v \in StepScores :
         /\ lastScore' = [lastScore EXCEPT ![b] = v]
         /\ \/ UNCHANGED champion
            \/ v # NoScore /\ champion' = [champion EXCEPT ![b] = v]
         /\ \E s \in IF Paired /\ v # NoScore THEN Scores ELSE {NoScore} :
              lastBaseline' = [lastBaseline EXCEPT ![b] = s]
    /\ \/ /\ \E s \in IF Driver = "cowork" THEN {"active", "stopped"} ELSE {"active"} :
              childStatus' = [childStatus EXCEPT ![b] = s]
          /\ \/ Settle(b, "ok") /\ UNCHANGED faults
             \/ Settle(b, "failed") /\ Fault
       \/ /\ Driver = "reasoning" /\ ~SoftLayers /\ UNCHANGED champion
          /\ childStatus' = [childStatus EXCEPT ![b] = "closing"]
          /\ Settle(b, "closing") /\ UNCHANGED faults

(* With soft layers the updater stops the branch instead of a candidate.   *)
AdvanceStops(b) ==
    /\ Advancing(b) /\ Driver = "reasoning" /\ SoftLayers
    /\ childStatus' = [childStatus EXCEPT ![b] = "closing"]
    /\ Settle(b, "closing")
    /\ UNCHANGED <<steps, champion, lastScore, lastBaseline, faults>>

(* The same run() closes it with a second save.                            *)
CloseBranch(b) ==
    /\ pc = "wave" /\ settled[b] = "closing"
    /\ \/ /\ childStatus' = [childStatus EXCEPT ![b] = "stopped"]
          /\ Settle(b, "ok") /\ UNCHANGED faults
       \/ Settle(b, "failed") /\ Fault /\ UNCHANGED childStatus
    /\ UNCHANGED <<steps, champion, lastScore, lastBaseline>>

(* Found CLOSING by a new process, a branch accepts no further round.      *)
RefuseRound(b) ==
    /\ InTurn(b) /\ ~Completed(b) /\ childStatus[b] = "closing"
    /\ Settle(b, "failed") /\ UNCHANGED <<childVars, faults>>

(* The round rejects; a Reasoning branch may pause itself and report it.   *)
AdvanceFails(b) ==
    /\ Advancing(b)
    /\ \/ /\ Driver = "reasoning"
          /\ childStatus' = [childStatus EXCEPT ![b] = "paused"]
          /\ Settle(b, "ok")
       \/ Settle(b, "failed") /\ UNCHANGED childStatus
    /\ Fault
    /\ UNCHANGED <<steps, champion, lastScore, lastBaseline>>

WaveSettled == pc = "wave" /\ \A b \in participants : settled[b] \in {"ok", "failed"}

WaveFailed == \E b \in participants :
                 settled[b] = "failed" \/ childStatus[b] = "paused"

PauseWave ==
    /\ WaveSettled /\ WaveFailed
    /\ Pause("wave")
    /\ UNCHANGED <<epoch, best, branchStatus, incumbent, ledgerVars, waveVars,
                   recorded, stableAt, fileVars, childVars, faults>>

(* What a participant is charged: one round if the branch completed one.   *)
ChargedAll == participants

Charged == {b \in participants : Completed(b)}

Eligible == {b \in Charged : childStatus[b] # "stopped"
                             /\ lastScore[b] # NoScore}

(* Against the baseline measured beside it, else the score at wave start.  *)
Delta(b) == lastScore[b] - (IF lastBaseline[b] # NoScore THEN lastBaseline[b]
                                                          ELSE beforeScore[b])

(* publicIncumbent of the projection the round ended with.                 *)
IncumbentAtStart(b) ==
    IF b \in participants THEN beforeScore[b] ELSE incumbent[b]

IncumbentAfter(b) == IF b \in participants THEN champion[b] ELSE incumbent[b]

FinishWave ==
    /\ WaveSettled /\ ~WaveFailed
    /\ status' = "EVOLVING" /\ epoch' = epoch + 1
    /\ used' = [b \in Branches |-> used[b] + IF b \in Charged THEN 1 ELSE 0]
    /\ consumed' = consumed + Cardinality(Charged)
    /\ incumbent' = [b \in Branches |-> IncumbentAfter(b)]
    /\ IF UsesCompetition /\ bonusRemaining > 0 /\ Eligible # {}
       THEN \E w \in Eligible :
              /\ IsCompetitionWinner(w, Eligible, [b \in Eligible |-> Delta(b)],
                                     lastScore)
              /\ Grant(w, GrantSize(bonusRemaining))
       ELSE NoGrant
    /\ branchStatus' = [b \in Branches |->
                          IF b \in participants
                          THEN StatusOf(childStatus[b], Remaining(b, bonus', used'))
                          ELSE branchStatus[b]]
    /\ \E w \in Branches : IsPopulationBest(w, Branches, incumbent') /\ best' = w
    /\ participants' = {} /\ UNCHANGED <<beforeSteps, beforeScore>>
    /\ stableAt' = faults
    /\ pc' = "capture" /\ next' = "loop" /\ rounds' = rounds + 1
    /\ settled' = NoneSettled
    /\ UNCHANGED <<recorded, pausePhase, fileVars, childVars, written,
                   limit, faults>>

-----------------------------------------------------------------------------
(* resume(): a pause, or a stable state left by a crash.  Every branch     *)
(* restores itself before its projection is held against the ledger.       *)

Resume ==
    /\ pc = "down" /\ Identified
    /\ \/ status = "PAUSED_INFRASTRUCTURE"
       \/ status = "EVOLVING" /\ participants = {}
    /\ pc' = "restore" /\ limit' \in RoundLimits
    /\ UNCHANGED <<stateVars, fileVars, childVars, settled, written,
                   next, rounds, faults>>

(* A branch whose baseline never finished evaluates it now, if its driver  *)
(* can: the Reasoning driver is only inspected.                            *)
RestoreBranch(b) ==
    /\ pc = "restore" /\ RestoresBaseline /\ childStatus[b] = "pending"
    /\ EvaluateBaseline(b)
    /\ UNCHANGED <<stateVars, fileVars, processVars, faults>>

BaselineRecovery == status = "PAUSED_INFRASTRUCTURE" /\ pausePhase = "baseline"

RestoreChecks ==
    \A b \in Branches :
      /\ used[b] <= steps[b]
      /\ steps[b] <= IF b \in participants THEN beforeSteps[b] + 1 ELSE used[b]
      /\ IF BaselineRecovery
         THEN used[b] = 0 /\ steps[b] = 0 /\ participants = {}
         ELSE steps[b] = used[b] => champion[b] = incumbent[b]

HasPendingBaseline == \E b \in Branches : childStatus[b] = "pending"

(* The command fails; the saved state is what it was.                      *)
RefuseRestore ==
    /\ pc = "restore"
    /\ IF HasPendingBaseline THEN ~RestoresBaseline ELSE ~RestoreChecks
    /\ Exit
    /\ UNCHANGED <<stateVars, fileVars, childVars, faults>>

FinishRestore ==
    /\ pc = "restore" /\ ~HasPendingBaseline /\ RestoreChecks
    /\ \/ BaselineRecovery /\ AdoptBaseline("loop")
       \/ /\ ~BaselineRecovery
          /\ status' = "EVOLVING"
          /\ pc' = IF participants = {} THEN "capture" ELSE "loop"
          /\ next' = "loop"
          /\ UNCHANGED <<epoch, best, branchStatus, incumbent, ledgerVars,
                         waveVars, recorded, pausePhase, stableAt>>
    /\ UNCHANGED <<fileVars, childVars, settled, written, rounds, limit,
                   faults>>

-----------------------------------------------------------------------------

Progress ==
    \/ Start \/ StartBaseline \/ FinishBaseline
    \/ WriteIdentity \/ LeavePaused \/ Freeze
    \/ Run \/ RunCommand \/ Close \/ StopAtLimit \/ WriteReport
    \/ StartWave \/ BootstrapWave \/ ResumeWave \/ PauseWave \/ FinishWave
    \/ Resume \/ RefuseRestore \/ FinishRestore
    \/ \E k \in Keys : WriteCheckpoint(k)
    \/ FinishCapture \/ FailCapture
    \/ \E b \in Branches :
         \/ InitializeBranch(b) \/ RestoreBranch(b)
         \/ NothingToDo(b) \/ AdvanceStep(b) \/ AdvanceStops(b)
         \/ AdvanceFails(b) \/ CloseBranch(b) \/ RefuseRound(b)

Next == Progress \/ Crash

Spec == Init /\ [][Next]_vars

(* The operator starts the controller again whenever it is down and a      *)
(* command applies, and a running process goes on; faults are finite.      *)
FairSpec == Spec /\ WF_vars(Progress)

-----------------------------------------------------------------------------
(* Properties                                                              *)

TypeOK ==
    /\ status \in Statuses /\ pausePhase \in {"none", "baseline", "wave", "checkpoint"}
    /\ epoch \in Nat /\ consumed \in Nat /\ best \in Branches \cup {NoBranch}
    /\ bonusRemaining \in Nat /\ bonusGranted \in Nat
    /\ branchStatus \in [Branches -> {"pending", "active", "exhausted", "stopped"}]
    /\ bonus \in [Branches -> Nat] /\ used \in [Branches -> Nat]
    /\ incumbent \in [Branches -> Maybe(Scores)]
    /\ participants \subseteq Branches
    /\ beforeSteps \in [Branches -> Nat]
    /\ beforeScore \in [Branches -> Maybe(Scores)]
    /\ recorded \subseteq Keys /\ written \subseteq Keys
    /\ reported \in BOOLEAN /\ identity \in BOOLEAN /\ stableAt \in Nat /\ faults \in Nat
    /\ childStatus \in [Branches -> {"pending", "active", "paused", "closing", "stopped"}]
    /\ steps \in [Branches -> Nat]
    /\ champion \in [Branches -> Maybe(Scores)]
    /\ lastScore \in [Branches -> Maybe(Scores)]
    /\ lastBaseline \in [Branches -> Maybe(Scores)]
    /\ pc \in {"down", "launch", "baseline", "capture", "cli", "restore", "loop",
               "wave", "report"}
    /\ settled \in [Branches -> {"none", "closing", "ok", "failed"}]
    /\ next \in {"loop", "cli"} /\ rounds \in Nat /\ limit \in RoundLimits \cup {0}

Cap == [b \in Branches |-> BaseBudget[b] + bonus[b]]

(* Every credit of the budget is at any time in one place: given to a      *)
(* branch or still in the pool, and those spent are the branches' own.  No *)
(* interleaving of waves, grants, pauses and restarts creates or loses one.*)
BudgetConserved ==
    /\ Cardinality(Credits(Cap)) + bonusRemaining = TotalBudget
    /\ bonusGranted = Cardinality(Credits(bonus))
    /\ consumed = Cardinality(Credits(used))
    /\ \A b \in Branches : used[b] <= Cap[b]

(* The ledger and the branches' stores are written apart.  Whatever crash  *)
(* falls between, a branch is never more than the open wave's one round    *)
(* ahead of what it was charged, and exactly level outside a wave.         *)
LedgerMatchesWork ==
    \A b \in Branches :
      /\ b \in participants => beforeSteps[b] = used[b]
      /\ b \in participants => steps[b] \in {used[b], used[b] + 1}
      /\ b \notin participants => steps[b] = used[b]

(* Between waves the published best is the branch whose own champion leads *)
(* all the others, ties to the lowest id.                                  *)
BestIsChampion ==
    status \in {"EVOLVING", "CLOSED", "BASELINE_FROZEN"} /\ participants = {}
        => IsPopulationBest(best, Branches, champion)

(* A paused or stable campaign whose baselines are complete passes every   *)
(* check resume() makes: the controller never locks itself out.            *)
ResumeAccepts ==
    /\ \/ status = "PAUSED_INFRASTRUCTURE"
       \/ status = "EVOLVING" /\ participants = {}
    /\ ~HasPendingBaseline
    => RestoreChecks

(* What is published and what a resume finds are the branches' own facts.  *)
RecoveryIsExact == BestIsChampion /\ ResumeAccepts

(* A checkpoint file written before a crash is never refused afterwards:   *)
(* its content is the same however often the capture is repeated.          *)
NoCheckpointConflict ==
    pc = "capture" => \A k \in ToCapture \ written : files[k] \in {NoFile, Content(k)}

(* No work starts, and the campaign does not close, before every milestone *)
(* reached is on disk and in the index.                                    *)
MilestonesRecorded ==
    (participants # {} \/ status = "CLOSED")
    => \A k \in Keys :
          (IF k[1] = "budget" THEN k[3] <= consumed ELSE k[3] <= used[k[2]])
          => k \in recorded /\ files[k] # NoFile

(* However captures are interrupted and repeated, every milestone reached  *)
(* gets its one checkpoint in time.                                        *)
CheckpointsAreSound == NoCheckpointConflict /\ MilestonesRecorded

(* A campaign closes with budget left only if the branches that could use  *)
(* it have all stopped: a branch still searching has spent its whole       *)
(* allocation and the pool is empty.                                       *)
NoBudgetStranded ==
    status = "CLOSED" =>
      \A b \in Branches :
        childStatus[b] # "stopped" => used[b] = Cap[b] /\ bonusRemaining = 0

(* What is written stays: a checkpoint file and its index entry never      *)
(* change, and a closed or frozen campaign never works again.              *)
Durable ==
    [][/\ \A k \in Keys : files[k] # NoFile => files'[k] = files[k]
       /\ recorded \subseteq recorded'
       /\ status \in {"CLOSED", "BASELINE_FROZEN"}
            => UNCHANGED <<status, best, ledgerVars, steps, champion>>]_vars

Ended == (status = "CLOSED" /\ reported) \/ status = "BASELINE_FROZEN"

(* A branch was interrupted between the two saves that close it.           *)
CutShort == \E b \in Branches : childStatus[b] = "closing" /\ settled[b] # "closing"

(* A campaign with a complete baseline ends: closed with its report, or    *)
(* frozen at the baseline; unless a branch is cut short while it closes    *)
(* (see ClosesWhenAllStopped).                                             *)
EventuallyReported == status = "EVOLVING" ~> Ended \/ CutShort

(* docs/controller-modes.md:75: when "every Updater stops, the parent      *)
(* Population Campaign closes".                                            *)
ClosesWhenAllStopped ==
    (\A b \in Branches : childStatus[b] \in {"closing", "stopped"}) ~> status = "CLOSED"

(* docs/controller-modes.md:75: when the budget is exhausted the campaign  *)
(* "closes and writes" its report.                                         *)
ClosedIsReported == status = "CLOSED" ~> reported

(* Both: a campaign comes to its end, and an end always has its report.    *)
CampaignsEnd == EventuallyReported /\ ClosedIsReported

(* README.dev.zh.md:139: a paused HLE population campaign can be resumed.  *)
BaselinePauseResumes ==
    status = "PAUSED_INFRASTRUCTURE" /\ pausePhase = "baseline" /\ Identified
        ~> status = "EVOLVING"

(* updater-providers-and-checkpoints.zh.md:97: the process may be killed   *)
(* between a checkpoint file and its index entry; experiment resume takes  *)
(* up the stable EVOLVING state it leaves.                                 *)
StableStateResumes ==
    pc = "down" /\ status = "EVOLVING" /\ participants = {} ~> pc # "down"

(* The whole controller, with its crashes, pauses and restarts, does what  *)
(* the credit ledger promises.                                             *)
Ledger == INSTANCE CreditLedger WITH
    done <- steps, paid <- used, pool <- bonusRemaining,
    closed <- status = "CLOSED"

ImplementsLedger == Ledger!Spec

=============================================================================
