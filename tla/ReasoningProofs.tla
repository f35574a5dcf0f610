--------------------------- MODULE ReasoningProofs ---------------------------
(***************************************************************************)
(* Proofs about ReasoningCampaign, for every set of tasks, budget, number  *)
(* of levels and misses, and number of faults:                             *)
(*   ReceiptsStaySealed        a published sealed result is never replaced *)
(*   RecordsKeepFollowingRound worktree and log fit the saved stage        *)
(*   SearchStaysExact          incumbent, scores and levels are exact      *)
(*   TypeCorrect               every variable keeps its type               *)
(*   CampaignIsDriver          the campaign refines BranchDriver           *)
(* The inductive invariant says which saved status and stage each place of *)
(* the process can meet (Position), where the worktree and the scores      *)
(* stand there (Workspace, Scores), how far the log may be ahead           *)
(* (LogAhead) and how the levels follow from the run of misses (MissRun,   *)
(* LevelsFollowMisses).  Workers that outlive their process only write     *)
(* checkpoints, which is why the records of a sealed candidate stay.       *)
(***************************************************************************)
EXTENDS ReasoningCampaign, FiniteSetTheorems, TLAPS

-----------------------------------------------------------------------------
(* The inductive invariant                                                 *)

Statuses == {"CONFIG_FROZEN", "BASELINE_FROZEN", "EVOLVING", "PAUSED", "CLOSING",
             "CLOSED", "REPORTED"}
Stages == {"none", "started", "mutated", "built", "validated", "sealed"}
Outcomes == {"none", "completed", "failed"}
Receipts == 0 .. MaxFaults + 1
Levels == 0 .. TopLevel
Entries == [score : Int, decision : {"baseline", "promoted", "rejected"},
            level : Levels, outcome : Outcomes, receipt : Receipts]
States == [status : Statuses, resume : {"none", "BASELINE_FROZEN", "EVOLVING"},
           level : Levels, misses : Nat, incumbent : Candidates, stage : Stages,
           outcome : Outcomes, score : Int, receipt : Receipts,
           candidates : Seq(Entries)]
Places == {"down", "idle", "checkout", "updating", "testing", "decided", "logged"}

Types ==
    /\ soft \in BOOLEAN /\ charged \in 0 .. Budget /\ saved \in States
    /\ git \in [head : Candidates \cup {-1}, clean : BOOLEAN]
    /\ mutation \in [Candidates -> {"none", "completed", "failed", "stopped"}]
    /\ build \in [Candidates -> {"none", "ok", "failed"}]
    /\ records \in [Candidates -> [Tasks -> Results \cup {"none"}]]
    /\ summary \in [Candidates -> Int]
    /\ receipt \in [Candidates -> Receipts]
    /\ log \in Seq([candidate : Nat, promoted : BOOLEAN])
    /\ workers \subseteq [candidate : Candidates, by : 0 .. MaxFaults]
    /\ pc \in Places /\ faults \in 0 .. MaxFaults

(* The campaign measures its baseline, or goes through its rounds; a pause *)
(* remembers which.                                                        *)
Founding == \/ saved.status \in {"CONFIG_FROZEN", "BASELINE_FROZEN"}
            \/ saved.resume = "BASELINE_FROZEN"
Evolving == saved.status = "EVOLVING" \/ saved.resume = "EVOLVING"

(* Where the process stands agrees with the saved status and stage.        *)
Position ==
    /\ saved.resume # "none" <=> saved.status = "PAUSED"
    /\ saved.status = "PAUSED" => pc = "down"
    /\ pc = "checkout" => saved.status = "CONFIG_FROZEN"
    /\ pc = "updating" => /\ saved.status = "EVOLVING" /\ saved.stage = "started"
                          /\ mutation[G] = "none"
    /\ pc = "testing" => \/ saved.status = "BASELINE_FROZEN"
                         \/ saved.status = "EVOLVING" /\ saved.stage = "validated"
    /\ pc \in {"decided", "logged"} => saved.stage = "sealed"
    /\ saved.stage = "sealed" => saved.status = "EVOLVING"
    /\ saved.stage # "none" => Evolving /\ G <= Budget /\ charged = Completed
    /\ G = 0 <=> Founding
    /\ Founding => saved.incumbent = 0 /\ saved.outcome = "none" /\ saved.misses = 0
    /\ charged <= Completed /\ Completed <= charged + 1 /\ Completed <= Budget
    /\ saved.incumbent <= Completed

(* The worktree, the mutation of the candidate at work and its build.      *)
Workspace ==
    /\ Founding => git = NoGit \/ git.head = 0
    /\ Founding /\ saved.status # "CONFIG_FROZEN" => git.head = 0
    /\ saved.status = "CONFIG_FROZEN" => build[0] = "none" /\ summary[0] = NoScore
    /\ Founding /\ build[0] = "ok" => git.clean
    /\ Evolving /\ saved.stage = "none" => AtIncumbent
    /\ \/ saved.stage \in {"mutated", "built", "validated"}
       \/ saved.stage = "started" /\ mutation[G] # "none"
       => git.clean /\ MutationVerified
    /\ saved.stage = "sealed" => git.clean
    /\ pc \in {"decided", "logged"} => git.head = IncumbentAfter(saved)
    /\ \A c \in Candidates :
          c > G \/ (c = G /\ Evolving /\ saved.stage = "none") =>
             mutation[c] = "none" /\ summary[c] = NoScore
    /\ saved.stage \in {"started", "mutated"} => summary[G] = NoScore

(* A summary is the score of complete checkpoints, which stay as they are. *)
Scores ==
    /\ \A c \in Candidates : summary[c] # NoScore => summary[c] = Score(c)
    /\ Founding /\ summary[0] # NoScore => Remaining(0) = {} /\ build[0] = "ok"
    /\ saved.stage \in {"mutated", "built", "validated", "sealed"} =>
          saved.outcome \in {"completed", "failed"}
    /\ saved.stage \in {"built", "validated", "sealed"} /\ summary[G] # NoScore =>
          saved.outcome = "failed" \/ Remaining(G) = {}
    /\ saved.stage \in {"validated", "sealed"} =>
          summary[G] # NoScore /\ saved.score = summary[G]
    /\ saved.stage # "none" => saved.receipt \in {0, receipt[G]}

(* The log is ahead of state.json only by a round whose decision stands.   *)
LogAhead ==
    /\ Len(log) = Completed + 1 => saved.stage = "sealed"
    /\ pc = "logged" => Len(log) = Completed + 1
    /\ pc = "decided" => saved.stage = "sealed"

(* The misses counted are the last rejections in a row at this level.      *)
MissRun ==
    (~soft /\ Evolving) =>
       /\ saved.level >= 1 /\ saved.misses < Misses /\ saved.misses <= G - 1
       /\ \A j \in (G - saved.misses + 1) .. G :
             /\ saved.candidates[j].decision = "rejected"
             /\ saved.candidates[j].level = saved.level
       /\ \/ G - saved.misses = 1
          \/ saved.candidates[G - saved.misses].decision # "rejected"
          \/ saved.candidates[G - saved.misses].level # saved.level

IInv ==
    /\ Types /\ Position /\ Workspace /\ Scores /\ SealedOnce /\ ScoresAreComplete
    /\ LogFollowsState /\ LogAhead /\ IncumbentIsFirstBest
    /\ MissRun /\ LevelsFollowMisses /\ saved.misses <= Misses

-----------------------------------------------------------------------------
(* Operators                                                               *)

LEMMA TasksFinite ==
    ASSUME NEW T, T \subseteq Tasks
    PROVE  IsFiniteSet(T) /\ Cardinality(T) \in Nat /\ Cardinality(T) <= Cardinality(Tasks)
  BY ReasoningCampaignAssumption, FS_Subset, FS_CardinalityType DEF ReasoningCampaignAssumption

(* A score counts tasks, so it is never NoScore.                           *)
LEMMA ScoreType ==
    ASSUME NEW c PROVE Score(c) \in 0 .. Cardinality(Tasks) /\ Score(c) # NoScore
<1>1. {t \in Tasks : records[c][t] = "resolved"} \subseteq Tasks
  OBVIOUS
<1>2. Score(c) \in Nat /\ Score(c) <= Cardinality(Tasks) /\ Cardinality(Tasks) \in Nat
  BY <1>1, TasksFinite DEF Score
<1> QED
  BY <1>2 DEF NoScore

(* Score and remaining tasks of a candidate depend on its checkpoints only.*)
LEMMA ScoreFrame ==
    ASSUME NEW c, records'[c] = records[c]
    PROVE  Score(c)' = Score(c) /\ Remaining(c)' = Remaining(c)
  BY DEF Score, Remaining

LEMMA GuardTypes ==
    ASSUME Types
    PROVE  /\ G \in Nat /\ Completed \in Nat /\ Budget \in Nat /\ 0 \in Candidates
           /\ charged \in Nat /\ saved.incumbent \in Nat /\ saved.misses \in Nat
           /\ saved.level \in Nat
           /\ G = 0 => Completed = 0
           /\ G # 0 => Completed = G - 1 /\ G - 1 \in Nat
           /\ G <= Budget => G \in Candidates
           /\ \A i \in 1 .. G : saved.candidates[i] \in Entries
<1>1. saved.candidates \in Seq(Entries) /\ saved.incumbent \in Candidates /\ saved.misses \in Nat
      /\ saved.level \in Levels
  BY DEF Types, States
<1>2. Budget \in Nat /\ TopLevel \in Nat
  BY ReasoningCampaignAssumption DEF ReasoningCampaignAssumption
<1>3. G \in Nat /\ DOMAIN saved.candidates = 1 .. G
  BY <1>1 DEF G
<1> QED
  BY <1>1, <1>2, <1>3 DEF Completed, Candidates, Types, Levels

(* Pausing and resuming change status and resume only.                     *)
LEMMA PauseFields ==
    ASSUME Types, saved.status \in {"BASELINE_FROZEN", "EVOLVING"}
    PROVE  /\ Paused(saved) \in States /\ Paused(saved).status = "PAUSED"
           /\ Paused(saved).resume = saved.status
           /\ Paused(saved).level = saved.level /\ Paused(saved).misses = saved.misses
           /\ Paused(saved).incumbent = saved.incumbent /\ Paused(saved).stage = saved.stage
           /\ Paused(saved).outcome = saved.outcome /\ Paused(saved).score = saved.score
           /\ Paused(saved).receipt = saved.receipt
           /\ Paused(saved).candidates = saved.candidates
  BY DEF Types, States, Statuses, Paused

LEMMA ResumeFields ==
    ASSUME Types, Position, saved.status = "PAUSED"
    PROVE  /\ Resumed(saved) \in States /\ Resumed(saved).status = saved.resume
           /\ Resumed(saved).resume = "none"
           /\ Resumed(saved).level = saved.level /\ Resumed(saved).misses = saved.misses
           /\ Resumed(saved).incumbent = saved.incumbent /\ Resumed(saved).stage = saved.stage
           /\ Resumed(saved).outcome = saved.outcome /\ Resumed(saved).score = saved.score
           /\ Resumed(saved).receipt = saved.receipt
           /\ Resumed(saved).candidates = saved.candidates
  BY DEF Types, States, Statuses, Resumed, Position

(* What the commit of a round writes.                                      *)
NewEntry == Entry(IF Promoted(saved) THEN "promoted" ELSE "rejected", saved.level)
Leaves == ~soft /\ ~Promoted(saved) /\ NextMisses(saved) = Misses
Closes == Leaves /\ saved.level = TopLevel

LEMMA EntryFields ==
    ASSUME Types
    PROVE  /\ NewEntry \in Entries /\ NewEntry.score = saved.score
           /\ NewEntry.outcome = saved.outcome /\ NewEntry.receipt = saved.receipt
           /\ NewEntry.level = saved.level
           /\ NewEntry.decision = IF Promoted(saved) THEN "promoted" ELSE "rejected"
  BY DEF Types, States, NewEntry, Entry, Entries

LEMMA DecidedFields ==
    ASSUME Types, G \in Candidates
    PROVE  /\ Decided(saved) \in States
           /\ Decided(saved).candidates = Append(saved.candidates, NewEntry)
           /\ Decided(saved).incumbent = IncumbentAfter(saved)
           /\ Decided(saved).status = IF Closes THEN "CLOSING" ELSE saved.status
           /\ Decided(saved).resume = saved.resume
           /\ Decided(saved).level = IF Closes THEN 0 ELSE IF Leaves THEN saved.level + 1
                                     ELSE saved.level
           /\ Decided(saved).misses = IF soft \/ (Leaves /\ ~Closes) THEN 0
                                      ELSE NextMisses(saved)
           /\ Decided(saved).stage = "none"
           /\ Decided(saved).score = saved.score /\ Decided(saved).receipt = saved.receipt
           /\ Decided(saved).outcome = saved.outcome
<1> DEFINE status == IF Closes THEN "CLOSING" ELSE saved.status
           level == IF Closes THEN 0 ELSE IF Leaves THEN saved.level + 1 ELSE saved.level
           misses == IF soft \/ (Leaves /\ ~Closes) THEN 0 ELSE NextMisses(saved)
           list == Append(saved.candidates, NewEntry)
           incumbent == IncumbentAfter(saved)
<1>1. status \in Statuses
  BY DEF Types, States, Statuses
<1>2. level \in Levels
  BY ReasoningCampaignAssumption
     DEF Types, States, Levels, Closes, ReasoningCampaignAssumption
<1>3. misses \in Nat
  BY DEF NextMisses, Types, States
<1>4. list \in Seq(Entries) /\ incumbent \in Candidates
  BY EntryFields DEF Types, States, IncumbentAfter
<1>5. Decided(saved) = [saved EXCEPT !.candidates = list, !.incumbent = incumbent,
                                     !.status = status, !.level = level,
                                     !.misses = misses, !.stage = "none"]
  BY DEF Decided, NewEntry, Leaves, Closes
<1> HIDE DEF status, level, misses, list, incumbent
<1>6. saved \in States
  BY DEF Types
<1>7. /\ Decided(saved) \in States
      /\ Decided(saved).candidates = list
      /\ Decided(saved).incumbent = incumbent
      /\ Decided(saved).status = status /\ Decided(saved).resume = saved.resume
      /\ Decided(saved).level = level /\ Decided(saved).misses = misses
      /\ Decided(saved).stage = "none"
      /\ Decided(saved).score = saved.score /\ Decided(saved).receipt = saved.receipt
      /\ Decided(saved).outcome = saved.outcome
  BY <1>1, <1>2, <1>3, <1>4, <1>5, <1>6 DEF States, Stages
<1> QED
  BY <1>7 DEF status, level, misses, list, incumbent

(* What recording the baseline writes.                                     *)
BaselineEntry == [score |-> summary[0], decision |-> "baseline", level |-> 0,
                  outcome |-> "completed", receipt |-> receipt[0]]
BaselineRecorded == [saved EXCEPT !.status = "EVOLVING",
                                  !.level = IF soft THEN 0 ELSE 1,
                                  !.candidates = <<BaselineEntry>>]

LEMMA BaselineFields ==
    ASSUME Types
    PROVE  /\ BaselineEntry \in Entries /\ BaselineRecorded \in States
           /\ BaselineRecorded.status = "EVOLVING"
           /\ BaselineRecorded.candidates = <<BaselineEntry>>
           /\ BaselineRecorded.level = IF soft THEN 0 ELSE 1
           /\ BaselineRecorded.resume = saved.resume
           /\ BaselineRecorded.misses = saved.misses
           /\ BaselineRecorded.incumbent = saved.incumbent
           /\ BaselineRecorded.stage = saved.stage
           /\ BaselineRecorded.outcome = saved.outcome
           /\ [Entry("baseline", 0) EXCEPT !.score = summary[0], !.receipt = receipt[0],
                                           !.outcome = "completed"] = BaselineEntry
<1>1. TopLevel \in Nat \ {0} /\ 0 \in Candidates
  BY ReasoningCampaignAssumption DEF ReasoningCampaignAssumption, Candidates
<1>2. BaselineEntry \in Entries
  BY <1>1 DEF Types, BaselineEntry, Entries, Levels, Outcomes
<1> DEFINE level == IF soft THEN 0 ELSE 1
           list == <<BaselineEntry>>
<1>3. level \in Levels
  BY <1>1 DEF Levels
<1>4. list \in Seq(Entries) /\ saved \in States
  BY <1>2 DEF Types
<1>5. BaselineRecorded = [saved EXCEPT !.status = "EVOLVING", !.level = level,
                                       !.candidates = list]
  BY DEF BaselineRecorded
<1> HIDE DEF level, list
<1>8. BaselineRecorded \in States
  BY <1>3, <1>4, <1>5 DEF States, Statuses
<1>6. /\ BaselineRecorded.status = "EVOLVING"
      /\ BaselineRecorded.candidates = list
      /\ BaselineRecorded.level = level
      /\ BaselineRecorded.resume = saved.resume
      /\ BaselineRecorded.misses = saved.misses
      /\ BaselineRecorded.incumbent = saved.incumbent
      /\ BaselineRecorded.stage = saved.stage
      /\ BaselineRecorded.outcome = saved.outcome
  BY <1>3, <1>4, <1>5 DEF States, Statuses
<1>7. [Entry("baseline", 0) EXCEPT !.score = summary[0], !.receipt = receipt[0],
                                   !.outcome = "completed"] = BaselineEntry
  <2> DEFINE e == Entry("baseline", 0)
             f == [e EXCEPT !.score = summary[0], !.receipt = receipt[0],
                            !.outcome = "completed"]
  <2>1. e \in Entries /\ e.decision = "baseline" /\ e.level = 0
    BY <1>1 DEF Types, States, Entry, Entries, Levels
  <2>2. summary[0] \in Int /\ receipt[0] \in Receipts
    BY <1>1 DEF Types
  <2>3. /\ f \in Entries /\ f.score = summary[0] /\ f.decision = "baseline" /\ f.level = 0
        /\ f.outcome = "completed" /\ f.receipt = receipt[0]
    <3> HIDE DEF e
    <3> QED
      BY <2>1, <2>2 DEF Entries, Outcomes
  <2>4. /\ BaselineEntry.score = summary[0] /\ BaselineEntry.decision = "baseline"
        /\ BaselineEntry.level = 0 /\ BaselineEntry.outcome = "completed"
        /\ BaselineEntry.receipt = receipt[0]
    BY DEF BaselineEntry
  <2> HIDE DEF f
  <2>5. f = BaselineEntry
    BY <1>2, <2>3, <2>4 DEF Entries
  <2> QED
    BY <2>5 DEF f, e
<1> QED
  BY <1>2, <1>6, <1>7, <1>8 DEF level, list

-----------------------------------------------------------------------------
(* No step, restart or error changes a type.                               *)

LEMMA GitTypes ==
    ASSUME Types
    PROVE  /\ NoGit \in [head : Candidates \cup {-1}, clean : BOOLEAN]
           /\ \A h \in Candidates \cup {-1}, b \in BOOLEAN :
                 [head |-> h, clean |-> b] \in [head : Candidates \cup {-1}, clean : BOOLEAN]
           /\ [git EXCEPT !.clean = FALSE] \in [head : Candidates \cup {-1}, clean : BOOLEAN]
           /\ saved.incumbent \in Candidates /\ 0 \in Candidates
  BY GuardTypes DEF Types, States, NoGit

LEMMA PauseTypes ==
    ASSUME Types, saved.status \in {"BASELINE_FROZEN", "EVOLVING"}, Pause,
           workers' \subseteq workers, faults' \in 0 .. MaxFaults,
           git' \in [head : Candidates \cup {-1}, clean : BOOLEAN]
    PROVE  Types'
<1>1. saved' \in States
  BY PauseFields DEF Pause
<1> QED
  BY <1>1 DEF Types, Pause, Places, artifacts

LEMMA SaveTypes ==
    ASSUME Types, NEW s \in States, Save(s) PROVE Types'
  BY DEF Types, Save, artifacts, sealed

LEMMA TypesStep ==
    ASSUME Types, Position, [Next]_vars
    PROVE  Types'
<1> USE DEF artifacts, sealed, Places
<1>g. /\ G \in Nat /\ (G <= Budget => G \in Candidates) /\ 0 \in Candidates
      /\ saved.incumbent \in Candidates
  BY GuardTypes, GitTypes
<1>i. /\ InBaseline => G = 0 /\ G \in Candidates
      /\ saved.stage # "none" => G \in Candidates
      /\ Testable => G \in Candidates
  BY <1>g DEF InBaseline, Idle, Position, Founding, Testable, AtStage
<1>s. saved \in States
  BY DEF Types
<1>n. MaxFaults \in Nat /\ Budget \in Nat
  BY ReasoningCampaignAssumption DEF ReasoningCampaignAssumption
<1>1. CASE Boot
  <2>1. saved' \in States
    BY <1>1, <1>s, ResumeFields DEF Boot
  <2> QED
    BY <1>1, <2>1 DEF Boot, Types
<1>2. CASE Clone \/ Checkout
  <2>1. git' \in [head : Candidates \cup {-1}, clean : BOOLEAN]
    BY <1>2, GitTypes DEF Clone, Checkout, Reset
  <2> QED
    BY <1>2, <2>1 DEF Clone, Checkout, Types
<1>3. CASE FreezeBaseline
  <2>1. saved' \in States
    BY <1>3, <1>s DEF FreezeBaseline, States, Statuses
  <2> QED
    BY <1>3, <2>1 DEF FreezeBaseline, Types
<1>4. CASE FailBaselineBuild
  BY <1>4, PauseTypes DEF FailBaselineBuild, InBaseline, Idle, Types
<1>5. CASE RecordBaseline
  <2>1. saved' = BaselineRecorded
    BY <1>5, BaselineFields DEF RecordBaseline, BaselineRecorded
  <2> QED
    BY <1>5, <2>1, BaselineFields DEF RecordBaseline, Types
<1>6. CASE StartRound
  <2>1. [saved EXCEPT !.stage = "started", !.outcome = "none", !.score = NoScore,
                      !.receipt = 0] \in States
    <3>1. NoScore \in Int /\ 0 \in Receipts /\ "none" \in Outcomes /\ "started" \in Stages
      BY <1>n DEF Stages, Outcomes, NoScore, Receipts
    <3> QED
      BY <1>s, <3>1 DEF States
  <2> QED
    BY <1>6, <2>1, SaveTypes DEF StartRound
<1>7. CASE PrepareMutation \/ RefuseWorkspace \/ ReadReceipt \/ RefuseLog
  BY <1>7 DEF PrepareMutation, RefuseWorkspace, ReadReceipt, RefuseLog, Types
<1>8. CASE InspectMutation \/ UpdaterFails \/ UpdaterStops
  <2>1. PICK r \in {"completed", "failed", "stopped"} : WriteMutation(r)
    BY <1>8 DEF InspectMutation, UpdaterFails, UpdaterStops
  <2>2. git' \in [head : Candidates \cup {-1}, clean : BOOLEAN]
    BY <1>8, GitTypes DEF InspectMutation, UpdaterFails, UpdaterStops, Rejected, Reset, Types
  <2>3. mutation' \in [Candidates -> {"none", "completed", "failed", "stopped"}]
    BY <2>1 DEF WriteMutation, Types
  <2> QED
    BY <2>1, <2>2, <2>3 DEF WriteMutation, Types
<1>9. CASE FinishMutation
  <2>1. mutation[G] \in {"completed", "failed", "stopped"}
    BY <1>9, <1>i DEF FinishMutation, AtStage, Idle, Types
  <2>2. /\ [saved EXCEPT !.status = "CLOSING", !.stage = "none"] \in States
        /\ mutation[G] # "stopped" =>
             [saved EXCEPT !.stage = "mutated", !.outcome = mutation[G]] \in States
    BY <1>s, <2>1 DEF States, Statuses, Stages, Outcomes
  <2> QED
    BY <1>9, <2>2, SaveTypes DEF FinishMutation
<1>10. CASE BuildCandidate
  <2>1. build' \in [Candidates -> {"none", "ok", "failed"}]
    BY <1>10 DEF BuildCandidate, Types
  <2> QED
    BY <1>10, <2>1 DEF BuildCandidate, Types
<1>11. CASE FinishBuild
  <2>1. \A o \in Outcomes : [saved EXCEPT !.stage = "built", !.outcome = o] \in States
    BY <1>s DEF States, Stages
  <2>2. saved.outcome \in Outcomes /\ "failed" \in Outcomes
    BY <1>s DEF States, Outcomes
  <2>3. saved' \in States
    BY <1>11, <2>1, <2>2 DEF FinishBuild, Save
  <2> QED
    BY <1>11, <2>3 DEF FinishBuild, Save, Types
<1>12. CASE RunTask
  <2>1. PICK t \in Remaining(G), r \in Results : records' = [records EXCEPT ![G][t] = r]
    BY <1>12 DEF RunTask
  <2>2. records' \in [Candidates -> [Tasks -> Results \cup {"none"}]]
    BY <2>1 DEF Types
  <2> QED
    BY <1>12, <2>2 DEF RunTask, Types
<1>13. CASE PublishSummary
  <2>1. Score(G) \in Int
    BY ScoreType, TasksFinite
  <2>2. summary' \in [Candidates -> Int]
    BY <1>13, <2>1 DEF PublishSummary, Types
  <2> QED
    BY <1>13, <2>2 DEF PublishSummary, Types
<1>14. CASE FinishValidation
  <2>1. summary[G] \in Int
    BY <1>14, <1>i DEF FinishValidation, AtStage, Idle, Types
  <2>2. [saved EXCEPT !.stage = "validated", !.score = summary[G]] \in States
    BY <1>s, <2>1 DEF States, Stages
  <2> QED
    BY <1>14, <2>2, SaveTypes DEF FinishValidation
<1>15. CASE StartWorker
  <2>1. [candidate |-> G, by |-> faults] \in [candidate : Candidates, by : 0 .. MaxFaults]
    BY <1>15, <1>i DEF StartWorker, Types
  <2> QED
    BY <1>15, <2>1 DEF StartWorker, Types
<1>16. CASE WorkerEnds
  <2>1. PICK w \in workers : /\ workers' = workers \ {w} /\ receipt' = Published(w)
                             /\ UNCHANGED <<soft, charged, saved, git, artifacts, log, pc, faults>>
    BY <1>16 DEF WorkerEnds
  <2>2. w.by + 1 \in Receipts /\ w.candidate \in Candidates
    BY <1>n DEF Types, Receipts
  <2>3. receipt' \in [Candidates -> Receipts]
    BY <2>1, <2>2 DEF Published, Types
  <2> QED
    BY <2>1, <2>3 DEF Types
<1>17. CASE WorkerFailed
  BY <1>17, PauseTypes DEF WorkerFailed, OwnWorkerGone, Position, Types
<1>18. CASE FinishTest
  <2>1. receipt[G] \in Receipts
    BY <1>18, <1>i DEF FinishTest, AtStage, Idle, Types
  <2>2. /\ [saved EXCEPT !.stage = "sealed", !.receipt = receipt[G]] \in States
        /\ [saved EXCEPT !.stage = "sealed"] \in States
    BY <1>s, <2>1 DEF States, Stages
  <2> QED
    BY <1>18, <2>2, SaveTypes DEF FinishTest
<1>19. CASE Decide
  <2>1. git' \in [head : Candidates \cup {-1}, clean : BOOLEAN]
    BY <1>19, GitTypes DEF Decide, Rejected, Reset, Types
  <2> QED
    BY <1>19, <2>1 DEF Decide, Types
<1>20. CASE AppendLog
  <2>1. Promoted(saved) \in BOOLEAN
    BY DEF Promoted
  <2>2. [candidate |-> G, promoted |-> Promoted(saved)] \in [candidate : Nat, promoted : BOOLEAN]
    <3> HIDE DEF Promoted
    <3> QED
      BY <1>g, <2>1
  <2>3. log' \in Seq([candidate : Nat, promoted : BOOLEAN])
    BY <1>20, <2>2 DEF AppendLog, Types
  <2> QED
    BY <1>20, <2>3 DEF AppendLog, Types
<1>21. CASE CommitRound
  BY <1>21, <1>i, DecidedFields DEF CommitRound, Position, Types
<1>22. CASE Close
  <2>1. [saved EXCEPT !.status = "CLOSED"] \in States
    BY <1>s DEF States, Statuses
  <2> QED
    BY <1>22, <2>1, SaveTypes DEF Close
<1>23. CASE Report
  <2>1. [saved EXCEPT !.status = "REPORTED"] \in States
    BY <1>s DEF States, Statuses
  <2> QED
    BY <1>23, <2>1, SaveTypes DEF Report
<1>24. CASE Settle
  BY <1>24, <1>n DEF Settle, Position, Types
<1>25. CASE UpdaterWorks
  <2>1. git' \in [head : Candidates \cup {-1}, clean : BOOLEAN]
    BY <1>25, <1>i, GitTypes DEF UpdaterWorks, Position
  <2> QED
    BY <1>25, <2>1 DEF UpdaterWorks, Types
<1>26. CASE Crash
  BY <1>26, <1>n DEF Crash, Types
<1>27. CASE InfrastructureError
  <2>1. Pause /\ faults' \in 0 .. MaxFaults /\ workers' \subseteq workers
    BY <1>27, <1>n DEF InfrastructureError, Types
  <2>2. saved.status \in {"BASELINE_FROZEN", "EVOLVING"}
    BY <1>27 DEF InfrastructureError, Building, Validating, InBaseline, AtStage, Idle, Position
  <2>3. git' \in [head : Candidates \cup {-1}, clean : BOOLEAN]
    BY <1>27, GitTypes DEF InfrastructureError, Reset, Types
  <2> QED
    BY <2>1, <2>2, <2>3, PauseTypes
<1>28. CASE UNCHANGED vars
  BY <1>28 DEF vars, Types
<1> QED
  BY <1>1, <1>2, <1>3, <1>4, <1>5, <1>6, <1>7, <1>8, <1>9, <1>10, <1>11, <1>12, <1>13, <1>14,
     <1>15, <1>16, <1>17, <1>18, <1>19, <1>20, <1>21, <1>22, <1>23, <1>24, <1>25, <1>26, <1>27,
     <1>28 DEF Next, Work, Round

-----------------------------------------------------------------------------
(* How the steps change state.json                                         *)

SameLedger == /\ saved'.candidates = saved.candidates /\ saved'.incumbent = saved.incumbent
              /\ saved'.level = saved.level /\ saved'.misses = saved.misses
SameRound == /\ saved'.stage = saved.stage /\ saved'.outcome = saved.outcome
             /\ saved'.score = saved.score /\ saved'.receipt = saved.receipt
SamePhase == (Founding' <=> Founding) /\ (Evolving' <=> Evolving)

(* A pause, a resume and the frozen baseline leave ledger and round alone. *)
LEMMA PauseSaved ==
    ASSUME Types, Position, Pause, saved.status \in {"BASELINE_FROZEN", "EVOLVING"}
    PROVE  /\ SameLedger /\ SameRound /\ SamePhase
           /\ saved'.status = "PAUSED" /\ saved'.resume = saved.status
           /\ saved'.resume # "none" /\ pc' = "down"
<1>1. /\ SameLedger /\ SameRound
      /\ saved'.status = "PAUSED" /\ saved'.resume = saved.status /\ pc' = "down"
  BY PauseFields DEF Pause, SameLedger, SameRound
<1>2. saved.resume = "none"
  BY DEF Position
<1> QED
  BY <1>1, <1>2 DEF SamePhase, Founding, Evolving

LEMMA BootSaved ==
    ASSUME Types, Position, Boot
    PROVE  /\ SameLedger /\ SameRound /\ SamePhase
           /\ saved'.status = IF saved.status = "PAUSED" THEN saved.resume ELSE saved.status
           /\ saved'.resume = "none" /\ saved'.status # "PAUSED"
<1>1. CASE saved.status = "PAUSED"
  <2>1. saved' = Resumed(saved) /\ saved.resume \in {"BASELINE_FROZEN", "EVOLVING"}
    BY <1>1 DEF Boot, Position, Types, States
  <2> QED
    BY <1>1, <2>1, ResumeFields DEF SameLedger, SameRound, SamePhase, Founding, Evolving
<1>2. CASE saved.status # "PAUSED"
  BY <1>2 DEF Boot, Position, SameLedger, SameRound, SamePhase, Founding, Evolving
<1> QED
  BY <1>1, <1>2

LEMMA FreezeSaved ==
    ASSUME Types, Position, FreezeBaseline
    PROVE  /\ SameLedger /\ SameRound /\ SamePhase
           /\ saved'.status = "BASELINE_FROZEN" /\ saved'.resume = "none"
<1>1. saved' = [saved EXCEPT !.status = "BASELINE_FROZEN"] /\ saved \in States
      /\ saved.status = "CONFIG_FROZEN" /\ saved.resume = "none"
  BY DEF FreezeBaseline, Types, Idle, Position
<1> QED
  BY <1>1 DEF States, SameLedger, SameRound, SamePhase, Founding, Evolving

LEMMA UnchangedSaved ==
    ASSUME UNCHANGED saved
    PROVE  SameLedger /\ SameRound /\ SamePhase /\ UNCHANGED <<G, Completed>>
  BY DEF SameLedger, SameRound, SamePhase, Founding, Evolving, G, Completed

LEMMA SameG == ASSUME SameLedger PROVE G' = G /\ Completed' = Completed
  BY DEF SameLedger, G, Completed

(* The steps of a round, each with what it writes.                         *)
LEMMA StartRoundSaved ==
    ASSUME Types, StartRound
    PROVE  /\ SameLedger /\ SamePhase /\ saved'.status = saved.status
           /\ saved'.resume = saved.resume
           /\ saved'.stage = "started" /\ saved'.outcome = "none" /\ saved'.receipt = 0
<1>1. saved \in States /\ saved' = [saved EXCEPT !.stage = "started", !.outcome = "none",
                                                 !.score = NoScore, !.receipt = 0]
  BY DEF StartRound, Save, Types
<1> QED
  BY <1>1 DEF States, SameLedger, SamePhase, Founding, Evolving

LEMMA FinishMutationSaved ==
    ASSUME Types, FinishMutation
    PROVE  /\ SameLedger /\ saved'.score = saved.score /\ saved'.receipt = saved.receipt
           /\ saved'.resume = saved.resume
           /\ IF mutation[G] = "stopped"
              THEN saved'.status = "CLOSING" /\ saved'.stage = "none"
              ELSE /\ saved'.status = saved.status /\ saved'.stage = "mutated"
                   /\ saved'.outcome = mutation[G]
<1>1. saved \in States /\
      saved' = IF mutation[G] = "stopped"
               THEN [saved EXCEPT !.status = "CLOSING", !.stage = "none"]
               ELSE [saved EXCEPT !.stage = "mutated", !.outcome = mutation[G]]
  BY DEF FinishMutation, Save, Types
<1>2. CASE mutation[G] = "stopped"
  BY <1>1, <1>2 DEF States, SameLedger
<1>3. CASE mutation[G] # "stopped"
  BY <1>1, <1>3 DEF States, SameLedger
<1> QED
  BY <1>2, <1>3

LEMMA FinishBuildSaved ==
    ASSUME Types, FinishBuild
    PROVE  /\ SameLedger /\ SamePhase /\ saved'.status = saved.status
           /\ saved'.resume = saved.resume
           /\ saved'.stage = "built" /\ saved'.outcome \in {saved.outcome, "failed"}
           /\ saved'.score = saved.score /\ saved'.receipt = saved.receipt
<1>1. saved \in States
  BY DEF Types
<1>2. PICK o \in {saved.outcome, "failed"} :
         saved' = [saved EXCEPT !.stage = "built", !.outcome = o]
  BY DEF FinishBuild, Save
<1> QED
  BY <1>1, <1>2 DEF States, SameLedger, SamePhase, Founding, Evolving

LEMMA FinishValidationSaved ==
    ASSUME Types, FinishValidation
    PROVE  /\ SameLedger /\ SamePhase /\ saved'.status = saved.status
           /\ saved'.resume = saved.resume
           /\ saved'.stage = "validated" /\ saved'.score = summary[G]
           /\ saved'.outcome = saved.outcome /\ saved'.receipt = saved.receipt
<1>1. saved \in States /\ saved' = [saved EXCEPT !.stage = "validated", !.score = summary[G]]
  BY DEF FinishValidation, Save, Types
<1> QED
  BY <1>1 DEF States, SameLedger, SamePhase, Founding, Evolving

LEMMA FinishTestSaved ==
    ASSUME Types, FinishTest
    PROVE  /\ SameLedger /\ SamePhase /\ saved'.status = saved.status
           /\ saved'.resume = saved.resume
           /\ saved'.stage = "sealed" /\ saved'.outcome = saved.outcome
           /\ saved'.score = saved.score /\ saved'.receipt \in {saved.receipt, receipt[G]}
<1>1. saved \in States /\ \/ saved' = [saved EXCEPT !.stage = "sealed", !.receipt = receipt[G]]
                          \/ saved' = [saved EXCEPT !.stage = "sealed"]
  BY DEF FinishTest, Save, Types
<1>2. CASE saved' = [saved EXCEPT !.stage = "sealed", !.receipt = receipt[G]]
  BY <1>1, <1>2 DEF States, SameLedger, SamePhase, Founding, Evolving
<1>3. CASE saved' = [saved EXCEPT !.stage = "sealed"]
  BY <1>1, <1>3 DEF States, SameLedger, SamePhase, Founding, Evolving
<1> QED
  BY <1>1, <1>2, <1>3

LEMMA EndSaved ==
    ASSUME Types, Position, Close \/ Report
    PROVE  /\ SameLedger /\ SameRound /\ SamePhase /\ saved'.resume = "none"
           /\ saved'.status \in {"CLOSED", "REPORTED"}
           /\ saved.status \in {"CLOSING", "CLOSED"}
           /\ saved.status = "CLOSED" <=> saved'.status = "REPORTED"
<1>1. saved \in States /\ saved.resume = "none"
      /\ \/ /\ saved' = [saved EXCEPT !.status = "CLOSED"] /\ saved.status = "CLOSING"
         \/ /\ saved' = [saved EXCEPT !.status = "REPORTED"] /\ saved.status = "CLOSED"
  BY DEF Close, Report, Save, Types, Idle, Position
<1> QED
  BY <1>1 DEF States, SameLedger, SameRound, SamePhase, Founding, Evolving

(* Every other step leaves state.json as it is, pauses, resumes, or freezes*)
(* the baseline.                                                           *)
Resting == /\ SameLedger /\ SameRound /\ SamePhase
           /\ \/ UNCHANGED saved
              \/ Boot \/ FreezeBaseline
              \/ Pause /\ saved.status \in {"BASELINE_FROZEN", "EVOLVING"}

OwnSave == \/ StartRound \/ FinishMutation \/ FinishBuild \/ FinishValidation
           \/ FinishTest \/ Close \/ Report

LEMMA SavedStep ==
    ASSUME Types, Position, [Next]_vars
    PROVE  Resting \/ OwnSave \/ RecordBaseline \/ CommitRound
<1> USE DEF Resting
<1>1. CASE Boot \/ FreezeBaseline
  BY <1>1, BootSaved, FreezeSaved
<1>2. CASE FailBaselineBuild \/ WorkerFailed \/ InfrastructureError
  <2>1. Pause /\ saved.status \in {"BASELINE_FROZEN", "EVOLVING"}
    BY <1>2 DEF FailBaselineBuild, WorkerFailed, InfrastructureError, OwnWorkerGone, Building,
                Validating, InBaseline, AtStage, Idle, Position
  <2> QED
    BY <2>1, PauseSaved
<1>3. CASE Clone \/ Checkout \/ PrepareMutation \/ InspectMutation \/ UpdaterFails
  <2>1. UNCHANGED saved
    BY <1>3 DEF Clone, Checkout, PrepareMutation, InspectMutation, UpdaterFails, WriteMutation
  <2> QED
    BY <2>1, UnchangedSaved
<1>4. CASE RefuseWorkspace \/ BuildCandidate \/ RunTask \/ PublishSummary
  <2>1. UNCHANGED saved
    BY <1>4 DEF RefuseWorkspace, BuildCandidate, RunTask, PublishSummary
  <2> QED
    BY <2>1, UnchangedSaved
<1>5. CASE StartWorker \/ WorkerEnds \/ ReadReceipt \/ Decide \/ AppendLog \/ RefuseLog
  <2>1. UNCHANGED saved
    BY <1>5 DEF StartWorker, WorkerEnds, ReadReceipt, Decide, AppendLog, RefuseLog
  <2> QED
    BY <2>1, UnchangedSaved
<1>6. CASE Settle \/ UpdaterWorks \/ UpdaterStops \/ Crash \/ UNCHANGED vars
  <2>1. UNCHANGED saved
    BY <1>6 DEF Settle, UpdaterWorks, UpdaterStops, WriteMutation, Crash, vars
  <2> QED
    BY <2>1, UnchangedSaved
<1> QED
  BY <1>1, <1>2, <1>3, <1>4, <1>5, <1>6 DEF Next, Work, Round, OwnSave

(* Only the recorded baseline and a committed round touch the ledger.      *)
LEMMA LedgerStep ==
    ASSUME Types, Position, [Next]_vars, ~RecordBaseline, ~CommitRound
    PROVE  SameLedger /\ (Evolving' => Evolving) /\ UNCHANGED soft
<1>1. UNCHANGED soft
  BY DEF Next, Work, Round, Boot, Clone, Checkout, FreezeBaseline, FailBaselineBuild, Pause,
         StartRound, Save, PrepareMutation, InspectMutation, UpdaterFails, WriteMutation,
         FinishMutation, RefuseWorkspace, BuildCandidate, FinishBuild, RunTask, PublishSummary,
         FinishValidation, StartWorker, WorkerEnds, ReadReceipt, WorkerFailed, FinishTest,
         Decide, AppendLog, RefuseLog, Close, Report, Settle, UpdaterWorks, UpdaterStops, Crash,
         InfrastructureError, vars
<1>2. CASE FinishMutation
  <2>1. SameLedger /\ saved'.resume = saved.resume /\ saved.status = "EVOLVING"
    BY <1>2, FinishMutationSaved DEF FinishMutation, AtStage, Idle
  <2> QED
    BY <1>1, <2>1 DEF Evolving
<1>3. CASE OwnSave /\ ~FinishMutation
  BY <1>1, <1>3, StartRoundSaved, FinishBuildSaved, FinishValidationSaved, FinishTestSaved,
     EndSaved DEF OwnSave, SamePhase
<1> QED
  BY <1>1, <1>2, <1>3, SavedStep DEF Resting, SamePhase

-----------------------------------------------------------------------------
(* Where the process stands keeps agreeing with what is saved.             *)
LEMMA PositionStep ==
    ASSUME Types, Position, Types', [Next]_vars
    PROVE  Position'
<1> USE DEF artifacts, sealed
<1>g. /\ G \in Nat /\ Completed \in Nat /\ charged \in Nat /\ Budget \in Nat
      /\ saved.incumbent \in Nat /\ (G = 0 => Completed = 0) /\ (G # 0 => Completed = G - 1)
  BY GuardTypes
<1>f. ASSUME SameLedger, SameRound, SamePhase, UNCHANGED charged,
             saved'.resume # "none" <=> saved'.status = "PAUSED",
             saved'.status = "PAUSED" => pc' = "down",
             pc' = "checkout" => saved'.status = "CONFIG_FROZEN",
             pc' = "updating" => /\ saved'.status = "EVOLVING" /\ saved'.stage = "started"
                                 /\ mutation'[G] = "none",
             pc' = "testing" => \/ saved'.status = "BASELINE_FROZEN"
                                \/ saved'.status = "EVOLVING" /\ saved'.stage = "validated",
             pc' \in {"decided", "logged"} => saved'.stage = "sealed",
             saved'.stage = "sealed" => saved'.status = "EVOLVING"
      PROVE  Position'
  <2>1. G' = G /\ Completed' = Completed
    BY <1>f, SameG
  <2> QED
    BY <1>f, <2>1 DEF Position, SameLedger, SameRound, SamePhase
<1>u. ASSUME UNCHANGED <<saved, charged>>,
             saved.status = "PAUSED" => pc' = "down",
             pc' = "checkout" => saved.status = "CONFIG_FROZEN",
             pc' = "updating" => /\ saved.status = "EVOLVING" /\ saved.stage = "started"
                                 /\ mutation'[G] = "none",
             pc' = "testing" => \/ saved.status = "BASELINE_FROZEN"
                                \/ saved.status = "EVOLVING" /\ saved.stage = "validated",
             pc' \in {"decided", "logged"} => saved.stage = "sealed"
      PROVE  Position'
  BY <1>f, <1>u, UnchangedSaved DEF Position
<1>d. ASSUME Pause, saved.status \in {"BASELINE_FROZEN", "EVOLVING"}, saved.stage # "sealed"
      PROVE  Position'
  BY <1>d, <1>f, PauseSaved DEF Position, Pause, SameRound
<1>1. CASE Boot
  <2>1. pc' = "idle" /\ pc = "down" /\ UNCHANGED charged
    BY <1>1 DEF Boot
  <2>2. /\ SameLedger /\ SameRound /\ SamePhase
        /\ saved'.status = IF saved.status = "PAUSED" THEN saved.resume ELSE saved.status
        /\ saved'.resume = "none" /\ saved'.status # "PAUSED"
    BY <1>1, BootSaved
  <2>3. saved'.stage = "sealed" => saved'.status = "EVOLVING"
    BY <2>2 DEF Position, SameRound
  <2> QED
    BY <2>1, <2>2, <2>3, <1>f
<1>2. CASE Clone \/ Checkout
  BY <1>2, <1>u DEF Clone, Checkout, Idle, Position
<1>3. CASE FreezeBaseline
  <2>1. pc' = "idle" /\ saved.status = "CONFIG_FROZEN" /\ UNCHANGED charged
    BY <1>3 DEF FreezeBaseline, Idle
  <2>2. saved'.stage # "sealed"
    BY <1>3, <2>1, FreezeSaved DEF Position, SameRound
  <2> QED
    BY <1>3, <1>f, <2>1, <2>2, FreezeSaved
<1>4. CASE FailBaselineBuild
  BY <1>4, <1>d DEF FailBaselineBuild, InBaseline, Idle, Position
<1>5. CASE RecordBaseline
  <2>1. /\ saved' = BaselineRecorded /\ UNCHANGED <<charged, pc>> /\ pc = "idle"
        /\ saved.status = "BASELINE_FROZEN"
    BY <1>5, BaselineFields DEF RecordBaseline, BaselineRecorded, InBaseline, Idle
  <2>2. /\ saved'.status = "EVOLVING" /\ saved'.resume = "none" /\ saved'.incumbent = 0
        /\ saved'.stage = "none" /\ saved'.candidates = <<BaselineEntry>>
        /\ charged = 0 /\ saved'.outcome = "none" /\ saved'.misses = 0
    BY <2>1, <1>g, BaselineFields DEF Position, Founding, Evolving
  <2>3. G' = 1 /\ Completed' = 0
    BY <2>2 DEF G, Completed
  <2> QED
    BY <2>1, <2>2, <2>3, <1>g DEF Position, Founding, Evolving
<1>6. CASE StartRound
  <2>1. /\ saved.status = "EVOLVING" /\ saved.stage = "none" /\ pc = "idle" /\ pc' = "idle"
        /\ charged = Completed /\ charged < Budget /\ charged' = charged
    BY <1>6 DEF StartRound, AtStage, Idle, Save
  <2>2. G <= Budget
    BY <2>1, <1>g
  <2>3. G' = G /\ Completed' = Completed
    BY <1>6, StartRoundSaved, SameG
  <2> QED
    BY <1>6, <2>1, <2>2, <2>3, StartRoundSaved
       DEF Position, SameLedger, SamePhase, Founding, Evolving
<1>7. CASE PrepareMutation
  BY <1>7, <1>u DEF PrepareMutation, AtStage, Idle, Position
<1>8. CASE InspectMutation \/ UpdaterFails \/ UpdaterStops
  <2>1. UNCHANGED <<saved, charged>> /\ pc' = "idle" /\ pc = "updating"
    BY <1>8 DEF InspectMutation, UpdaterFails, UpdaterStops, WriteMutation
  <2> QED
    BY <2>1, <1>u DEF Position
<1>9. CASE FinishMutation
  <2>1. /\ saved.status = "EVOLVING" /\ saved.stage = "started" /\ pc = "idle" /\ pc' = "idle"
        /\ charged' = charged
    BY <1>9 DEF FinishMutation, AtStage, Idle, Save
  <2>2. G' = G /\ Completed' = Completed
    BY <1>9, FinishMutationSaved, SameG
  <2>3. /\ SameLedger /\ saved'.resume = "none" /\ saved.resume = "none"
        /\ \/ saved'.status = "CLOSING" /\ saved'.stage = "none"
           \/ saved'.status = "EVOLVING" /\ saved'.stage = "mutated"
    BY <1>9, <2>1, FinishMutationSaved DEF Position
  <2> QED
    BY <2>1, <2>2, <2>3 DEF Position, SameLedger, Founding, Evolving
<1>10. CASE RefuseWorkspace \/ BuildCandidate \/ RunTask \/ PublishSummary
  BY <1>10, <1>u DEF RefuseWorkspace, BuildCandidate, RunTask, PublishSummary, Position
<1>11. CASE FinishBuild
  <2>1. /\ saved.status = "EVOLVING" /\ saved.stage = "mutated" /\ pc = "idle" /\ pc' = "idle"
        /\ charged' = charged
    BY <1>11 DEF FinishBuild, AtStage, Idle, Save
  <2>2. G' = G /\ Completed' = Completed
    BY <1>11, FinishBuildSaved, SameG
  <2> QED
    BY <1>11, <2>1, <2>2, FinishBuildSaved DEF Position, SameLedger, SamePhase, Founding, Evolving
<1>12. CASE FinishValidation
  <2>1. /\ saved.status = "EVOLVING" /\ saved.stage = "built" /\ pc = "idle" /\ pc' = "idle"
        /\ charged' = charged
    BY <1>12 DEF FinishValidation, AtStage, Idle, Save
  <2>2. G' = G /\ Completed' = Completed
    BY <1>12, FinishValidationSaved, SameG
  <2> QED
    BY <1>12, <2>1, <2>2, FinishValidationSaved
       DEF Position, SameLedger, SamePhase, Founding, Evolving
<1>13. CASE FinishTest
  <2>1. /\ saved.status = "EVOLVING" /\ saved.stage = "validated" /\ pc = "idle"
        /\ pc' = "idle" /\ charged' = charged
    BY <1>13 DEF FinishTest, AtStage, Idle, Save
  <2>2. G' = G /\ Completed' = Completed
    BY <1>13, FinishTestSaved, SameG
  <2> QED
    BY <1>13, <2>1, <2>2, FinishTestSaved DEF Position, SameLedger, SamePhase, Founding, Evolving
<1>14. CASE StartWorker
  BY <1>14, <1>u DEF StartWorker, Testable, InBaseline, AtStage, Idle, Position
<1>15. CASE WorkerEnds
  BY <1>15, <1>u DEF WorkerEnds, Position
<1>16. CASE ReadReceipt
  BY <1>16, <1>u DEF ReadReceipt, OwnWorkerGone, Position
<1>17. CASE WorkerFailed
  BY <1>17, <1>d DEF WorkerFailed, OwnWorkerGone, Position
<1>18. CASE Decide
  BY <1>18, <1>u DEF Decide, AtStage, Idle, Position
<1>19. CASE AppendLog \/ RefuseLog
  BY <1>19, <1>u DEF AppendLog, RefuseLog, Position
<1>20. CASE CommitRound
  <2>1. /\ saved.stage = "sealed" /\ saved.status = "EVOLVING" /\ G <= Budget
        /\ charged = Completed /\ saved.resume = "none" /\ pc' = "idle" /\ UNCHANGED charged
        /\ G # 0
    BY <1>20 DEF CommitRound, Position, Founding
  <2>2. /\ saved'.candidates = Append(saved.candidates, NewEntry)
        /\ saved'.incumbent = IncumbentAfter(saved) /\ saved'.stage = "none"
        /\ saved'.status \in {"EVOLVING", "CLOSING"} /\ saved'.resume = "none"
    BY <1>20, <2>1, GuardTypes, DecidedFields DEF CommitRound
  <2>3. G' = G + 1 /\ Completed' = G
    <3>1. Len(saved'.candidates) = G + 1
      BY <2>2 DEF G, Types, States
    <3> QED
      BY <3>1, <1>g DEF G, Completed
  <2>4. saved'.incumbent <= G
    BY <2>1, <2>2, <1>g DEF IncumbentAfter, Position
  <2> QED
    BY <1>20, <2>1, <2>2, <2>3, <2>4, <1>g DEF CommitRound, Position, Founding, Evolving
<1>21. CASE Close \/ Report
  <2>1. UNCHANGED <<charged, pc>> /\ pc = "idle"
    BY <1>21 DEF Close, Report, Idle, Save
  <2>2. saved'.stage # "sealed"
    BY <1>21, EndSaved DEF Position, SameRound
  <2> QED
    BY <1>21, <1>f, <2>1, <2>2, EndSaved
<1>22. CASE Settle
  <2>1. /\ UNCHANGED <<saved, pc, mutation>> /\ pc = "idle" /\ charged' = Completed
        /\ Completed = charged + 1
    BY <1>22 DEF Settle
  <2>2. G' = G /\ Completed' = Completed /\ (Founding' <=> Founding) /\ (Evolving' <=> Evolving)
    BY <2>1, UnchangedSaved DEF SamePhase
  <2>3. saved.stage = "none"
    BY <2>1, <1>g DEF Position
  <2> QED
    BY <2>1, <2>2, <2>3, <1>g DEF Position
<1>23. CASE UpdaterWorks
  BY <1>23, <1>u DEF UpdaterWorks, Position
<1>24. CASE Crash
  BY <1>24, <1>u DEF Crash, Position
<1>25. CASE InfrastructureError
  BY <1>25, <1>d DEF InfrastructureError, Building, Validating, InBaseline, AtStage, Idle, Position
<1>26. CASE UNCHANGED vars
  BY <1>26, <1>u DEF vars, Position
<1> QED
  BY <1>1, <1>2, <1>3, <1>4, <1>5, <1>6, <1>7, <1>8, <1>9, <1>10, <1>11, <1>12, <1>13, <1>14,
     <1>15, <1>16, <1>17, <1>18, <1>19, <1>20, <1>21, <1>22, <1>23, <1>24, <1>25, <1>26
     DEF Next, Work, Round

-----------------------------------------------------------------------------
(* The worktree follows the round.                                         *)
LEMMA WorkspaceStep ==
    ASSUME Types, Position, Workspace, Scores, Types', Position', [Next]_vars
    PROVE  Workspace'
<1> USE DEF artifacts, sealed
<1>g. /\ G \in Nat /\ (G <= Budget => G \in Candidates) /\ 0 \in Candidates
      /\ Candidates \subseteq Nat /\ saved.incumbent \in Nat
      /\ (G = 0 <=> Founding) /\ (Founding => ~Evolving)
      /\ (saved.stage # "none" => G \in Candidates /\ G # 0 /\ Evolving)
      /\ (InBaseline => G = 0 /\ Founding /\ ~Evolving)
  BY GuardTypes DEF Position, Founding, Evolving, Candidates, InBaseline, Idle
(* Steps that leave ledger, round and phase alone: what they may touch.    *)
<1>f. ASSUME SameLedger, SameRound, SamePhase,
             saved'.status = "CONFIG_FROZEN" => saved.status = "CONFIG_FROZEN",
             UNCHANGED <<git, mutation, build, summary>>,
             Founding /\ saved'.status # "CONFIG_FROZEN" => git.head = 0,
             pc' \in {"decided", "logged"} => pc \in {"decided", "logged"}
      PROVE  Workspace'
  <2>1. G' = G
    BY <1>f, SameG
  <2>2. IncumbentAfter(saved)' = IncumbentAfter(saved)
    BY <1>f, <2>1 DEF IncumbentAfter, Promoted, IncumbentScore, SameLedger, SameRound
  <2> QED
    BY <1>f, <2>1, <2>2 DEF Workspace, SameLedger, SameRound, SamePhase, AtIncumbent,
                            MutationVerified
<1>u. ASSUME UNCHANGED <<saved, git, mutation, build, summary>>,
             pc' \in {"decided", "logged"} => pc \in {"decided", "logged"}
      PROVE  Workspace'
  BY <1>u, <1>f, UnchangedSaved DEF Workspace
<1>d. ASSUME Pause, saved.status \in {"BASELINE_FROZEN", "EVOLVING"}, UNCHANGED git
      PROVE  Workspace'
  BY <1>d, <1>f, PauseSaved DEF Pause, Workspace
<1>1. CASE Boot
  <2>1. /\ UNCHANGED <<git, mutation, build, summary>> /\ pc' = "idle"
        /\ saved'.status = "CONFIG_FROZEN" => saved.status = "CONFIG_FROZEN"
        /\ Founding /\ saved'.status # "CONFIG_FROZEN" => git.head = 0
    BY <1>1, BootSaved DEF Boot, Position, Workspace, Types, States
  <2> QED
    BY <1>1, <2>1, <1>f, BootSaved
<1>2. CASE Clone \/ Checkout
  <2>1. /\ UNCHANGED <<saved, mutation, build, summary>> /\ saved.status = "CONFIG_FROZEN"
        /\ git'.head = 0 /\ pc' \in {"checkout", "idle"}
    BY <1>2 DEF Clone, Checkout, Idle, Position, Reset, Founding
  <2>2. /\ Founding /\ build[0] # "ok" /\ saved.stage = "none" /\ ~Evolving
    BY <2>1, <1>g DEF Founding, Workspace
  <2>3. UNCHANGED <<G, Founding, Evolving>>
    BY <2>1 DEF G, Founding, Evolving
  <2> QED
    BY <2>1, <2>2, <2>3 DEF Workspace
<1>3. CASE FreezeBaseline
  <2>1. git.head = 0 /\ UNCHANGED <<git, mutation, build, summary, pc>>
    BY <1>3 DEF FreezeBaseline, Idle, Workspace, Founding
  <2> QED
    BY <1>3, <2>1, <1>f, FreezeSaved
<1>4. CASE FailBaselineBuild \/ WorkerFailed
  BY <1>4, <1>d DEF FailBaselineBuild, WorkerFailed, OwnWorkerGone, InBaseline, Idle, Position
<1>5. CASE RecordBaseline
  <2>1. /\ saved' = BaselineRecorded /\ pc' = "idle" /\ saved.status = "BASELINE_FROZEN"
        /\ UNCHANGED <<git, mutation, build, summary>> /\ summary[0] # NoScore
    <3>1. InBaseline /\ summary[G] # NoScore
      BY <1>5 DEF RecordBaseline, Testable, AtStage, InBaseline, Idle
    <3> QED
      BY <1>5, <1>g, <3>1, BaselineFields DEF RecordBaseline, BaselineRecorded, InBaseline, Idle
  <2>2. /\ saved'.status = "EVOLVING" /\ saved'.resume = "none" /\ saved'.incumbent = 0
        /\ saved'.stage = "none" /\ Founding /\ G = 0
    <3>1. Founding /\ saved.resume = "none"
      BY <2>1 DEF Founding, Position
    <3> QED
      BY <2>1, <3>1, <1>g, BaselineFields DEF Position
  <2>3. G' = 1 /\ ~Founding' /\ Evolving'
    BY <2>1, <2>2, BaselineFields DEF G, Founding, Evolving
  <2>4. git.head = 0 /\ git.clean
    BY <2>1, <2>2 DEF Workspace, Scores
  <2>5. \A c \in Candidates : c >= 1 => mutation[c] = "none" /\ summary[c] = NoScore
    BY <2>2, <1>g DEF Workspace
  <2> QED
    BY <2>1, <2>2, <2>3, <2>4, <2>5, <1>g DEF Workspace, AtIncumbent
<1>6. CASE StartRound
  <2>1. /\ saved.stage = "none" /\ saved.status = "EVOLVING"
        /\ UNCHANGED <<git, mutation, build, summary, pc>> /\ pc = "idle"
    BY <1>6 DEF StartRound, Save, AtStage, Idle
  <2>2. /\ G' = G /\ (Founding' <=> Founding) /\ ~Founding /\ saved'.status = "EVOLVING"
        /\ saved'.stage = "started" /\ G \in Candidates
    BY <1>6, <1>g, <2>1, StartRoundSaved, SameG DEF SamePhase, Founding, Evolving, Position
  <2>3. mutation[G] = "none" /\ summary[G] = NoScore
    BY <2>1, <2>2 DEF Workspace, Evolving
  <2> QED
    BY <1>6, <2>1, <2>2, <2>3 DEF Workspace
<1>7. CASE PrepareMutation \/ RefuseWorkspace \/ RunTask \/ StartWorker \/ WorkerEnds
  BY <1>7, <1>u DEF PrepareMutation, RefuseWorkspace, RunTask, StartWorker, WorkerEnds
<1>8. CASE ReadReceipt \/ AppendLog \/ RefuseLog \/ Settle \/ Crash
  BY <1>8, <1>u DEF ReadReceipt, AppendLog, RefuseLog, Settle, Crash
<1>9. CASE InspectMutation \/ UpdaterFails \/ UpdaterStops
  <2>1. /\ saved.status = "EVOLVING" /\ saved.stage = "started" /\ pc' = "idle"
        /\ UNCHANGED <<saved, build, summary>> /\ G \in Candidates
    BY <1>9, <1>g DEF InspectMutation, UpdaterFails, UpdaterStops, WriteMutation, Position
  <2>2. PICK r \in {"completed", "failed", "stopped"} :
          /\ mutation' = [mutation EXCEPT ![G] = r]
          /\ git'.clean /\ git'.head = IF r = "completed" THEN G ELSE saved.incumbent
    BY <1>9 DEF InspectMutation, UpdaterFails, UpdaterStops, WriteMutation, AtIncumbent, Rejected,
                Reset
  <2>3. UNCHANGED <<G, Founding, Evolving>> /\ ~Founding
    BY <1>g, <2>1 DEF G, Founding, Evolving
  <2>4. mutation'[G] = r /\ \A c \in Candidates \ {G} : mutation'[c] = mutation[c]
    BY <2>1, <2>2 DEF Types
  <2> QED
    BY <1>g, <2>1, <2>2, <2>3, <2>4 DEF Workspace, MutationVerified
<1>10. CASE UpdaterWorks
  <2>1. /\ saved.status = "EVOLVING" /\ saved.stage = "started" /\ mutation[G] = "none"
        /\ UNCHANGED <<saved, mutation, build, summary, pc>> /\ pc = "updating"
    BY <1>10 DEF UpdaterWorks, Position
  <2>2. UNCHANGED <<G, Founding, Evolving>> /\ ~Founding
    BY <1>g, <2>1 DEF G, Founding, Evolving
  <2> QED
    BY <2>1, <2>2 DEF Workspace
<1>11. CASE FinishMutation
  <2>1. /\ saved.stage = "started" /\ saved.status = "EVOLVING" /\ mutation[G] # "none"
        /\ UNCHANGED <<git, mutation, build, summary, pc>> /\ pc = "idle"
    BY <1>11 DEF FinishMutation, Save, AtStage, Idle
  <2>2. /\ SameLedger /\ G' = G /\ ~Founding /\ saved'.resume = "none"
        /\ \/ saved'.status = "CLOSING" /\ saved'.stage = "none"
           \/ saved'.status = "EVOLVING" /\ saved'.stage = "mutated"
    BY <1>11, <1>g, <2>1, FinishMutationSaved, SameG DEF Position
  <2>3. ~Founding' /\ (Evolving' => saved'.stage = "mutated")
    BY <2>2 DEF Founding, Evolving
  <2>4. git.clean /\ MutationVerified' /\ summary[G] = NoScore
    BY <2>1, <2>2 DEF Workspace, MutationVerified, SameLedger
  <2>5. \A c \in Candidates : c > G => mutation[c] = "none" /\ summary[c] = NoScore
    BY DEF Workspace
  <2> QED
    BY <2>1, <2>2, <2>3, <2>4, <2>5 DEF Workspace
<1>12. CASE BuildCandidate
  <2>1. /\ UNCHANGED <<saved, git, mutation, summary, pc>> /\ pc = "idle"
        /\ UNCHANGED <<G, Founding, Evolving>>
        /\ InBaseline \/ (saved.status = "EVOLVING" /\ saved.stage = "mutated")
    BY <1>12 DEF BuildCandidate, Building, AtStage, Idle, InBaseline, G, Founding, Evolving
  <2>2. PICK r \in {"ok", "failed"} : /\ InBaseline => (r = "ok") = git.clean
                                      /\ build' = [build EXCEPT ![G] = r]
    BY <1>12 DEF BuildCandidate
  <2>3. saved.status # "CONFIG_FROZEN"
    BY <2>1 DEF InBaseline, Idle
  <2>4. Founding /\ build'[0] = "ok" => git.clean
    <3>1. CASE InBaseline
      <4>1. build'[0] = r
        BY <3>1, <2>2, <1>g DEF Types
      <4>2. (r = "ok") = git.clean
        BY <3>1, <2>2
      <4> QED
        BY <4>1, <4>2
    <3>2. CASE saved.stage = "mutated"
      BY <3>2, <1>g
    <3> QED
      BY <2>1, <3>1, <3>2
  <2> QED
    BY <2>1, <2>3, <2>4 DEF Workspace, AtIncumbent, MutationVerified, IncumbentAfter
<1>13. CASE PublishSummary
  <2>1. /\ UNCHANGED <<saved, git, mutation, build, pc>> /\ pc = "idle"
        /\ UNCHANGED <<G, Founding, Evolving>> /\ summary' = [summary EXCEPT ![G] = Score(G)]
        /\ InBaseline \/ (saved.status = "EVOLVING" /\ saved.stage = "built")
    BY <1>13 DEF PublishSummary, Validating, AtStage, Idle, InBaseline, G, Founding, Evolving
  <2>2. saved.status # "CONFIG_FROZEN" /\ G \in Candidates
    BY <1>g, <2>1 DEF InBaseline, Idle
  <2>3. \A c \in Candidates \ {G} : summary'[c] = summary[c]
    BY <2>1 DEF Types
  <2>4. saved.stage = "none" => ~Evolving
    BY <1>g, <2>1
  <2>5. saved.stage \notin {"started", "mutated"}
    BY <1>g, <2>1
  <2> QED
    BY <1>g, <2>1, <2>2, <2>3, <2>4, <2>5
       DEF Workspace, AtIncumbent, MutationVerified, IncumbentAfter
<1>14. CASE FinishBuild
  <2>1. /\ saved.stage = "mutated" /\ saved.status = "EVOLVING"
        /\ UNCHANGED <<git, mutation, build, summary, pc>> /\ pc = "idle"
    BY <1>14 DEF FinishBuild, Save, AtStage, Idle
  <2>2. G' = G /\ SameLedger /\ SamePhase /\ saved'.stage = "built" /\ saved'.status = "EVOLVING"
    BY <1>14, <2>1, FinishBuildSaved, SameG
  <2> QED
    BY <1>g, <2>1, <2>2 DEF Workspace, MutationVerified, SameLedger, SamePhase
<1>15. CASE FinishValidation
  <2>1. /\ saved.stage = "built" /\ saved.status = "EVOLVING"
        /\ UNCHANGED <<git, mutation, build, summary, pc>> /\ pc = "idle"
    BY <1>15 DEF FinishValidation, Save, AtStage, Idle
  <2>2. /\ G' = G /\ SameLedger /\ SamePhase /\ saved'.stage = "validated"
        /\ saved'.status = "EVOLVING"
    BY <1>15, <2>1, FinishValidationSaved, SameG
  <2> QED
    BY <1>g, <2>1, <2>2 DEF Workspace, MutationVerified, SameLedger, SamePhase
<1>16. CASE FinishTest
  <2>1. /\ saved.stage = "validated" /\ saved.status = "EVOLVING"
        /\ UNCHANGED <<git, mutation, build, summary, pc>> /\ pc = "idle"
    BY <1>16 DEF FinishTest, Save, AtStage, Idle
  <2>2. G' = G /\ SameLedger /\ SamePhase /\ saved'.stage = "sealed" /\ saved'.status = "EVOLVING"
    BY <1>16, <2>1, FinishTestSaved, SameG
  <2> QED
    BY <1>g, <2>1, <2>2 DEF Workspace, SameLedger, SamePhase
<1>17. CASE Decide
  <2>1. /\ saved.stage = "sealed" /\ saved.status = "EVOLVING"
        /\ UNCHANGED <<saved, mutation, build, summary>> /\ git.clean
    BY <1>17 DEF Decide, AtStage, Idle, Workspace
  <2>2. git'.clean /\ git'.head = IncumbentAfter(saved)
    BY <1>17, <2>1 DEF Decide, Rejected, Reset, IncumbentAfter
  <2>3. UNCHANGED <<G, Founding, Evolving, IncumbentAfter(saved)>>
    BY <2>1 DEF G, Founding, Evolving, IncumbentAfter, Promoted, IncumbentScore
  <2> QED
    BY <1>g, <2>1, <2>2, <2>3 DEF Workspace
<1>18. CASE CommitRound
  <2>1. /\ saved.stage = "sealed" /\ saved.status = "EVOLVING" /\ pc' = "idle" /\ git.clean
        /\ UNCHANGED <<git, mutation, build, summary>> /\ G \in Candidates
        /\ saved.resume = "none" /\ git.head = IncumbentAfter(saved)
    BY <1>18, <1>g DEF CommitRound, Position, Workspace
  <2>2. /\ saved'.candidates = Append(saved.candidates, NewEntry)
        /\ saved'.incumbent = IncumbentAfter(saved) /\ saved'.stage = "none"
        /\ saved'.status \in {"EVOLVING", "CLOSING"} /\ saved'.resume = "none"
    BY <1>18, <2>1, DecidedFields DEF CommitRound
  <2>3. G' = G + 1 /\ ~Founding'
    <3>1. Len(saved'.candidates) = G + 1
      BY <2>2 DEF G, Types, States
    <3> QED
      BY <2>2, <3>1 DEF G, Founding
  <2>4. \A c \in Candidates : c > G => mutation[c] = "none" /\ summary[c] = NoScore
    BY DEF Workspace
  <2> QED
    BY <1>g, <2>1, <2>2, <2>3, <2>4 DEF Workspace, AtIncumbent
<1>19. CASE Close \/ Report
  <2>1. /\ UNCHANGED <<git, mutation, build, summary, pc>> /\ pc = "idle" /\ ~Founding
    BY <1>19, EndSaved DEF Close, Report, Idle, Save, Founding, Position
  <2> QED
    BY <1>19, <2>1, <1>f, EndSaved
<1>20. CASE InfrastructureError
  <2>0. Pause /\ saved.status \in {"BASELINE_FROZEN", "EVOLVING"}
    BY <1>20 DEF InfrastructureError, Building, Validating, InBaseline, AtStage, Idle, Position
  <2>1. CASE UNCHANGED git
    BY <2>0, <2>1, <1>d
  <2>2. CASE pc = "updating" /\ Reset
    <3>1. /\ saved.status = "EVOLVING" /\ saved.stage = "started" /\ mutation[G] = "none"
          /\ UNCHANGED <<mutation, build, summary>> /\ pc' = "down"
      BY <2>0, <2>2 DEF Position, Pause
    <3>2. /\ SameLedger /\ SameRound /\ SamePhase /\ G' = G /\ saved'.status = "PAUSED"
      BY <2>0, PauseSaved, SameG
    <3> QED
      BY <1>g, <3>1, <3>2 DEF Workspace, SameLedger, SameRound, SamePhase
  <2> QED
    BY <1>20, <2>1, <2>2 DEF InfrastructureError
<1>21. CASE UNCHANGED vars
  BY <1>21, <1>u DEF vars
<1> QED
  BY <1>1, <1>2, <1>3, <1>4, <1>5, <1>6, <1>7, <1>8, <1>9, <1>10, <1>11, <1>12, <1>13, <1>14,
     <1>15, <1>16, <1>17, <1>18, <1>19, <1>20, <1>21 DEF Next, Work, Round

-----------------------------------------------------------------------------
(* Scores, summaries and sealed receipts                                   *)

ScoreInv == Scores /\ SealedOnce /\ ScoresAreComplete

(* The ledger part for a ledger that stays: no summary disappears, receipts*)
(* only replace zeros, and checkpoints of recorded candidates stay.        *)
LEMMA LedgerFrame ==
    ASSUME Types, Position, SealedOnce, ScoresAreComplete, SameLedger,
           \A c \in Candidates : /\ summary[c] # NoScore => summary'[c] # NoScore
                                 /\ receipt[c] # 0 => receipt'[c] = receipt[c]
                                 /\ c < G => records'[c] = records[c]
    PROVE  SealedOnce' /\ ScoresAreComplete'
<1>1. /\ G' = G /\ G \in Nat /\ DOMAIN saved.candidates = 1 .. G
      /\ DOMAIN saved'.candidates = 1 .. G /\ saved'.candidates = saved.candidates
  BY SameG, GuardTypes DEF SameLedger, G, Types, States
<1>2. \A i \in 1 .. G : i - 1 \in Candidates /\ i - 1 < G
  <2>1. G <= Budget + 1 /\ Budget \in Nat
    BY GuardTypes DEF Position
  <2> QED
    BY <1>1, <2>1 DEF Candidates
<1>3. SealedOnce'
  <2> SUFFICES ASSUME NEW i \in 1 .. G
               PROVE  /\ summary'[i - 1] # NoScore
                      /\ saved.candidates[i].receipt \in {0, receipt'[i - 1]}
    BY <1>1 DEF SealedOnce, ReportAccepted
  <2>1. /\ summary[i - 1] # NoScore /\ i - 1 \in Candidates
        /\ saved.candidates[i].receipt \in {0, receipt[i - 1]}
    BY <1>1, <1>2 DEF SealedOnce, ReportAccepted
  <2> QED
    BY <2>1
<1>4. ScoresAreComplete'
  <2> SUFFICES ASSUME NEW i \in 1 .. G
               PROVE  /\ saved.candidates[i].score = Score(i - 1)'
                      /\ saved.candidates[i].outcome = "completed" => Remaining(i - 1)' = {}
    BY <1>1 DEF ScoresAreComplete
  <2>1. Score(i - 1)' = Score(i - 1) /\ Remaining(i - 1)' = Remaining(i - 1)
    BY <1>2, ScoreFrame
  <2> QED
    BY <2>1 DEF ScoresAreComplete
<1> QED
  BY <1>3, <1>4

LEMMA ScoreFrameAll ==
    ASSUME UNCHANGED records
    PROVE  \A c : Score(c)' = Score(c) /\ Remaining(c)' = Remaining(c)
  BY DEF Score, Remaining

LEMMA ScoreStep ==
    ASSUME Types, Position, Workspace, ScoreInv, Types', Position', [Next]_vars
    PROVE  ScoreInv'
<1> USE DEF artifacts, sealed
<1>g. /\ G \in Nat /\ (G <= Budget => G \in Candidates) /\ 0 \in Candidates
      /\ (G = 0 <=> Founding) /\ (Founding => ~Evolving)
      /\ (saved.stage # "none" => G \in Candidates /\ G # 0 /\ Evolving)
      /\ (InBaseline => G = 0 /\ Founding /\ ~Evolving /\ saved.stage = "none")
  BY GuardTypes DEF Position, Founding, Evolving, Candidates, InBaseline, Idle
<1>i. Scores /\ SealedOnce /\ ScoresAreComplete
  BY DEF ScoreInv
<1>f. ASSUME SameLedger, SameRound, SamePhase, UNCHANGED <<build, records, summary, receipt>>
      PROVE  ScoreInv'
  <2>1. G' = G /\ SealedOnce' /\ ScoresAreComplete'
    BY <1>f, <1>i, SameG, LedgerFrame
  <2>2. Scores'
    BY <1>f, <1>i, <2>1, ScoreFrameAll DEF Scores, SameRound, SamePhase
  <2> QED
    BY <2>1, <2>2 DEF ScoreInv
<1>u. ASSUME UNCHANGED <<saved, build, records, summary, receipt>> PROVE ScoreInv'
  BY <1>u, <1>f, UnchangedSaved
<1>l. ASSUME SameLedger, UNCHANGED <<build, records, summary, receipt>>
      PROVE  G' = G /\ SealedOnce' /\ ScoresAreComplete'
  BY <1>l, <1>i, SameG, LedgerFrame
<1>1. CASE Boot \/ FreezeBaseline
  BY <1>1, <1>f, BootSaved, FreezeSaved DEF Boot, FreezeBaseline
<1>2. CASE FailBaselineBuild \/ WorkerFailed \/ InfrastructureError
  <2>1. Pause /\ saved.status \in {"BASELINE_FROZEN", "EVOLVING"}
    BY <1>2 DEF FailBaselineBuild, WorkerFailed, InfrastructureError, OwnWorkerGone, Building,
                Validating, InBaseline, AtStage, Idle, Position
  <2> QED
    BY <2>1, <1>f, PauseSaved DEF Pause
<1>3. CASE Clone \/ Checkout \/ PrepareMutation \/ InspectMutation \/ UpdaterFails \/ UpdaterStops
  BY <1>3, <1>u DEF Clone, Checkout, PrepareMutation, InspectMutation, UpdaterFails, UpdaterStops,
                    WriteMutation
<1>4. CASE RefuseWorkspace \/ StartWorker \/ ReadReceipt \/ Decide \/ AppendLog \/ RefuseLog
  BY <1>4, <1>u DEF RefuseWorkspace, StartWorker, ReadReceipt, Decide, AppendLog, RefuseLog
<1>5. CASE Settle \/ UpdaterWorks \/ Crash \/ UNCHANGED vars
  BY <1>5, <1>u DEF Settle, UpdaterWorks, Crash, vars
<1>6. CASE StartRound
  <2>1. /\ SameLedger /\ SamePhase /\ saved'.stage = "started" /\ saved'.receipt = 0
        /\ UNCHANGED <<build, records, summary, receipt>>
    BY <1>6, StartRoundSaved DEF StartRound, Save
  <2>2. G' = G /\ SealedOnce' /\ ScoresAreComplete'
    BY <2>1, <1>l
  <2> QED
    BY <1>i, <2>1, <2>2, ScoreFrameAll DEF ScoreInv, Scores, SamePhase
<1>7. CASE FinishMutation
  <2>1. /\ SameLedger /\ UNCHANGED <<build, records, summary, receipt>>
        /\ saved.stage = "started" /\ saved'.receipt = saved.receipt
        /\ saved'.stage \in {"none", "mutated"}
        /\ saved'.stage = "mutated" => saved'.outcome \in {"completed", "failed"}
        /\ saved.status = "EVOLVING" /\ saved'.resume = saved.resume /\ saved.resume = "none"
        /\ saved'.status \in {"EVOLVING", "CLOSING"}
    <3>1. saved.stage = "started" /\ saved.status = "EVOLVING" /\ mutation[G] # "none"
          /\ UNCHANGED <<build, records, summary, receipt>>
      BY <1>7 DEF FinishMutation, Save, AtStage, Idle
    <3>2. mutation[G] \in {"completed", "failed", "stopped"}
      BY <3>1, <1>g DEF Types
    <3> QED
      BY <1>7, <3>1, <3>2, FinishMutationSaved DEF Position
  <2>2. G' = G /\ SealedOnce' /\ ScoresAreComplete'
    BY <2>1, <1>l
  <2>3. ~Founding'
    BY <2>1 DEF Founding
  <2> QED
    BY <1>i, <2>1, <2>2, <2>3, ScoreFrameAll DEF ScoreInv, Scores
<1>8. CASE BuildCandidate
  <2>1. /\ UNCHANGED <<saved, records, summary, receipt>>
        /\ Building /\ G \in Candidates
        /\ \E r \in {"ok", "failed"} : build' = [build EXCEPT ![G] = r]
    BY <1>8, <1>g DEF BuildCandidate, Building, AtStage, Idle
  <2>2. Founding => build[0] = "none" \/ build'[0] = build[0]
    BY <2>1, <1>g DEF Building, Types
  <2>3. G' = G /\ SealedOnce' /\ ScoresAreComplete' /\ SamePhase /\ SameRound
    BY <2>1, <1>i, UnchangedSaved, SameG, LedgerFrame
  <2> QED
    BY <1>i, <2>1, <2>2, <2>3, ScoreFrameAll DEF ScoreInv, Scores, SamePhase, SameRound
<1>9. CASE FinishBuild
  <2>1. /\ SameLedger /\ SamePhase /\ UNCHANGED <<build, records, summary, receipt>>
        /\ saved.stage = "mutated" /\ saved'.receipt = saved.receipt
        /\ saved'.stage = "built" /\ saved'.outcome \in {saved.outcome, "failed"}
    BY <1>9, FinishBuildSaved DEF FinishBuild, Save, AtStage, Idle
  <2>2. G' = G /\ SealedOnce' /\ ScoresAreComplete'
    BY <2>1, <1>l
  <2>3. summary[G] = NoScore
    BY <2>1 DEF Workspace
  <2> QED
    BY <1>i, <2>1, <2>2, <2>3, ScoreFrameAll DEF ScoreInv, Scores, SamePhase
<1>10. CASE RunTask
  <2>1. /\ UNCHANGED <<saved, build, summary, receipt>> /\ summary[G] = NoScore
        /\ G \in Candidates
    BY <1>10, <1>g DEF RunTask, Validating, AtStage, Idle
  <2>2. \A c \in Candidates \ {G} : records'[c] = records[c]
    BY <1>10 DEF RunTask, Types
  <2>3. G' = G /\ SealedOnce' /\ ScoresAreComplete' /\ SamePhase /\ SameRound
    <3>1. SameLedger /\ SamePhase /\ SameRound /\ G' = G
      BY <2>1, UnchangedSaved
    <3>2. \A c \in Candidates : c < G => records'[c] = records[c]
      BY <2>2, <1>g DEF Candidates
    <3> QED
      BY <2>1, <3>1, <3>2, <1>i, LedgerFrame
  <2>4. \A c \in Candidates \ {G} : Score(c)' = Score(c) /\ Remaining(c)' = Remaining(c)
    BY <2>2, ScoreFrame
  <2> QED
    BY <1>g, <1>i, <2>1, <2>3, <2>4 DEF ScoreInv, Scores, SamePhase, SameRound
<1>11. CASE PublishSummary
  <2>1. /\ UNCHANGED <<saved, build, records, receipt>> /\ summary[G] = NoScore
        /\ summary' = [summary EXCEPT ![G] = Score(G)] /\ G \in Candidates
        /\ saved.outcome = "failed" \/ Remaining(G) = {}
        /\ (InBaseline /\ build[0] = "ok") \/ saved.stage = "built"
    BY <1>11, <1>g DEF PublishSummary, Validating, Validated, AtStage, Idle
  <2>2. /\ summary'[G] = Score(G) /\ Score(G) # NoScore
        /\ \A c \in Candidates \ {G} : summary'[c] = summary[c]
    BY <2>1, ScoreType DEF Types
  <2>3. G' = G /\ SealedOnce' /\ ScoresAreComplete' /\ SamePhase /\ SameRound
    BY <2>1, <2>2, <1>g, <1>i, UnchangedSaved, SameG, LedgerFrame
  <2>4. Founding => InBaseline /\ saved.outcome = "none"
    BY <2>1, <1>g DEF Position
  <2>5. /\ \A c \in Candidates : summary'[c] # NoScore => summary'[c] = Score(c)
        /\ Founding => Remaining(0) = {} /\ build[0] = "ok"
        /\ saved.stage \notin {"validated", "sealed"}
    BY <1>g, <1>i, <2>1, <2>2, <2>4 DEF Scores
  <2> QED
    BY <1>g, <1>i, <2>1, <2>3, <2>5, ScoreFrameAll DEF ScoreInv, Scores, SamePhase, SameRound
<1>12. CASE FinishValidation
  <2>1. /\ SameLedger /\ SamePhase /\ UNCHANGED <<build, records, summary, receipt>>
        /\ saved.stage = "built" /\ saved'.receipt = saved.receipt
        /\ saved'.stage = "validated" /\ saved'.outcome = saved.outcome
        /\ saved'.score = summary[G] /\ summary[G] # NoScore
    BY <1>12, FinishValidationSaved DEF FinishValidation, Save, AtStage, Idle
  <2>2. G' = G /\ SealedOnce' /\ ScoresAreComplete'
    BY <2>1, <1>l
  <2> QED
    BY <1>i, <2>1, <2>2, ScoreFrameAll DEF ScoreInv, Scores, SamePhase
<1>13. CASE WorkerEnds
  <2>1. PICK w \in workers : /\ receipt' = Published(w)
                             /\ UNCHANGED <<saved, build, records, summary>>
    BY <1>13 DEF WorkerEnds
  <2>2. \A c \in Candidates : receipt[c] # 0 => receipt'[c] = receipt[c]
    BY <2>1 DEF Published, Types
  <2>3. G' = G /\ SealedOnce' /\ ScoresAreComplete' /\ SamePhase /\ SameRound
    BY <2>1, <2>2, <1>i, UnchangedSaved, SameG, LedgerFrame
  <2>4. saved.stage # "none" => saved.receipt \in {0, receipt'[G]}
    BY <1>g, <1>i, <2>2 DEF Scores
  <2> QED
    BY <1>i, <2>1, <2>3, <2>4, ScoreFrameAll DEF ScoreInv, Scores, SamePhase, SameRound
<1>14. CASE FinishTest
  <2>1. /\ SameLedger /\ SamePhase /\ UNCHANGED <<build, records, summary, receipt>>
        /\ saved.stage = "validated" /\ saved'.receipt \in {saved.receipt, receipt[G]}
        /\ saved'.stage = "sealed" /\ saved'.outcome = saved.outcome
        /\ saved'.score = saved.score
    BY <1>14, FinishTestSaved DEF FinishTest, Save, AtStage, Idle
  <2>2. G' = G /\ SealedOnce' /\ ScoresAreComplete'
    BY <2>1, <1>l
  <2> QED
    BY <1>i, <2>1, <2>2, ScoreFrameAll DEF ScoreInv, Scores, SamePhase
<1>15. CASE RecordBaseline
  <2>1. /\ saved' = BaselineRecorded /\ UNCHANGED <<build, records, summary, receipt>>
        /\ InBaseline /\ summary[0] # NoScore
    <3>1. InBaseline /\ summary[G] # NoScore
      BY <1>15 DEF RecordBaseline, Testable, AtStage, InBaseline, Idle
    <3> QED
      BY <1>15, <1>g, <3>1, BaselineFields DEF RecordBaseline, BaselineRecorded
  <2>2. /\ saved'.candidates = <<BaselineEntry>> /\ saved'.stage = "none"
        /\ saved'.status = "EVOLVING" /\ saved'.resume = "none"
    <3>1. saved.resume = "none"
      BY <2>1 DEF InBaseline, Idle, Position
    <3> QED
      BY <2>1, <1>g, <3>1, BaselineFields
  <2>3. /\ BaselineEntry.score = summary[0] /\ BaselineEntry.receipt = receipt[0]
        /\ summary[0] = Score(0) /\ Remaining(0) = {}
    BY <1>g, <1>i, <2>1 DEF BaselineEntry, Scores
  <2>4. /\ G' = 1 /\ DOMAIN saved'.candidates = {1} /\ saved'.candidates[1] = BaselineEntry
        /\ 1 - 1 = 0
    BY <2>2 DEF G
  <2>5. SealedOnce'
    BY <2>1, <2>3, <2>4 DEF SealedOnce, ReportAccepted
  <2>6. ScoresAreComplete'
    <3>1. Score(0)' = Score(0) /\ Remaining(0)' = Remaining(0)
      BY <2>1, ScoreFrameAll
    <3> SUFFICES ASSUME NEW i \in 1 .. 1
                 PROVE  /\ saved'.candidates[i].score = Score(i - 1)'
                        /\ Remaining(i - 1)' = {}
      BY <2>4 DEF ScoresAreComplete
    <3>2. i = 1 /\ i - 1 = 0
      OBVIOUS
    <3> QED
      BY <2>3, <2>4, <3>1, <3>2
  <2>7. Scores'
    <3>1. ~Founding' /\ saved'.stage = "none"
      BY <2>2 DEF Founding
    <3> QED
      BY <1>i, <2>1, <3>1, ScoreFrameAll DEF Scores
  <2> QED
    BY <2>5, <2>6, <2>7 DEF ScoreInv
<1>16. CASE CommitRound
  <2>1. /\ saved.stage = "sealed" /\ saved.status = "EVOLVING" /\ G \in Candidates
        /\ UNCHANGED <<build, records, summary, receipt>> /\ saved.resume = "none"
    BY <1>16, <1>g DEF CommitRound, Position
  <2>2. /\ saved'.candidates = Append(saved.candidates, NewEntry) /\ saved'.stage = "none"
        /\ saved'.status \in {"EVOLVING", "CLOSING"} /\ saved'.resume = "none"
    BY <1>16, <2>1, DecidedFields DEF CommitRound
  <2>3. /\ G' = G + 1 /\ DOMAIN saved'.candidates = 1 .. (G + 1)
        /\ saved'.candidates[G + 1] = NewEntry
        /\ \A i \in 1 .. G : saved'.candidates[i] = saved.candidates[i]
        /\ DOMAIN saved.candidates = 1 .. G
    BY <2>2 DEF G, Types, States
  <2>4. /\ NewEntry.score = Score(G) /\ NewEntry.receipt \in {0, receipt[G]}
        /\ (NewEntry.outcome = "completed" => Remaining(G) = {}) /\ summary[G] # NoScore
    BY <1>i, <2>1, EntryFields DEF Scores
  <2>5. SealedOnce'
    <3> SUFFICES ASSUME NEW i \in 1 .. (G + 1)
                 PROVE  /\ summary[i - 1] # NoScore
                        /\ saved'.candidates[i].receipt \in {0, receipt[i - 1]}
      BY <2>1, <2>3 DEF SealedOnce, ReportAccepted
    <3>1. CASE i \in 1 .. G
      BY <3>1, <1>i, <2>3 DEF SealedOnce, ReportAccepted
    <3>2. CASE i = G + 1
      <4>1. i - 1 = G
        BY <3>2, <1>g
      <4> QED
        BY <3>2, <4>1, <2>3, <2>4
    <3> QED
      BY <1>g, <3>1, <3>2
  <2>6. ScoresAreComplete'
    <3> SUFFICES ASSUME NEW i \in 1 .. (G + 1)
                 PROVE  /\ saved'.candidates[i].score = Score(i - 1)'
                        /\ saved'.candidates[i].outcome = "completed" => Remaining(i - 1)' = {}
      BY <2>3 DEF ScoresAreComplete
    <3>1. Score(i - 1)' = Score(i - 1) /\ Remaining(i - 1)' = Remaining(i - 1)
      BY <2>1, ScoreFrameAll
    <3>2. CASE i \in 1 .. G
      BY <3>1, <3>2, <1>i, <2>3 DEF ScoresAreComplete
    <3>3. CASE i = G + 1
      <4>1. i - 1 = G
        BY <3>3, <1>g
      <4> QED
        BY <3>1, <3>3, <4>1, <2>3, <2>4
    <3> QED
      BY <1>g, <3>2, <3>3
  <2>7. Scores'
    <3>1. ~Founding' /\ saved'.stage = "none"
      BY <2>2 DEF Founding
    <3> QED
      BY <1>i, <2>1, <3>1, ScoreFrameAll DEF Scores
  <2> QED
    BY <2>5, <2>6, <2>7 DEF ScoreInv
<1>17. CASE Close \/ Report
  BY <1>17, <1>f, EndSaved DEF Close, Report, Save
<1> QED
  BY <1>1, <1>2, <1>3, <1>4, <1>5, <1>6, <1>7, <1>8, <1>9, <1>10, <1>11, <1>12, <1>13, <1>14,
     <1>15, <1>16, <1>17 DEF Next, Work, Round

-----------------------------------------------------------------------------
(* The evolution log                                                       *)

LogInv == LogFollowsState /\ LogAhead

(* A decision stands while the round it was taken for is sealed.           *)
LEMMA SamePromoted ==
    ASSUME SameLedger, SameRound
    PROVE  Promoted(saved)' <=> Promoted(saved)
  BY DEF SameLedger, SameRound, Promoted, IncumbentScore

LEMMA LogFrame ==
    ASSUME Types, Position, LogInv, SameLedger, UNCHANGED log,
           SameRound \/ saved.stage # "sealed",
           saved.stage = "sealed" => saved'.stage = "sealed",
           pc' \in {"decided", "logged"} => saved'.stage = "sealed",
           pc' = "logged" => pc = "logged"
    PROVE  LogInv'
<1>g. Completed \in Nat
  BY GuardTypes
<1>1. Completed' = Completed /\ saved'.candidates = saved.candidates
  BY SameG DEF SameLedger
<1>2. LogAhead'
  BY <1>1 DEF LogInv, LogAhead
<1>3. Len(log) \in {Completed, Completed + 1}
  BY DEF LogInv, LogFollowsState
<1>4. ASSUME NEW i \in DOMAIN log
      PROVE  /\ log[i].candidate = i
             /\ log[i].promoted = IF i > Completed THEN Promoted(saved)'
                                  ELSE saved.candidates[i + 1].decision = "promoted"
  <2>1. /\ log[i].candidate = i
        /\ log[i].promoted = IF i > Completed THEN Promoted(saved)
                             ELSE saved.candidates[i + 1].decision = "promoted"
    BY DEF LogInv, LogFollowsState
  <2>2. CASE i > Completed
    <3>1. Len(log) = Completed + 1
      BY <1>3, <1>g, <2>2 DEF Types
    <3>2. Promoted(saved)' <=> Promoted(saved)
      BY <3>1, SamePromoted DEF LogInv, LogAhead
    <3>3. Promoted(saved)' \in BOOLEAN /\ Promoted(saved) \in BOOLEAN
      BY DEF Promoted
    <3> QED
      BY <2>1, <2>2, <3>2, <3>3
  <2>3. CASE ~(i > Completed)
    BY <2>1, <2>3
  <2> QED
    BY <2>2, <2>3
<1> QED
  BY <1>1, <1>2, <1>3, <1>4 DEF LogInv, LogFollowsState

LEMMA LogStep ==
    ASSUME Types, Position, LogInv, Types', Position', [Next]_vars
    PROVE  LogInv'
<1> USE DEF artifacts, sealed
<1>g. /\ G \in Nat /\ Completed \in Nat /\ (G # 0 => Completed = G - 1)
      /\ (saved.stage # "none" => G # 0)
  BY GuardTypes DEF Position, Founding, Evolving
<1>l. log \in Seq([candidate : Nat, promoted : BOOLEAN]) /\ Len(log) \in Nat
      /\ DOMAIN log = 1 .. Len(log) /\ Len(log) \in {Completed, Completed + 1}
  BY DEF Types, LogInv, LogFollowsState
<1>1. CASE AppendLog
  <2>1. /\ pc = "decided" /\ ~Logged(G) /\ pc' = "logged" /\ UNCHANGED saved
        /\ log' = Append(log, [candidate |-> G, promoted |-> Promoted(saved)])
        /\ saved.stage = "sealed"
    BY <1>1 DEF AppendLog, Position
  <2>2. G = Completed + 1
    BY <2>1, <1>g
  <2>3. Len(log) = Completed
    <3>1. ASSUME Len(log) = Completed + 1 PROVE FALSE
      <4>1. G \in DOMAIN log
        BY <3>1, <2>2, <1>l, <1>g
      <4>2. log[G].candidate = G
        BY <4>1 DEF LogInv, LogFollowsState
      <4> QED
        BY <2>1, <4>1, <4>2 DEF Logged
    <3> QED
      BY <3>1, <1>l
  <2> DEFINE e == [candidate |-> G, promoted |-> Promoted(saved)]
  <2>4. e \in [candidate : Nat, promoted : BOOLEAN] /\ e.candidate = G
        /\ e.promoted = Promoted(saved)
    <3>1. Promoted(saved) \in BOOLEAN
      BY DEF Promoted
    <3> DEFINE b == Promoted(saved)
    <3> HIDE DEF b
    <3>2. b \in BOOLEAN
      BY <3>1 DEF b
    <3>3. LET r == [candidate |-> G, promoted |-> b]
          IN  r \in [candidate : Nat, promoted : BOOLEAN] /\ r.candidate = G /\ r.promoted = b
      BY <3>2, <1>g
    <3> QED
      BY <3>3 DEF b
  <2> HIDE DEF e
  <2>5. /\ log' = Append(log, e) /\ Len(log') = Len(log) + 1
        /\ DOMAIN log' = 1 .. (Len(log) + 1) /\ log'[Len(log) + 1] = e
        /\ \A i \in 1 .. Len(log) : log'[i] = log[i]
    <3>1. log' = Append(log, e)
      BY <2>1 DEF e
    <3> QED
      BY <3>1, <2>4, <1>l
  <2>6. Completed' = Completed /\ saved' = saved /\ (Promoted(saved)' <=> Promoted(saved))
        /\ Promoted(saved)' \in BOOLEAN /\ Promoted(saved) \in BOOLEAN
    BY <2>1, UnchangedSaved, SamePromoted DEF Promoted
  <2>7. ASSUME NEW i \in DOMAIN log'
        PROVE  /\ log'[i].candidate = i
               /\ log'[i].promoted = IF i > Completed THEN Promoted(saved)'
                                     ELSE saved.candidates[i + 1].decision = "promoted"
    <3>1. CASE i = Len(log) + 1
      <4>1. log'[i] = e /\ i > Completed /\ i = G
        BY <3>1, <2>5, <2>3, <2>2, <1>g
      <4> QED
        BY <4>1, <2>4, <2>6
    <3>2. CASE i \in 1 .. Len(log)
      <4>1. ~(i > Completed)
        BY <3>2, <2>3, <1>g
      <4>2. log'[i] = log[i] /\ i \in DOMAIN log
        BY <3>2, <2>5, <1>l
      <4>3. log[i].candidate = i
            /\ log[i].promoted = IF i > Completed THEN Promoted(saved)
                                 ELSE saved.candidates[i + 1].decision = "promoted"
        BY <4>2 DEF LogInv, LogFollowsState
      <4> QED
        BY <4>1, <4>2, <4>3
    <3> QED
      BY <3>1, <3>2, <2>5, <1>l
  <2>8. LogFollowsState'
    BY <2>5, <2>3, <2>6, <2>7 DEF LogFollowsState
  <2>9. LogAhead'
    BY <2>1, <2>3, <2>5, <2>6 DEF LogAhead
  <2> QED
    BY <2>8, <2>9 DEF LogInv
<1>2. CASE CommitRound
  <2>1. /\ pc = "logged" /\ pc' = "idle" /\ UNCHANGED log /\ saved.stage = "sealed"
        /\ Len(log) = Completed + 1 /\ G \in Candidates /\ G # 0 /\ G = Completed + 1
    BY <1>2, <1>g, GuardTypes DEF CommitRound, LogInv, LogAhead, Position
  <2>2. /\ saved'.candidates = Append(saved.candidates, NewEntry) /\ saved'.stage = "none"
        /\ NewEntry \in Entries /\ saved.candidates \in Seq(Entries)
        /\ NewEntry.decision = IF Promoted(saved) THEN "promoted" ELSE "rejected"
    BY <1>2, <2>1, DecidedFields, EntryFields DEF CommitRound, Types, States
  <2>3. /\ Len(saved'.candidates) = G + 1 /\ saved'.candidates[G + 1] = NewEntry
        /\ \A i \in 1 .. G : saved'.candidates[i] = saved.candidates[i]
    BY <2>2 DEF G
  <2>4. G' = G + 1 /\ Completed' = G
    BY <2>3, <1>g DEF G, Completed
  <2>5. ASSUME NEW i \in DOMAIN log
        PROVE  /\ log[i].candidate = i /\ ~(i > G)
               /\ log[i].promoted = (saved'.candidates[i + 1].decision = "promoted")
    <3>1. i \in 1 .. G
      BY <1>l, <2>1
    <3>2. /\ log[i].candidate = i
          /\ log[i].promoted = IF i > Completed THEN Promoted(saved)
                               ELSE saved.candidates[i + 1].decision = "promoted"
      BY DEF LogInv, LogFollowsState
    <3>3. CASE i = G
      <4>1. i > Completed
        BY <3>3, <2>1, <1>g
      <4>2. (NewEntry.decision = "promoted") <=> Promoted(saved)
        BY <2>2
      <4>3. Promoted(saved) \in BOOLEAN
        BY DEF Promoted
      <4> QED
        BY <3>1, <3>2, <3>3, <4>1, <4>2, <4>3, <2>3, <1>g
    <3>4. CASE i # G
      <4>1. ~(i > Completed) /\ i + 1 \in 1 .. G
        BY <3>1, <3>4, <2>1, <1>g
      <4> QED
        BY <3>1, <3>2, <4>1, <2>3, <1>g
    <3> QED
      BY <3>3, <3>4
  <2>6. LogFollowsState'
    BY <2>1, <2>4, <2>5 DEF LogFollowsState
  <2>7. LogAhead'
    BY <2>1, <2>4, <1>g DEF LogAhead
  <2> QED
    BY <2>6, <2>7 DEF LogInv
<1>3. CASE RecordBaseline
  <2>1. /\ UNCHANGED <<log, pc>> /\ pc = "idle" /\ G = 0 /\ saved.stage = "none"
        /\ saved' = BaselineRecorded
    BY <1>3, BaselineFields
       DEF RecordBaseline, BaselineRecorded, InBaseline, Idle, Position, Founding, Evolving
  <2>2. saved'.candidates = <<BaselineEntry>>
    BY <2>1, BaselineFields
  <2>3. Completed' = 0 /\ Completed = 0 /\ Len(log) = 0
    <3>1. Len(saved'.candidates) = 1
      BY <2>2
    <3>2. Completed = 0 /\ Completed' = 0
      BY <2>1, <3>1 DEF G, Completed
    <3> QED
      BY <2>1, <3>2, <1>l DEF LogInv, LogAhead
  <2>4. DOMAIN log = {}
    BY <2>3, <1>l
  <2> QED
    BY <2>1, <2>3, <2>4 DEF LogInv, LogFollowsState, LogAhead
<1>4. CASE Boot \/ FreezeBaseline
  <2>1. SameLedger /\ SameRound /\ pc' = "idle" /\ UNCHANGED log
    BY <1>4, BootSaved, FreezeSaved DEF Boot, FreezeBaseline, Idle
  <2> QED
    BY <2>1, LogFrame DEF SameRound
<1>5. CASE FailBaselineBuild \/ WorkerFailed \/ InfrastructureError
  <2>1. Pause /\ saved.status \in {"BASELINE_FROZEN", "EVOLVING"}
    BY <1>5 DEF FailBaselineBuild, WorkerFailed, InfrastructureError, OwnWorkerGone, Building,
                Validating, InBaseline, AtStage, Idle, Position
  <2>2. SameLedger /\ SameRound /\ pc' = "down" /\ UNCHANGED log
    BY <2>1, PauseSaved DEF Pause
  <2> QED
    BY <2>2, LogFrame DEF SameRound
<1>6. CASE StartRound \/ FinishMutation \/ FinishBuild \/ FinishValidation \/ FinishTest
  <2>1. SameLedger /\ saved.stage # "sealed" /\ pc' = "idle" /\ UNCHANGED log
    BY <1>6, StartRoundSaved, FinishMutationSaved, FinishBuildSaved, FinishValidationSaved,
       FinishTestSaved
       DEF StartRound, FinishMutation, FinishBuild, FinishValidation, FinishTest, Save, AtStage, Idle
  <2> QED
    BY <2>1, LogFrame
<1>7. CASE Close \/ Report
  <2>1. SameLedger /\ SameRound /\ pc' = "idle" /\ UNCHANGED log
    BY <1>7, EndSaved DEF Close, Report, Save, Idle
  <2> QED
    BY <2>1, LogFrame DEF SameRound
<1>u. ASSUME UNCHANGED <<saved, log>>,
             pc' \in {"decided", "logged"} => saved.stage = "sealed",
             pc' = "logged" => pc = "logged"
      PROVE  LogInv'
  BY <1>u, UnchangedSaved, LogFrame
<1>8. CASE Clone \/ Checkout \/ PrepareMutation \/ InspectMutation \/ UpdaterFails \/ UpdaterStops
  BY <1>8, <1>u DEF Clone, Checkout, PrepareMutation, InspectMutation, UpdaterFails, UpdaterStops,
                    WriteMutation
<1>9. CASE RefuseWorkspace \/ StartWorker \/ WorkerEnds \/ ReadReceipt \/ Decide \/ RefuseLog
  BY <1>9, <1>u DEF RefuseWorkspace, StartWorker, WorkerEnds, ReadReceipt, Decide, RefuseLog,
                    AtStage, Idle, Position
<1>10. CASE BuildCandidate \/ RunTask \/ PublishSummary
  BY <1>10, <1>u DEF BuildCandidate, RunTask, PublishSummary, Position
<1>11. CASE Settle \/ UpdaterWorks \/ Crash \/ UNCHANGED vars
  BY <1>11, <1>u DEF Settle, UpdaterWorks, Crash, vars, Position
<1> QED
  BY <1>1, <1>2, <1>3, <1>4, <1>5, <1>6, <1>7, <1>8, <1>9, <1>10, <1>11 DEF Next, Work, Round

-----------------------------------------------------------------------------
(* The incumbent and the levels                                            *)

(* A committed round adds one entry and keeps the others.                  *)
LEMMA CommitLedger ==
    ASSUME Types, Position, CommitRound
    PROVE  /\ saved.stage = "sealed" /\ saved.status = "EVOLVING" /\ saved.resume = "none"
           /\ G \in Candidates /\ G >= 1 /\ G' = G + 1 /\ soft' = soft
           /\ saved'.candidates[G + 1] = NewEntry /\ NewEntry \in Entries
           /\ \A i \in 1 .. G : saved'.candidates[i] = saved.candidates[i]
           /\ saved' = Decided(saved)
<1>1. /\ saved.stage = "sealed" /\ saved.status = "EVOLVING" /\ saved.resume = "none"
      /\ G \in Candidates /\ G >= 1 /\ saved' = Decided(saved) /\ soft' = soft /\ G \in Nat
  BY GuardTypes DEF CommitRound, Position, Founding
<1>2. /\ saved'.candidates = Append(saved.candidates, NewEntry)
      /\ NewEntry \in Entries /\ saved.candidates \in Seq(Entries)
  BY <1>1, DecidedFields, EntryFields DEF Types, States
<1> QED
  BY <1>1, <1>2 DEF G

LEMMA BestStep ==
    ASSUME Types, Position, IncumbentIsFirstBest, [Next]_vars
    PROVE  IncumbentIsFirstBest'
<1>1. CASE CommitRound
  <2>1. /\ G \in Nat /\ G >= 1 /\ saved.incumbent \in Nat /\ saved.incumbent <= G - 1
        /\ G \in Candidates
    BY <1>1, CommitLedger, GuardTypes DEF Position
  <2>2. /\ G' = G + 1 /\ saved'.incumbent = IncumbentAfter(saved)
        /\ saved'.candidates[G + 1] = NewEntry
        /\ \A i \in 1 .. G : saved'.candidates[i] = saved.candidates[i]
    BY <1>1, <2>1, CommitLedger, DecidedFields
  <2>3. NewEntry.score = saved.score /\ NewEntry.outcome = saved.outcome /\ saved.score \in Int
    BY EntryFields DEF Types, States
  <2>4. \A i \in 1 .. G : saved.candidates[i].score \in Int
    BY GuardTypes DEF Entries
  <2>5. IncumbentScore(saved) = saved.candidates[saved.incumbent + 1].score
        /\ saved.incumbent + 1 \in 1 .. G /\ IncumbentScore(saved) \in Int
    BY <2>1, <2>4 DEF IncumbentScore
  <2>6. IncumbentScore(saved)' = IF Promoted(saved) THEN saved.score ELSE IncumbentScore(saved)
    <3>1. CASE Promoted(saved)
      BY <3>1, <2>2, <2>3 DEF IncumbentScore, IncumbentAfter
    <3>2. CASE ~Promoted(saved)
      BY <3>2, <2>2, <2>5 DEF IncumbentScore, IncumbentAfter
    <3> QED
      BY <3>1, <3>2
  <2> SUFFICES ASSUME NEW i \in 1 .. (G + 1), saved'.candidates[i].outcome = "completed"
               PROVE  \/ saved'.candidates[i].score < IncumbentScore(saved)'
                      \/ /\ saved'.candidates[i].score = IncumbentScore(saved)'
                         /\ saved'.incumbent <= i - 1
    BY <2>2 DEF IncumbentIsFirstBest
  <2>7. CASE i \in 1 .. G
    <3>1. \/ saved.candidates[i].score < IncumbentScore(saved)
          \/ /\ saved.candidates[i].score = IncumbentScore(saved)
             /\ saved.incumbent <= i - 1
      BY <2>7, <2>2 DEF IncumbentIsFirstBest
    <3>2. CASE Promoted(saved)
      <4>1. saved.score > IncumbentScore(saved)
        BY <3>2 DEF Promoted
      <4> QED
        BY <2>7, <2>2, <2>3, <2>4, <2>5, <2>6, <3>1, <3>2, <4>1
    <3>3. CASE ~Promoted(saved)
      BY <2>7, <2>2, <2>6, <3>1, <3>3 DEF IncumbentAfter
    <3> QED
      BY <3>2, <3>3
  <2>8. CASE i = G + 1
    <3>1. saved'.candidates[i].score = saved.score /\ saved.outcome = "completed"
      BY <2>8, <2>2, <2>3
    <3>2. CASE Promoted(saved)
      BY <2>1, <2>2, <2>6, <2>8, <3>1, <3>2 DEF IncumbentAfter
    <3>3. CASE ~Promoted(saved)
      <4>1. ~(saved.score > IncumbentScore(saved))
        BY <3>1, <3>3 DEF Promoted
      <4> QED
        BY <2>1, <2>2, <2>3, <2>5, <2>6, <2>8, <3>1, <3>3, <4>1 DEF IncumbentAfter
    <3> QED
      BY <3>2, <3>3
  <2> QED
    BY <2>1, <2>7, <2>8
<1>2. CASE RecordBaseline
  <2>1. saved' = BaselineRecorded /\ saved.incumbent = 0
    BY <1>2, BaselineFields
       DEF RecordBaseline, BaselineRecorded, InBaseline, Idle, Position, Founding
  <2>2. saved'.candidates = <<BaselineEntry>> /\ saved'.incumbent = 0
    BY <2>1, BaselineFields
  <2>3. G' = 1
    BY <2>2 DEF G
  <2> QED
    BY <2>2, <2>3 DEF IncumbentIsFirstBest, IncumbentScore
<1>3. CASE ~RecordBaseline /\ ~CommitRound
  <2>1. SameLedger
    BY <1>3, LedgerStep
  <2> QED
    BY <2>1, SameG DEF IncumbentIsFirstBest, IncumbentScore, SameLedger
<1> QED
  BY <1>1, <1>2, <1>3

LevelInv == MissRun /\ LevelsFollowMisses /\ saved.misses <= Misses

(* A run of rejections that ends within the kept part of the ledger.       *)
LEMMA RejectedRunKept ==
    ASSUME Types, Position, CommitRound, NEW i \in 1 .. G
    PROVE  RejectedRun(i)' <=> RejectedRun(i)
<1>1. Misses \in Nat /\ G \in Nat
  BY GuardTypes, ReasoningCampaignAssumption DEF ReasoningCampaignAssumption
<1>2. \A j \in 1 .. G : saved'.candidates[j] = saved.candidates[j]
  BY CommitLedger
<1>3. CASE i > Misses
  <2>1. \A j \in (i - Misses + 1) .. i : saved'.candidates[j] = saved.candidates[j]
    BY <1>1, <1>2, <1>3
  <2>2. saved'.candidates[i] = saved.candidates[i]
    BY <1>2
  <2> QED
    BY <2>1, <2>2 DEF RejectedRun
<1>4. CASE ~(i > Misses)
  BY <1>4 DEF RejectedRun
<1> QED
  BY <1>3, <1>4

(* The run that ends with the committed round is a full one exactly when   *)
(* the round is the last miss of its level.                                *)
LEMMA RejectedRunNew ==
    ASSUME Types, Position, MissRun, ~soft, CommitRound
    PROVE  RejectedRun(G)' <=> Leaves
<1>1. /\ Misses \in Nat \ {0} /\ G \in Nat /\ G >= 1 /\ saved.misses \in Nat
      /\ Evolving
  BY CommitLedger, GuardTypes, ReasoningCampaignAssumption
     DEF ReasoningCampaignAssumption, Evolving
<1>2. /\ saved'.candidates[G + 1] = NewEntry /\ G' = G + 1
      /\ \A i \in 1 .. G : saved'.candidates[i] = saved.candidates[i]
      /\ NewEntry.level = saved.level
      /\ NewEntry.decision = IF Promoted(saved) THEN "promoted" ELSE "rejected"
  BY CommitLedger, EntryFields
<1>r. RejectedRun(G)' <=>
         /\ G + 1 > Misses
         /\ \A j \in (G + 1 - Misses + 1) .. (G + 1) :
               /\ saved'.candidates[j].decision = "rejected"
               /\ saved'.candidates[j].level = saved'.candidates[G + 1].level
  <2>1. RejectedRun(G)' <=>
         /\ G' > Misses
         /\ \A j \in (G' - Misses + 1) .. G' :
               /\ saved'.candidates[j].decision = "rejected"
               /\ saved'.candidates[j].level = saved'.candidates[G'].level
    BY DEF RejectedRun
  <2>2. G' = G + 1
    BY <1>2
  <2>3. RejectedRun(G)' \in BOOLEAN
    BY DEF RejectedRun
  <2> DEFINE run == RejectedRun(G)'
  <2> HIDE DEF run
  <2> QED
    BY <1>1, <2>1, <2>2, <2>3 DEF run
<1>3. /\ saved.misses < Misses /\ saved.misses <= G - 1
      /\ \A j \in (G - saved.misses + 1) .. G :
            /\ saved.candidates[j].decision = "rejected"
            /\ saved.candidates[j].level = saved.level
      /\ \/ G - saved.misses = 1
         \/ saved.candidates[G - saved.misses].decision # "rejected"
         \/ saved.candidates[G - saved.misses].level # saved.level
  BY <1>1 DEF MissRun
<1>4. CASE Promoted(saved)
  <2>1. saved'.candidates[G + 1].decision # "rejected"
    BY <1>2, <1>4
  <2>2. G + 1 \in (G + 1 - Misses + 1) .. (G + 1)
    BY <1>1
  <2> QED
    BY <1>r, <1>4, <2>1, <2>2 DEF Leaves
<1>5. CASE ~Promoted(saved) /\ saved.misses + 1 = Misses
  <2>1. Leaves
    BY <1>5 DEF Leaves, NextMisses
  <2>2. G + 1 > Misses
    BY <1>1, <1>3, <1>5
  <2>3. ASSUME NEW j \in (G + 1 - Misses + 1) .. (G + 1)
        PROVE  /\ saved'.candidates[j].decision = "rejected"
               /\ saved'.candidates[j].level = saved'.candidates[G + 1].level
    <3>1. CASE j = G + 1
      BY <1>2, <1>5, <3>1
    <3>2. CASE j # G + 1
      <4>1. j \in (G - saved.misses + 1) .. G /\ j \in 1 .. G
        BY <1>1, <1>3, <1>5, <3>2
      <4> QED
        BY <4>1, <1>2, <1>3
    <3> QED
      BY <3>1, <3>2
  <2> QED
    BY <1>r, <2>1, <2>2, <2>3
<1>6. CASE ~Promoted(saved) /\ saved.misses + 1 # Misses
  <2>1. ~Leaves
    BY <1>6 DEF Leaves, NextMisses
  <2>2. saved.misses + 1 < Misses
    BY <1>1, <1>3, <1>6
  <2>3. CASE G - saved.misses = 1
    <3>1. ~(G + 1 > Misses)
      BY <1>1, <2>2, <2>3
    <3> QED
      BY <1>r, <2>1, <3>1
  <2>4. CASE G - saved.misses # 1
    <3> DEFINE k == G - saved.misses
    <3>1. k \in (G + 1 - Misses + 1) .. (G + 1) /\ k \in 1 .. G
      BY <1>1, <1>3, <2>2, <2>4
    <3>2. \/ saved'.candidates[k].decision # "rejected"
          \/ saved'.candidates[k].level # saved'.candidates[G + 1].level
      BY <3>1, <1>2, <1>3, <2>4
    <3> HIDE DEF k
    <3> QED
      BY <1>r, <2>1, <3>1, <3>2
  <2> QED
    BY <2>3, <2>4
<1> QED
  BY <1>4, <1>5, <1>6

LEMMA LevelStep ==
    ASSUME Types, Position, LevelInv, [Next]_vars
    PROVE  LevelInv'
<1>m. Misses \in Nat \ {0} /\ TopLevel \in Nat \ {0}
  BY ReasoningCampaignAssumption DEF ReasoningCampaignAssumption
<1>1. CASE CommitRound
  <2>1. /\ saved.stage = "sealed" /\ saved.status = "EVOLVING" /\ saved.resume = "none"
        /\ G \in Candidates /\ G \in Nat /\ G >= 1 /\ G' = G + 1 /\ soft' = soft
        /\ saved.misses \in Nat /\ saved.level \in Nat
    BY <1>1, CommitLedger, GuardTypes
  <2>2. /\ saved'.candidates[G + 1] = NewEntry
        /\ \A i \in 1 .. G : saved'.candidates[i] = saved.candidates[i]
        /\ NewEntry.level = saved.level
        /\ NewEntry.decision = IF Promoted(saved) THEN "promoted" ELSE "rejected"
    BY <1>1, CommitLedger, EntryFields
  <2>3. /\ saved'.status = IF Closes THEN "CLOSING" ELSE saved.status
        /\ saved'.resume = "none"
        /\ saved'.level = IF Closes THEN 0 ELSE IF Leaves THEN saved.level + 1 ELSE saved.level
        /\ saved'.misses = IF soft \/ (Leaves /\ ~Closes) THEN 0 ELSE NextMisses(saved)
    BY <1>1, <2>1, CommitLedger, DecidedFields
  <2>4. CASE soft
    BY <2>1, <2>3, <2>4, <1>m DEF LevelInv, MissRun, LevelsFollowMisses
  <2>5. CASE ~soft
    <3>1. /\ saved.level >= 1 /\ saved.misses < Misses /\ saved.misses <= G - 1
          /\ \A j \in (G - saved.misses + 1) .. G :
                /\ saved.candidates[j].decision = "rejected"
                /\ saved.candidates[j].level = saved.level
          /\ \/ G - saved.misses = 1
             \/ saved.candidates[G - saved.misses].decision # "rejected"
             \/ saved.candidates[G - saved.misses].level # saved.level
      BY <2>1, <2>5 DEF LevelInv, MissRun, Evolving
    <3>2. RejectedRun(G)' <=> Leaves
      BY <1>1, <2>5, RejectedRunNew DEF LevelInv
    <3>3. (saved'.level # saved.level) <=> Leaves
      <4>1. Closes => Leaves
        BY DEF Closes
      <4> QED
        BY <2>1, <2>3, <3>1, <4>1
    <3>4. LevelsFollowMisses'
      <4>1. ASSUME NEW i \in 2 .. G
            PROVE  RejectedRun(i)' <=>
                      saved'.candidates[i].level # saved'.candidates[i + 1].level
        <5>1. RejectedRun(i)' <=> RejectedRun(i)
          <6>1. i \in 1 .. G
            BY <2>1
          <6> QED
            BY <1>1, <6>1, RejectedRunKept
        <5>2. CASE i = G
          <6>1. G > 1
            BY <2>1, <5>2
          <6>2. RejectedRun(G) <=> saved.level # saved.candidates[G].level
            BY <2>5, <6>1 DEF LevelInv, LevelsFollowMisses
          <6> QED
            BY <2>1, <2>2, <5>1, <5>2, <6>2
        <5>3. CASE i # G
          <6>1. i \in 2 .. (G - 1) /\ i \in 1 .. G /\ i + 1 \in 1 .. G
            BY <2>1, <5>3
          <6>2. RejectedRun(i) <=> saved.candidates[i].level # saved.candidates[i + 1].level
            BY <2>5, <6>1 DEF LevelInv, LevelsFollowMisses
          <6> QED
            BY <2>2, <5>1, <6>1, <6>2
        <5> QED
          BY <5>2, <5>3
      <4>2. RejectedRun(G)' <=> saved'.level # saved'.candidates[G'].level
        BY <2>1, <2>2, <3>2, <3>3
      <4>3. G + 1 - 1 = G
        BY <2>1
      <4> QED
        BY <2>1, <4>1, <4>2, <4>3 DEF LevelsFollowMisses
    <3>5. saved'.misses <= Misses
      BY <2>1, <2>3, <3>1, <1>m DEF NextMisses
    <3>6. MissRun'
      <4>1. CASE Closes
        <5>1. ~Evolving'
          BY <4>1, <2>3 DEF Evolving
        <5> QED
          BY <5>1 DEF MissRun
      <4>2. CASE Promoted(saved) \/ (Leaves /\ ~Closes)
        <5>1. saved'.misses = 0 /\ saved'.level >= 1
          BY <4>2, <2>1, <2>3, <3>1 DEF NextMisses, Leaves, Closes
        <5>2. \/ saved'.candidates[G + 1].decision # "rejected"
              \/ saved'.candidates[G + 1].level # saved'.level
          BY <4>2, <2>1, <2>2, <2>3
        <5>3. G + 1 - saved'.misses = G + 1
          BY <5>1, <2>1
        <5>4. \A j \in (G + 1 - saved'.misses + 1) .. (G + 1) : FALSE
          BY <5>1, <2>1
        <5> QED
          BY <1>m, <2>1, <5>1, <5>2, <5>3, <5>4 DEF MissRun
      <4>3. CASE ~Promoted(saved) /\ ~Leaves
        <5>1. /\ saved'.misses = saved.misses + 1 /\ saved'.level = saved.level
              /\ saved.misses + 1 # Misses
          BY <4>3, <2>3, <2>5 DEF NextMisses, Leaves, Closes
        <5>2. saved'.misses < Misses /\ saved'.misses <= G + 1 - 1
          BY <1>m, <2>1, <3>1, <5>1
        <5>3. G + 1 - saved'.misses = G - saved.misses
              /\ (G - saved.misses = 1 \/ G - saved.misses \in 1 .. G)
          BY <2>1, <3>1, <5>1
        <5>4. ASSUME NEW j \in (G - saved.misses + 1) .. (G + 1)
              PROVE  /\ saved'.candidates[j].decision = "rejected"
                     /\ saved'.candidates[j].level = saved'.level
          <6>1. CASE j = G + 1
            BY <6>1, <4>3, <2>2, <5>1
          <6>2. CASE j # G + 1
            <7>1. j \in (G - saved.misses + 1) .. G /\ j \in 1 .. G
              BY <6>2, <2>1, <3>1
            <7> QED
              BY <7>1, <2>2, <3>1, <5>1
          <6> QED
            BY <6>1, <6>2
        <5>5. \/ G - saved.misses = 1
              \/ saved'.candidates[G - saved.misses].decision # "rejected"
              \/ saved'.candidates[G - saved.misses].level # saved'.level
          BY <2>2, <3>1, <5>1, <5>3
        <5> QED
          BY <2>1, <3>1, <5>1, <5>2, <5>3, <5>4, <5>5 DEF MissRun
      <4> QED
        BY <4>1, <4>2, <4>3
    <3> QED
      BY <3>4, <3>5, <3>6 DEF LevelInv
  <2> QED
    BY <2>4, <2>5
<1>2. CASE RecordBaseline
  <2>1. /\ saved' = BaselineRecorded /\ saved.misses = 0 /\ soft' = soft
    BY <1>2, BaselineFields
       DEF RecordBaseline, BaselineRecorded, InBaseline, Idle, Position, Founding
  <2>2. /\ saved'.candidates = <<BaselineEntry>> /\ saved'.misses = 0
        /\ saved'.level = IF soft THEN 0 ELSE 1
    BY <2>1, BaselineFields
  <2>3. G' = 1
    BY <2>2 DEF G
  <2> QED
    BY <2>1, <2>2, <2>3, <1>m DEF LevelInv, MissRun, LevelsFollowMisses
<1>3. CASE ~RecordBaseline /\ ~CommitRound
  <2>1. SameLedger /\ (Evolving' => Evolving) /\ soft' = soft
    BY <1>3, LedgerStep
  <2>2. \A i : RejectedRun(i)' <=> RejectedRun(i)
    BY <2>1 DEF RejectedRun, SameLedger
  <2> QED
    BY <2>1, <2>2, SameG DEF LevelInv, MissRun, LevelsFollowMisses, SameLedger
<1> QED
  BY <1>1, <1>2, <1>3

-----------------------------------------------------------------------------
(* The theorems                                                            *)

LEMMA InitIInv == ASSUME Init PROVE IInv
<1> USE DEF Init
<1>c. /\ Budget \in Nat /\ Misses \in Nat \ {0} /\ TopLevel \in Nat \ {0} /\ MaxFaults \in Nat
      /\ LayerSelections \subseteq BOOLEAN
  BY ReasoningCampaignAssumption DEF ReasoningCampaignAssumption
<1>1. /\ saved.status = "CONFIG_FROZEN" /\ saved.resume = "none" /\ saved.level = 0
      /\ saved.misses = 0 /\ saved.incumbent = 0 /\ saved.stage = "none"
      /\ saved.outcome = "none" /\ saved.score = NoScore /\ saved.receipt = 0
      /\ saved.candidates = <<>> /\ pc = "idle" /\ charged = 0
  OBVIOUS
<1>2. G = 0 /\ Completed = 0 /\ Founding /\ ~Evolving
  BY <1>1 DEF G, Completed, Founding, Evolving
<1>3. Types
  <2>1. saved \in States
    <3>1. <<>> \in Seq(Entries)
      OBVIOUS
    <3> QED
      BY <1>c, <3>1 DEF States, Statuses, Levels, Candidates, Stages, Outcomes, Receipts, NoScore
  <2>2. git \in [head : Candidates \cup {-1}, clean : BOOLEAN]
    BY DEF NoGit
  <2>3. log \in Seq([candidate : Nat, promoted : BOOLEAN])
    OBVIOUS
  <2> QED
    BY <1>c, <2>1, <2>2, <2>3 DEF Types, Candidates, NoScore, Receipts, Places
<1>4. Position
  BY <1>1, <1>2, <1>c DEF Position
<1>5. Workspace
  <2>1. 0 \in Candidates
    BY <1>c DEF Candidates
  <2> QED
    BY <1>1, <1>2, <2>1 DEF Workspace, NoGit
<1>6. Scores
  <2>1. 0 \in Candidates
    BY <1>c DEF Candidates
  <2> QED
    BY <1>1, <2>1 DEF Scores
<1>7. SealedOnce /\ ScoresAreComplete
  BY <1>1, <1>2 DEF SealedOnce, ReportAccepted, ScoresAreComplete
<1>8. LogFollowsState /\ LogAhead
  <2>1. Len(log) = 0 /\ DOMAIN log = {}
    OBVIOUS
  <2> QED
    BY <1>1, <1>2, <2>1 DEF LogFollowsState, LogAhead
<1>9. IncumbentIsFirstBest /\ MissRun /\ LevelsFollowMisses /\ saved.misses <= Misses
  BY <1>1, <1>2, <1>c DEF IncumbentIsFirstBest, MissRun, LevelsFollowMisses
<1> QED
  BY <1>3, <1>4, <1>5, <1>6, <1>7, <1>8, <1>9 DEF IInv

LEMMA StepIInv == ASSUME IInv, [Next]_vars PROVE IInv'
<1>1. Types'
  BY TypesStep DEF IInv
<1>2. Position'
  BY <1>1, PositionStep DEF IInv
<1>3. Workspace'
  BY <1>1, <1>2, WorkspaceStep DEF IInv
<1>4. ScoreInv'
  BY <1>1, <1>2, ScoreStep DEF IInv, ScoreInv
<1>5. LogInv'
  BY <1>1, <1>2, LogStep DEF IInv, LogInv
<1>6. IncumbentIsFirstBest'
  BY BestStep DEF IInv
<1>7. LevelInv'
  BY LevelStep DEF IInv, LevelInv
<1> QED
  BY <1>1, <1>2, <1>3, <1>4, <1>5, <1>6, <1>7 DEF IInv, ScoreInv, LogInv, LevelInv

(* Every state the campaign can reach satisfies the inductive invariant.   *)
LEMMA IInvHolds == Spec => []IInv
<1>1. Init => IInv
  BY InitIInv
<1>2. IInv /\ [Next]_vars => IInv'
  BY StepIInv
<1> QED
  BY <1>1, <1>2, PTL DEF Spec

(* A sealed result that was published stays published under the receipt    *)
(* the ledger holds, with the summary of its candidate: report() in        *)
(* reasoning-campaign accepts whatever a campaign that closed has recorded,*)
(* however many workers outlived the process that started them.            *)
THEOREM ReceiptsStaySealed == Spec => []SealedOnce
<1>1. IInv => SealedOnce
  BY DEF IInv
<1> QED
  BY <1>1, IInvHolds, PTL

(* At every saved stage the worktree is where the next step of the round   *)
(* expects it, and the evolution log tells state.json's decisions in order,*)
(* at most one round ahead.                                                *)
THEOREM RecordsKeepFollowingRound == Spec => []RecordsFollowRound
<1>1. IInv => RecordsFollowRound
  <2> SUFFICES ASSUME IInv PROVE RecordsFollowRound
    OBVIOUS
  <2>1. WorkspaceFollowsRound
    BY DEF IInv, Workspace, WorkspaceFollowsRound, Evolving
  <2> QED
    BY <2>1 DEF IInv, RecordsFollowRound
<1> QED
  BY <1>1, IInvHolds, PTL

(* The incumbent is the first candidate that reached the best score, every *)
(* score is that of complete checkpoints, and a level is left after exactly*)
(* the configured number of rejections in a row, for every budget, number  *)
(* of levels and misses.                                                   *)
THEOREM SearchStaysExact == Spec => []SearchIsExact
<1>1. IInv => SearchIsExact
  BY DEF IInv, SearchIsExact
<1> QED
  BY <1>1, IInvHolds, PTL

(* The type invariant, with the bounds of the miss counter and of scores.  *)
THEOREM TypeCorrect == Spec => []TypeOK
<1>1. IInv => TypeOK
  <2> SUFFICES ASSUME IInv PROVE TypeOK
    OBVIOUS
  <2>t. Types
    BY DEF IInv
  <2>1. /\ saved.status \in Statuses /\ saved.level \in Levels /\ saved.misses \in Nat
        /\ saved.incumbent \in Candidates /\ git.head \in Candidates \cup {-1}
        /\ git.clean \in BOOLEAN
    BY <2>t DEF Types, States
  <2>2. saved.misses <= Misses /\ Misses \in Nat
    BY ReasoningCampaignAssumption DEF IInv, ReasoningCampaignAssumption
  <2>3. G <= Budget + 1
    BY <2>t, GuardTypes DEF IInv, Position
  <2>4. ASSUME NEW c \in Candidates PROVE summary[c] \in -1 .. Cardinality(Tasks)
    <3>1. summary[c] = NoScore \/ summary[c] = Score(c)
      BY DEF IInv, Scores
    <3>2. Score(c) \in 0 .. Cardinality(Tasks) /\ Cardinality(Tasks) \in Nat
      BY ScoreType, TasksFinite
    <3> QED
      BY <3>1, <3>2 DEF NoScore
  <2>5. \A c \in Candidates :
           /\ mutation[c] \in {"none", "completed", "failed", "stopped"}
           /\ build[c] \in {"none", "ok", "failed"}
           /\ \A t \in Tasks : records[c][t] \in Results \cup {"none"}
           /\ receipt[c] \in 0 .. MaxFaults + 1
    BY <2>t DEF Types, Receipts
  <2> QED
    BY <2>t, <2>1, <2>2, <2>3, <2>4, <2>5 DEF TypeOK, Types, Statuses, Levels
<1> QED
  BY <1>1, IInvHolds, PTL

-----------------------------------------------------------------------------
(* The campaign implements the branch driver                               *)

LEMMA DriverInit == ASSUME Init PROVE Driver!Init
<1>1. saved.status = "CONFIG_FROZEN" /\ saved.incumbent = 0 /\ saved.candidates = <<>>
      /\ charged = 0
  BY DEF Init
<1>2. Completed = 0
  BY <1>1 DEF G, Completed
<1> QED
  BY <1>1, <1>2 DEF Driver!Init

LEMMA DriverStep ==
    ASSUME IInv, [Next]_vars PROVE [Driver!Next]_Driver!driver
<1> USE DEF artifacts, sealed
<1>i. Types /\ Position
  BY DEF IInv
<1>g. /\ G \in Nat /\ Completed \in Nat /\ (G # 0 => Completed = G - 1)
  BY <1>i, GuardTypes
<1> DEFINE stopped == saved.status \in {"CLOSED", "REPORTED"}
<1>s. ASSUME UNCHANGED <<charged, Completed>>, saved'.incumbent = saved.incumbent,
             stopped' = stopped \/ (~stopped /\ stopped' = TRUE)
      PROVE  [Driver!Next]_Driver!driver
  BY <1>s DEF Driver!Next, Driver!Stop, Driver!driver
<1>1. CASE CommitRound
  <2>1. /\ saved.stage = "sealed" /\ saved.status = "EVOLVING" /\ G >= 1 /\ G' = G + 1
        /\ G \in Candidates /\ saved' = Decided(saved)
    BY <1>i, <1>1, CommitLedger
  <2>2. charged' = charged /\ charged = Completed
    BY <1>i, <1>1, <2>1 DEF CommitRound, Position
  <2>3. Completed' = Completed + 1 /\ Completed' = G
    BY <2>1, <1>g DEF Completed
  <2>4. saved'.incumbent \in {saved.incumbent, Completed'}
    BY <1>i, <2>1, <2>3, DecidedFields DEF IncumbentAfter
  <2>5. ~stopped
    BY <2>1
  <2>6. Driver!Advance
    BY <2>2, <2>3, <2>4, <2>5 DEF Driver!Advance
  <2> QED
    BY <2>6 DEF Driver!Next
<1>2. CASE Settle
  <2>1. Completed = charged + 1 /\ charged' = Completed /\ UNCHANGED saved
    BY <1>2 DEF Settle
  <2>2. UNCHANGED Completed
    BY <2>1, UnchangedSaved
  <2> QED
    BY <2>1, <2>2 DEF Driver!Next, Driver!Charge
<1>3. CASE RecordBaseline
  <2>1. /\ saved' = BaselineRecorded /\ charged' = charged /\ G = 0
        /\ saved.status = "BASELINE_FROZEN"
    BY <1>i, <1>3, BaselineFields
       DEF RecordBaseline, BaselineRecorded, InBaseline, Idle, Position, Founding
  <2>2. /\ saved'.candidates = <<BaselineEntry>> /\ saved'.incumbent = saved.incumbent
        /\ saved'.status = "EVOLVING"
    BY <1>i, <2>1, BaselineFields
  <2>3. Completed = 0 /\ Completed' = 0
    <3>1. G' = 1
      BY <2>2 DEF G
    <3> QED
      BY <2>1, <3>1 DEF Completed
  <2> QED
    BY <1>s, <2>1, <2>2, <2>3
<1>4. CASE ~CommitRound /\ ~Settle /\ ~RecordBaseline
  <2>1. SameLedger
    BY <1>i, <1>4, LedgerStep
  <2>2. UNCHANGED charged
    BY <1>4 DEF Next, Work, Round, Boot, Clone, Checkout, FreezeBaseline, FailBaselineBuild, Pause,
         StartRound, Save, PrepareMutation, InspectMutation, UpdaterFails, WriteMutation,
         FinishMutation, RefuseWorkspace, BuildCandidate, FinishBuild, RunTask, PublishSummary,
         FinishValidation, StartWorker, WorkerEnds, ReadReceipt, WorkerFailed, FinishTest,
         Decide, AppendLog, RefuseLog, Close, Report, UpdaterWorks, UpdaterStops, Crash,
         InfrastructureError, vars
  <2>3. stopped => stopped'
    <3>1. CASE Resting
      BY <1>i, <3>1, BootSaved DEF Resting, FreezeBaseline, Idle, Position
    <3>2. CASE OwnSave
      BY <1>i, <3>2, EndSaved
         DEF OwnSave, StartRound, FinishMutation, FinishBuild, FinishValidation, FinishTest,
             AtStage, Idle
    <3> QED
      BY <1>i, <1>4, <3>1, <3>2, SavedStep
  <2>4. UNCHANGED Completed /\ saved'.incumbent = saved.incumbent
    BY <2>1, SameG DEF SameLedger
  <2>5. stopped' = stopped \/ (~stopped /\ stopped' = TRUE)
    BY <2>3
  <2> HIDE DEF stopped
  <2> QED
    BY <1>s, <2>2, <2>4, <2>5
<1> QED
  BY <1>1, <1>2, <1>3, <1>4

(* The Reasoning campaign, with its crashes, pauses, workers and updater,  *)
(* is a branch driver: it is at most one round ahead of the population's   *)
(* ledger, only a committed round moves the champion, a closed campaign    *)
(* stays closed.                                                           *)
THEOREM CampaignIsDriver == Spec => ImplementsDriver
<1>1. Init => Driver!Init
  BY DriverInit
<1>2. IInv /\ [Next]_vars => [Driver!Next]_Driver!driver
  BY DriverStep
<1> QED
  BY <1>1, <1>2, IInvHolds, PTL DEF Spec, ImplementsDriver, Driver!Spec
=============================================================================
