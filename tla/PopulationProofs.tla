-------------------------- MODULE PopulationProofs --------------------------
(***************************************************************************)
(* Proofs about Population, for every number of branches, mode, budget,    *)
(* score set, driver, milestones and number of faults:                     *)
(*   TypeCorrect            every variable keeps its type                  *)
(*   WorkStaysCharged       ledger and branch stores never drift apart     *)
(*   RecoveryStaysExact     what is published and resumed is what branches *)
(*                          have on disk                                   *)
(*   NothingIsStranded      a campaign closes only with its budget used    *)
(*   WrittenStays           files, index and closed campaigns stay         *)
(*   CheckpointsStaySound   every milestone reached gets its one checkpoint*)
(*   BudgetIsConserved      no round of the budget appears or disappears   *)
(*   ImplementsCreditLedger the controller refines CreditLedger            *)
(* The inductive invariant is TypeOK /\ LedgerInv /\ RecoveryInv /\        *)
(* CheckpointInv /\ BudgetSums, each part inductive with those before it.  *)
(* LedgerInv adds to the checked invariants which saved status each step of*)
(* a process can meet: that is why a crash, which leaves the status behind,*)
(* cannot let a new process work in a closed campaign or outside a wave.   *)
(***************************************************************************)
EXTENDS Population, BudgetProofs

(* A wave has finitely many participants to charge.                        *)
LEMMA ChargedFinite ==
    ASSUME TypeOK
    PROVE  Charged \in SUBSET Branches /\ Cardinality(Charged) \in Nat
<1>1. Charged \in SUBSET Branches
  BY DEF TypeOK, Charged
<1> QED
  BY <1>1, BranchesFinite, FS_Subset, FS_CardinalityType

(* No step of the controller, of a branch or of a crash breaks a type.     *)
LEMMA TypeStep ==
    ASSUME TypeOK, [Next]_vars
    PROVE  TypeOK'
<1> USE PopulationAssumption DEF PopulationAssumption, vars, stateVars, fileVars, childVars,
        processVars, ledgerVars, waveVars, NoneSettled, Statuses, Maybe, TypeOK
<1>1. ASSUME Start PROVE TypeOK'
  BY <1>1 DEF Start
<1>2. ASSUME StartBaseline PROVE TypeOK'
  BY <1>2 DEF StartBaseline
<1>3. ASSUME FinishBaseline PROVE TypeOK'
  BY <1>3 DEF FinishBaseline, SavePause, ReturnToCli, AdoptBaseline, StatusOf,
              IsPopulationBest
<1>4. ASSUME Freeze PROVE TypeOK'
  BY <1>4 DEF Freeze, Exit
<1>29. ASSUME WriteIdentity PROVE TypeOK'
  BY <1>29 DEF WriteIdentity
<1>30. ASSUME LeavePaused PROVE TypeOK'
  BY <1>30 DEF LeavePaused, Exit
<1>5. ASSUME Run PROVE TypeOK'
  BY <1>5 DEF Run, EnterRun
<1>6. ASSUME RunCommand PROVE TypeOK'
  BY <1>6 DEF RunCommand, EnterRun
<1>7. ASSUME Close PROVE TypeOK'
  BY <1>7 DEF Close
<1>8. ASSUME StopAtLimit PROVE TypeOK'
  BY <1>8 DEF StopAtLimit, Exit
<1>9. ASSUME WriteReport PROVE TypeOK'
  BY <1>9 DEF WriteReport, Exit
<1>10. ASSUME StartWave PROVE TypeOK'
  BY <1>10 DEF StartWave, OpenWave, NoGrant, Funded, NotStopped
<1>11. ASSUME BootstrapWave PROVE TypeOK'
  <2>1. GrantSize(bonusRemaining) \in 1..bonusRemaining
    BY <1>11, GrantFits DEF BootstrapWave
  <2>2. PICK w \in NotStopped :
          Grant(w, GrantSize(bonusRemaining)) /\ OpenWave({w})
          /\ branchStatus' = [branchStatus EXCEPT ![w] = "active"]
    BY <1>11 DEF BootstrapWave
  <2>3. w \in Branches
    BY DEF NotStopped
  <2> QED
    BY <2>1, <2>2, <2>3 DEF OpenWave, Grant
<1>12. ASSUME ResumeWave PROVE TypeOK'
  BY <1>12 DEF ResumeWave
<1>13. ASSUME PauseWave PROVE TypeOK'
  BY <1>13 DEF PauseWave, Pause, SavePause, Exit
<1>14. ASSUME FinishWave PROVE TypeOK'
  <2>1. Cardinality(Charged) \in Nat
    BY ChargedFinite
  <2>2. consumed' \in Nat /\ used' \in [Branches -> Nat]
    BY <1>14, <2>1 DEF FinishWave
  <2>3. /\ bonus' \in [Branches -> Nat]
        /\ bonusRemaining' \in Nat /\ bonusGranted' \in Nat
    <3>1. CASE UNCHANGED <<bonus, bonusRemaining, bonusGranted>>
      BY <3>1
    <3>2. CASE bonusRemaining > 0 /\ \E w \in Eligible : Grant(w, GrantSize(bonusRemaining))
      <4>1. GrantSize(bonusRemaining) \in 1..bonusRemaining
        BY <3>2, GrantFits
      <4> QED
        BY <3>2, <4>1 DEF Grant, Eligible, Charged
    <3> QED
      BY <1>14, <3>1, <3>2 DEF FinishWave, NoGrant
  <2>4. incumbent' \in [Branches -> Scores \cup {NoScore}]
    BY <1>14 DEF FinishWave, IncumbentAfter
  <2>5. branchStatus' \in [Branches -> {"pending", "active", "exhausted", "stopped"}]
    BY <1>14 DEF FinishWave, StatusOf
  <2>6. best' \in Branches
    BY <1>14 DEF FinishWave, IsPopulationBest
  <2> QED
    BY <1>14, <2>2, <2>3, <2>4, <2>5, <2>6 DEF FinishWave
<1>15. ASSUME Resume PROVE TypeOK'
  BY <1>15 DEF Resume
<1>16. ASSUME RefuseRestore PROVE TypeOK'
  BY <1>16 DEF RefuseRestore, Exit
<1>17. ASSUME FinishRestore PROVE TypeOK'
  BY <1>17 DEF FinishRestore, AdoptBaseline, StatusOf, IsPopulationBest
<1>18. ASSUME NEW k \in Keys, WriteCheckpoint(k) PROVE TypeOK'
  BY <1>18 DEF WriteCheckpoint
<1>19. ASSUME FinishCapture PROVE TypeOK'
  BY <1>19 DEF FinishCapture
<1>20. ASSUME FailCapture PROVE TypeOK'
  BY <1>20 DEF FailCapture, SavePause, ReturnToCli, Exit, Fault
<1>21. ASSUME NEW b \in Branches, InitializeBranch(b) PROVE TypeOK'
  BY <1>21 DEF InitializeBranch, EvaluateBaseline, Fault
<1>22. ASSUME NEW b \in Branches, RestoreBranch(b) PROVE TypeOK'
  BY <1>22 DEF RestoreBranch, EvaluateBaseline
<1>23. ASSUME NEW b \in Branches, NothingToDo(b) PROVE TypeOK'
  BY <1>23 DEF NothingToDo, InTurn, Settle
<1>24. ASSUME NEW b \in Branches, AdvanceStep(b) PROVE TypeOK'
  BY <1>24 DEF AdvanceStep, Advancing, StepScores, InTurn, Settle, Fault
<1>25. ASSUME NEW b \in Branches, AdvanceStops(b) PROVE TypeOK'
  BY <1>25 DEF AdvanceStops, Advancing, InTurn, Settle
<1>26. ASSUME NEW b \in Branches, AdvanceFails(b) PROVE TypeOK'
  BY <1>26 DEF AdvanceFails, Advancing, InTurn, Settle, Fault
<1>31. ASSUME NEW b \in Branches, CloseBranch(b) PROVE TypeOK'
  BY <1>31 DEF CloseBranch, Settle, Fault
<1>32. ASSUME NEW b \in Branches, RefuseRound(b) PROVE TypeOK'
  BY <1>32 DEF RefuseRound, InTurn, Settle
<1>27. ASSUME Crash PROVE TypeOK'
  BY <1>27 DEF Crash, Exit, Fault
<1>28. ASSUME UNCHANGED vars PROVE TypeOK'
  BY <1>28
<1> QED
  BY <1>1, <1>2, <1>3, <1>4, <1>5, <1>6, <1>7, <1>8, <1>9, <1>10, <1>11,
     <1>12, <1>13, <1>14, <1>15, <1>16, <1>17, <1>18, <1>19, <1>20, <1>21,
     <1>22, <1>23, <1>24, <1>25, <1>26, <1>27, <1>28, <1>29, <1>30, <1>31, <1>32
  DEF Next, Progress

-----------------------------------------------------------------------------
(* Which states a process step can find on disk.                           *)
StatusMatchesProcess ==
    /\ pc \in {"launch", "baseline"} => status \in {"CONFIG_FROZEN", "BASELINE_RUNNING"}
    /\ pc \in {"capture", "loop", "wave"} => status = "EVOLVING"
    /\ pc \in {"cli", "restore"} => status \in {"EVOLVING", "PAUSED_INFRASTRUCTURE"}
    /\ pc = "report" => status = "CLOSED"
    /\ participants # {} => status \in {"EVOLVING", "PAUSED_INFRASTRUCTURE"}
    /\ pc \in {"capture", "cli"} => participants = {}

(* Nobody is charged more than it was given, and whoever is in the open    *)
(* wave can still pay for its round.                                       *)
NeverOverspent ==
    /\ \A b \in Branches : used[b] <= Cap[b]
    /\ \A b \in participants : used[b] < Cap[b]

LedgerInv == StatusMatchesProcess /\ LedgerMatchesWork /\ NeverOverspent

(* The end of a wave takes no allocation away.                             *)
LEMMA GrantsOnlyAdd ==
    ASSUME TypeOK, FinishWave
    PROVE  \A b \in Branches : bonus[b] <= bonus'[b]
<1>1. CASE UNCHANGED bonus
  BY <1>1 DEF TypeOK
<1>2. CASE bonusRemaining > 0 /\ \E w \in Eligible : Grant(w, GrantSize(bonusRemaining))
  <2>1. GrantSize(bonusRemaining) \in Nat
    BY <1>2, GrantFits DEF TypeOK
  <2> QED
    BY <1>2, <2>1 DEF Grant, TypeOK
<1> QED
  BY <1>1, <1>2 DEF FinishWave, NoGrant

(* The ledger invariant is inductive: every action, and the crash between  *)
(* any two of them, keeps saved status, ledger and branch stores together. *)
LEMMA LedgerStep ==
    ASSUME TypeOK, TypeOK', LedgerInv, [Next]_vars
    PROVE  LedgerInv'
<1> USE DEF vars, stateVars, childVars, processVars, ledgerVars, waveVars,
        TypeOK, LedgerInv, StatusMatchesProcess, LedgerMatchesWork,
        NeverOverspent, Cap
<1>1. ASSUME Start PROVE LedgerInv'
  BY <1>1 DEF Start
<1>2. ASSUME StartBaseline PROVE LedgerInv'
  BY <1>2 DEF StartBaseline
<1>3. ASSUME FinishBaseline PROVE LedgerInv'
  BY <1>3 DEF FinishBaseline, SavePause, ReturnToCli, AdoptBaseline
<1>4. ASSUME Freeze PROVE LedgerInv'
  BY <1>4 DEF Freeze, Exit
<1>29. ASSUME WriteIdentity PROVE LedgerInv'
  BY <1>29 DEF WriteIdentity
<1>30. ASSUME LeavePaused PROVE LedgerInv'
  BY <1>30 DEF LeavePaused, Exit
<1>5. ASSUME Run PROVE LedgerInv'
  BY <1>5 DEF Run, EnterRun
<1>6. ASSUME RunCommand PROVE LedgerInv'
  BY <1>6 DEF RunCommand, EnterRun
<1>7. ASSUME Close PROVE LedgerInv'
  BY <1>7 DEF Close
<1>8. ASSUME StopAtLimit PROVE LedgerInv'
  BY <1>8 DEF StopAtLimit, Exit
<1>9. ASSUME WriteReport PROVE LedgerInv'
  BY <1>9 DEF WriteReport, Exit
<1>10. ASSUME StartWave PROVE LedgerInv'
  <2>1. StatusMatchesProcess'
    BY <1>10 DEF StartWave, OpenWave, NoGrant
  <2>2. LedgerMatchesWork'
    BY <1>10 DEF StartWave, OpenWave, Funded, NotStopped
  <2>3. NeverOverspent'
    BY <1>10, PlanType DEF StartWave, OpenWave, NoGrant, Funded, NotStopped, Remaining
  <2> QED
    BY <2>1, <2>2, <2>3
<1>11. ASSUME BootstrapWave PROVE LedgerInv'
  <2>1. GrantSize(bonusRemaining) \in 1..bonusRemaining
    BY <1>11, GrantFits DEF BootstrapWave
  <2>2. PICK w \in Branches : Grant(w, GrantSize(bonusRemaining)) /\ OpenWave({w})
    BY <1>11 DEF BootstrapWave, NotStopped
  <2>3. StatusMatchesProcess'
    BY <1>11, <2>2 DEF BootstrapWave, OpenWave
  <2>4. LedgerMatchesWork'
    BY <1>11, <2>2 DEF BootstrapWave, OpenWave
  <2>5. NeverOverspent'
    <3>1. /\ bonus' = [bonus EXCEPT ![w] = @ + GrantSize(bonusRemaining)]
          /\ participants' = {w} /\ used' = used
      BY <2>2 DEF OpenWave, Grant
    <3>2. \A b \in Branches : used[b] <= BaseBudget[b] + bonus[b] /\ BaseBudget[b] \in Nat
      BY PlanType
    <3>3. \A b \in Branches : used'[b] <= BaseBudget[b] + bonus'[b]
      BY <2>1, <3>1, <3>2
    <3>4. used'[w] < BaseBudget[w] + bonus'[w]
      BY <2>1, <3>1, <3>2
    <3> QED
      BY <3>1, <3>3, <3>4
  <2> QED
    BY <2>3, <2>4, <2>5
<1>12. ASSUME ResumeWave PROVE LedgerInv'
  BY <1>12 DEF ResumeWave
<1>13. ASSUME PauseWave PROVE LedgerInv'
  BY <1>13 DEF PauseWave, Pause, SavePause, Exit, WaveSettled
<1>14. ASSUME FinishWave PROVE LedgerInv'
  <2>1. StatusMatchesProcess'
    BY <1>14 DEF FinishWave, WaveSettled
  <2>2. LedgerMatchesWork'
    BY <1>14 DEF FinishWave, Charged, Completed
  <2>3. \A b \in Branches : Cap[b] \in Nat /\ Cap'[b] \in Nat /\ Cap[b] <= Cap'[b]
    BY <1>14, GrantsOnlyAdd, PlanType
  <2>4. NeverOverspent'
    <3>1. \A b \in Branches : used'[b] <= Cap[b]
      <4>1. SUFFICES ASSUME NEW b \in Branches PROVE used'[b] <= Cap[b]
        OBVIOUS
      <4>2. used'[b] = used[b] + IF b \in Charged THEN 1 ELSE 0
        BY <1>14 DEF FinishWave
      <4>3. /\ used[b] \in Nat /\ Cap[b] \in Nat /\ used[b] <= Cap[b]
            /\ b \in Charged => used[b] < Cap[b]
        BY <2>3 DEF Charged
      <4> QED
        BY <4>2, <4>3
    <3>2. \A b \in Branches : used'[b] \in Nat
      OBVIOUS
    <3>3. \A b \in Branches : used'[b] <= Cap'[b]
      <4>1. SUFFICES ASSUME NEW b \in Branches PROVE used'[b] <= Cap'[b]
        OBVIOUS
      <4>2. /\ used'[b] \in Nat /\ Cap[b] \in Nat /\ Cap'[b] \in Nat
            /\ used'[b] <= Cap[b] /\ Cap[b] <= Cap'[b]
        BY <2>3, <3>1, <3>2
      <4> QED
        BY <4>2
    <3> QED
      BY <1>14, <3>3 DEF FinishWave
  <2> QED
    BY <2>1, <2>2, <2>4
<1>15. ASSUME Resume PROVE LedgerInv'
  BY <1>15 DEF Resume
<1>16. ASSUME RefuseRestore PROVE LedgerInv'
  BY <1>16 DEF RefuseRestore, Exit
<1>17. ASSUME FinishRestore PROVE LedgerInv'
  BY <1>17 DEF FinishRestore, AdoptBaseline, RestoreChecks
<1>18. ASSUME NEW k \in Keys, WriteCheckpoint(k) PROVE LedgerInv'
  BY <1>18 DEF WriteCheckpoint
<1>19. ASSUME FinishCapture PROVE LedgerInv'
  BY <1>19 DEF FinishCapture
<1>20. ASSUME FailCapture PROVE LedgerInv'
  BY <1>20 DEF FailCapture, SavePause, ReturnToCli, Exit
<1>21. ASSUME NEW b \in Branches, InitializeBranch(b) PROVE LedgerInv'
  BY <1>21 DEF InitializeBranch, EvaluateBaseline
<1>22. ASSUME NEW b \in Branches, RestoreBranch(b) PROVE LedgerInv'
  BY <1>22 DEF RestoreBranch, EvaluateBaseline
<1>23. ASSUME NEW b \in Branches, NothingToDo(b) PROVE LedgerInv'
  BY <1>23 DEF NothingToDo, InTurn, Settle
<1>24. ASSUME NEW b \in Branches, AdvanceStep(b) PROVE LedgerInv'
  <2>1. UNCHANGED <<stateVars, pc>>
    BY <1>24 DEF AdvanceStep, Settle
  <2>2. steps' = [steps EXCEPT ![b] = @ + 1] /\ b \in participants /\ steps[b] = used[b]
    BY <1>24 DEF AdvanceStep, Advancing, InTurn, Completed
  <2> QED
    BY <2>1, <2>2
<1>25. ASSUME NEW b \in Branches, AdvanceStops(b) PROVE LedgerInv'
  BY <1>25 DEF AdvanceStops, Advancing, InTurn, Settle
<1>26. ASSUME NEW b \in Branches, AdvanceFails(b) PROVE LedgerInv'
  <2>1. UNCHANGED <<stateVars, pc, steps>>
    BY <1>26 DEF AdvanceFails, Settle
  <2> QED
    BY <2>1
<1>31. ASSUME NEW b \in Branches, CloseBranch(b) PROVE LedgerInv'
  BY <1>31 DEF CloseBranch, Settle
<1>32. ASSUME NEW b \in Branches, RefuseRound(b) PROVE LedgerInv'
  BY <1>32 DEF RefuseRound, InTurn, Settle
<1>27. ASSUME Crash PROVE LedgerInv'
  BY <1>27 DEF Crash, Exit
<1>28. ASSUME UNCHANGED vars PROVE LedgerInv'
  BY <1>28
<1> QED
  BY <1>1, <1>2, <1>3, <1>4, <1>5, <1>6, <1>7, <1>8, <1>9, <1>10, <1>11,
     <1>12, <1>13, <1>14, <1>15, <1>16, <1>17, <1>18, <1>19, <1>20, <1>21,
     <1>22, <1>23, <1>24, <1>25, <1>26, <1>27, <1>28, <1>29, <1>30, <1>31, <1>32
  DEF Next, Progress

-----------------------------------------------------------------------------
(* A campaign that was never started is well typed.                        *)
LEMMA TypeInit == Init => TypeOK
<1> SUFFICES ASSUME Init PROVE TypeOK
  OBVIOUS
<1>1. bonusRemaining \in Nat /\ limit \in RoundLimits \cup {0}
  BY PlanType DEF Init
<1>2. /\ branchStatus \in [Branches -> {"pending", "active", "exhausted", "stopped"}]
      /\ childStatus \in [Branches -> {"pending", "active", "paused", "stopped"}]
      /\ settled \in [Branches -> {"none", "ok", "failed"}]
      /\ bonus \in [Branches -> Nat] /\ used \in [Branches -> Nat]
      /\ beforeSteps \in [Branches -> Nat] /\ steps \in [Branches -> Nat]
  BY DEF Init, NoneSettled
<1>3. /\ incumbent \in [Branches -> Maybe(Scores)]
      /\ beforeScore \in [Branches -> Maybe(Scores)]
      /\ champion \in [Branches -> Maybe(Scores)]
      /\ lastScore \in [Branches -> Maybe(Scores)]
      /\ lastBaseline \in [Branches -> Maybe(Scores)]
  BY DEF Init, Maybe
<1> QED
  BY <1>1, <1>2, <1>3 DEF Init, TypeOK, Statuses

(* A campaign that was never started owes nothing.                         *)
LEMMA LedgerInit == Init => LedgerInv
  BY PlanType DEF Init, LedgerInv, StatusMatchesProcess, LedgerMatchesWork,
                  NeverOverspent, Cap

(* Every variable keeps its type, through every pause, crash and restart.  *)
THEOREM TypeCorrect == Spec => []TypeOK
<1>1. TypeOK /\ [Next]_vars => TypeOK'
  BY TypeStep
<1> QED
  BY <1>1, TypeInit, PTL DEF Spec

(* In every reachable state the process meets a status it expects, stores  *)
(* and ledger agree, and nobody has spent more than it was given.          *)
THEOREM LedgerInvariant == Spec => [](TypeOK /\ LedgerInv)
<1>1. (TypeOK /\ LedgerInv) /\ [Next]_vars => (TypeOK /\ LedgerInv)'
  BY TypeStep, LedgerStep
<1> QED
  BY <1>1, TypeInit, LedgerInit, PTL DEF Spec

(* The branches' stores are never more than one paid-for round away from   *)
(* the ledger in public/state.json, whatever crash falls between the two.  *)
THEOREM WorkStaysCharged == Spec => []LedgerMatchesWork
<1>1. LedgerInv => LedgerMatchesWork
  BY DEF LedgerInv
<1> QED
  BY <1>1, LedgerInvariant, PTL

-----------------------------------------------------------------------------
(* What a resume finds, and what is left when a campaign closes            *)

(* Every branch has its baseline, and the ledger began to count.           *)
Baselined ==
    \/ status \in {"EVOLVING", "CLOSED", "BASELINE_FROZEN"}
    \/ status = "PAUSED_INFRASTRUCTURE" /\ pausePhase # "baseline"

NothingSpent ==
    ~Baselined => participants = {} /\ \A b \in Branches : used[b] = 0 /\ branchStatus[b] = "pending"

(* The ledger's incumbent is the branch's champion, except for a branch    *)
(* that is the open wave's one round ahead.                                *)
LedgerShowsChampions ==
    Baselined =>
      /\ IsPopulationBest(best, Branches, incumbent)
      /\ \A b \in Branches :
           /\ childStatus[b] # "pending"
           /\ (b \in participants => steps[b] = beforeSteps[b]) => champion[b] = incumbent[b]

BaselinesSettled ==
    /\ pc \in {"down", "launch"} => settled = NoneSettled
    /\ pc = "baseline" =>
         \A b \in Branches : \/ settled[b] \in {"none", "failed"}
                             \/ settled[b] = "ok" /\ childStatus[b] # "pending"

StoppedForGood == \A b \in Branches : branchStatus[b] = "stopped" => childStatus[b] = "stopped"

PoolOfCompetition == ~UsesCompetition => bonusRemaining = 0

RecoveryInv == /\ NothingSpent /\ LedgerShowsChampions /\ BaselinesSettled
               /\ StoppedForGood /\ PoolOfCompetition /\ NoBudgetStranded

LEMMA RecoveryInit == Init => RecoveryInv
  BY DEF Init, RecoveryInv, NothingSpent, LedgerShowsChampions, BaselinesSettled, Baselined,
         StoppedForGood, PoolOfCompetition, NoBudgetStranded, BonusPool

(* No action, and no crash between two, takes a branch's champion or its   *)
(* end away from what the ledger says.                                     *)
LEMMA RecoveryStep ==
    ASSUME TypeOK, TypeOK', LedgerInv, LedgerInv', RecoveryInv, [Next]_vars
    PROVE  RecoveryInv'
<1> USE DEF vars, stateVars, childVars, processVars, ledgerVars, waveVars,
        TypeOK, LedgerInv, StatusMatchesProcess, Cap,
        RecoveryInv, NothingSpent, LedgerShowsChampions, BaselinesSettled, Baselined,
        StoppedForGood, PoolOfCompetition, NoBudgetStranded
<1>1. ASSUME Start PROVE RecoveryInv'
  BY <1>1 DEF Start
<1>2. ASSUME StartBaseline PROVE RecoveryInv'
  BY <1>2 DEF StartBaseline, NoneSettled
<1>3. ASSUME FinishBaseline PROVE RecoveryInv'
  BY <1>3 DEF FinishBaseline, SavePause, ReturnToCli, AdoptBaseline, StatusOf
<1>4. ASSUME Freeze PROVE RecoveryInv'
  BY <1>4 DEF Freeze, Exit
<1>29. ASSUME WriteIdentity PROVE RecoveryInv'
  BY <1>29 DEF WriteIdentity
<1>30. ASSUME LeavePaused PROVE RecoveryInv'
  BY <1>30 DEF LeavePaused, Exit
<1>5. ASSUME Run PROVE RecoveryInv'
  BY <1>5 DEF Run, EnterRun
<1>6. ASSUME RunCommand PROVE RecoveryInv'
  BY <1>6 DEF RunCommand, EnterRun
<1>7. ASSUME Close PROVE RecoveryInv'
  <2>1. NoBudgetStranded'
    <3> SUFFICES ASSUME NEW b \in Branches, childStatus[b] # "stopped"
                 PROVE  used[b] = Cap[b] /\ bonusRemaining = 0
      BY <1>7 DEF Close
    <3>1. b \in NotStopped
      BY DEF NotStopped
    <3>2. Remaining(b, bonus, used) <= 0 /\ bonusRemaining = 0
      BY <1>7, <3>1, PlanType DEF Close, HasRemainingParticipant, Funded, Remaining
    <3>3. BaseBudget[b] \in Nat /\ bonus[b] \in Nat /\ used[b] \in Nat /\ used[b] <= Cap[b]
      BY PlanType DEF NeverOverspent
    <3> QED
      BY <3>2, <3>3 DEF Remaining
  <2> QED
    BY <1>7, <2>1 DEF Close
<1>8. ASSUME StopAtLimit PROVE RecoveryInv'
  BY <1>8 DEF StopAtLimit, Exit
<1>9. ASSUME WriteReport PROVE RecoveryInv'
  BY <1>9 DEF WriteReport, Exit
<1>10. ASSUME StartWave PROVE RecoveryInv'
  BY <1>10 DEF StartWave, OpenWave, NoGrant
<1>11. ASSUME BootstrapWave PROVE RecoveryInv'
  BY <1>11 DEF BootstrapWave, OpenWave, Grant
<1>12. ASSUME ResumeWave PROVE RecoveryInv'
  BY <1>12 DEF ResumeWave
<1>13. ASSUME PauseWave PROVE RecoveryInv'
  BY <1>13 DEF PauseWave, Pause, SavePause, Exit, WaveSettled
<1>14. ASSUME FinishWave PROVE RecoveryInv'
  <2>1. PoolOfCompetition'
    BY <1>14 DEF FinishWave, NoGrant
  <2>2. LedgerShowsChampions'
    BY <1>14 DEF FinishWave, IncumbentAfter, WaveSettled
  <2>3. StoppedForGood'
    BY <1>14 DEF FinishWave, StatusOf
  <2> QED
    BY <1>14, <2>1, <2>2, <2>3 DEF FinishWave
<1>15. ASSUME Resume PROVE RecoveryInv'
  BY <1>15 DEF Resume
<1>16. ASSUME RefuseRestore PROVE RecoveryInv'
  BY <1>16 DEF RefuseRestore, Exit
<1>17. ASSUME FinishRestore PROVE RecoveryInv'
  <2>1. CASE BaselineRecovery /\ AdoptBaseline("loop")
    BY <1>17, <2>1 DEF FinishRestore, AdoptBaseline, StatusOf, BaselineRecovery, HasPendingBaseline
  <2>2. CASE ~BaselineRecovery
    BY <1>17, <2>2 DEF FinishRestore, BaselineRecovery
  <2> QED
    BY <1>17, <2>1, <2>2 DEF FinishRestore
<1>18. ASSUME NEW k \in Keys, WriteCheckpoint(k) PROVE RecoveryInv'
  BY <1>18 DEF WriteCheckpoint
<1>19. ASSUME FinishCapture PROVE RecoveryInv'
  BY <1>19 DEF FinishCapture
<1>20. ASSUME FailCapture PROVE RecoveryInv'
  BY <1>20 DEF FailCapture, SavePause, ReturnToCli, Exit
<1>21. ASSUME NEW b \in Branches, InitializeBranch(b) PROVE RecoveryInv'
  BY <1>21 DEF InitializeBranch, EvaluateBaseline
<1>22. ASSUME NEW b \in Branches, RestoreBranch(b) PROVE RecoveryInv'
  BY <1>22 DEF RestoreBranch, EvaluateBaseline
<1>23. ASSUME NEW b \in Branches, NothingToDo(b) PROVE RecoveryInv'
  BY <1>23 DEF NothingToDo, InTurn, Settle
<1>24. ASSUME NEW b \in Branches, AdvanceStep(b) PROVE RecoveryInv'
  <2>1. UNCHANGED <<stateVars, pc>> /\ pc = "wave" /\ b \in participants
    BY <1>24 DEF AdvanceStep, Advancing, InTurn, Settle
  <2>2. steps' = [steps EXCEPT ![b] = @ + 1] /\ steps'[b] # beforeSteps[b]
    BY <1>24 DEF AdvanceStep, Advancing, InTurn, LedgerMatchesWork
  <2>3. \A c \in Branches \ {b} : champion'[c] = champion[c] /\ childStatus'[c] = childStatus[c]
    BY <1>24 DEF AdvanceStep
  <2>4. childStatus[b] # "stopped" /\ childStatus'[b] # "pending"
    BY <1>24 DEF AdvanceStep, Advancing
  <2> QED
    BY <2>1, <2>2, <2>3, <2>4
<1>25. ASSUME NEW b \in Branches, AdvanceStops(b) PROVE RecoveryInv'
  BY <1>25 DEF AdvanceStops, Advancing, InTurn, Settle
<1>26. ASSUME NEW b \in Branches, AdvanceFails(b) PROVE RecoveryInv'
  BY <1>26 DEF AdvanceFails, Advancing, InTurn, Settle
<1>31. ASSUME NEW b \in Branches, CloseBranch(b) PROVE RecoveryInv'
  BY <1>31 DEF CloseBranch, Settle
<1>32. ASSUME NEW b \in Branches, RefuseRound(b) PROVE RecoveryInv'
  BY <1>32 DEF RefuseRound, InTurn, Settle
<1>27. ASSUME Crash PROVE RecoveryInv'
  BY <1>27 DEF Crash, Exit
<1>28. ASSUME UNCHANGED vars PROVE RecoveryInv'
  BY <1>28
<1> QED
  BY <1>1, <1>2, <1>3, <1>4, <1>5, <1>6, <1>7, <1>8, <1>9, <1>10, <1>11,
     <1>12, <1>13, <1>14, <1>15, <1>16, <1>17, <1>18, <1>19, <1>20, <1>21,
     <1>22, <1>23, <1>24, <1>25, <1>26, <1>27, <1>28, <1>29, <1>30, <1>31, <1>32
  DEF Next, Progress

(* In every reachable state: see the parts of RecoveryInv.                 *)
LEMMA RecoveryInvariant == Spec => [](TypeOK /\ LedgerInv /\ RecoveryInv)
<1>1. TypeOK /\ LedgerInv /\ RecoveryInv /\ [Next]_vars => (TypeOK /\ LedgerInv /\ RecoveryInv)'
  BY TypeStep, LedgerStep, RecoveryStep
<1> QED
  BY <1>1, TypeInit, LedgerInit, RecoveryInit, PTL DEF Spec

(* Between waves the published best is the branch whose own champion leads,*)
(* and a pause or a stable state with complete baselines passes every check*)
(* of resume(), whatever crashes and pauses led there.                     *)
THEOREM RecoveryStaysExact == Spec => []RecoveryIsExact
<1>1. TypeOK /\ LedgerInv /\ RecoveryInv => RecoveryIsExact
  <2> SUFFICES ASSUME TypeOK, LedgerInv, RecoveryInv PROVE RecoveryIsExact
    OBVIOUS
  <2>1. BestIsChampion
    BY DEF BestIsChampion, RecoveryInv, LedgerShowsChampions, Baselined, IsPopulationBest
  <2>2. ResumeAccepts
    <3> DEFINE Passes(b) ==
           /\ used[b] <= steps[b]
           /\ steps[b] <= IF b \in participants THEN beforeSteps[b] + 1 ELSE used[b]
           /\ IF BaselineRecovery
              THEN used[b] = 0 /\ steps[b] = 0 /\ participants = {}
              ELSE steps[b] = used[b] => champion[b] = incumbent[b]
    <3>1. ASSUME \/ status = "PAUSED_INFRASTRUCTURE"
                 \/ status = "EVOLVING" /\ participants = {},
                 NEW b \in Branches
          PROVE  Passes(b)
      <4>1. used[b] \in Nat /\ steps[b] \in Nat
        BY DEF TypeOK
      <4>2. IF b \in participants THEN beforeSteps[b] = used[b] /\ steps[b] \in {used[b], used[b] + 1}
                                  ELSE steps[b] = used[b]
        BY DEF LedgerInv, LedgerMatchesWork
      <4>3. IF BaselineRecovery THEN used[b] = 0 /\ participants = {}
            ELSE (b \in participants => steps[b] = beforeSteps[b]) => champion[b] = incumbent[b]
        BY <3>1 DEF BaselineRecovery, RecoveryInv, NothingSpent, LedgerShowsChampions, Baselined
      <4> QED
        BY <4>1, <4>2, <4>3
    <3>2. (\A b \in Branches : Passes(b)) => RestoreChecks
      BY DEF RestoreChecks
    <3> HIDE DEF Passes
    <3> QED
      BY <3>1, <3>2 DEF ResumeAccepts
  <2> QED
    BY <2>1, <2>2 DEF RecoveryIsExact
<1> QED
  BY <1>1, RecoveryInvariant, PTL

(* A campaign that closed has spent the allocation of every branch that is *)
(* still searching, and its pool.                                          *)
THEOREM NothingIsStranded == Spec => []NoBudgetStranded
<1>1. RecoveryInv => NoBudgetStranded
  BY DEF RecoveryInv
<1> QED
  BY <1>1, RecoveryInvariant, PTL

(* Checkpoint files and their index only grow, and a closed or frozen      *)
(* campaign is never worked on again, by whatever command it is taken up.  *)
THEOREM WrittenStays == Spec => Durable
<1> DEFINE Stays ==
       /\ \A k \in Keys : files[k] # NoFile => files'[k] = files[k]
       /\ recorded \subseteq recorded'
       /\ status \in {"CLOSED", "BASELINE_FROZEN"}
            => UNCHANGED <<status, best, ledgerVars, steps, champion>>
<1>1. LedgerInv /\ [Next]_vars => [Stays]_vars
  <2> SUFFICES ASSUME LedgerInv, Next PROVE Stays
    OBVIOUS
  <2> USE DEF vars, stateVars, fileVars, childVars, processVars, ledgerVars, waveVars,
          LedgerInv, StatusMatchesProcess, NoFile
  <2>1. \A k \in Keys : files[k] # NoFile => files'[k] = files[k]
    <3>1. ASSUME NEW k \in Keys, WriteCheckpoint(k) PROVE \A j \in Keys : files[j] # NoFile => files'[j] = files[j]
      BY <3>1 DEF WriteCheckpoint
    <3>2. CASE UNCHANGED files
      BY <3>2
    <3>3. (\E k \in Keys : WriteCheckpoint(k)) \/ UNCHANGED files
      BY DEF Next, Progress, Start, StartBaseline, FinishBaseline, Freeze, WriteIdentity,
             LeavePaused, Run, RunCommand, EnterRun, Close, StopAtLimit, WriteReport,
             StartWave, BootstrapWave, OpenWave, ResumeWave, PauseWave, FinishWave, Resume,
             RefuseRestore, FinishRestore, FinishCapture, FailCapture, InitializeBranch,
             RestoreBranch, NothingToDo, AdvanceStep, AdvanceStops, AdvanceFails,
             CloseBranch, RefuseRound, Settle, Crash
    <3> QED
      BY <3>1, <3>2, <3>3
  <2>2. recorded \subseteq recorded'
    BY DEF Next, Progress, Start, StartBaseline, FinishBaseline, AdoptBaseline, Freeze, WriteIdentity,
           LeavePaused, Run, RunCommand, EnterRun, Close, StopAtLimit, WriteReport,
           StartWave, BootstrapWave, OpenWave, ResumeWave, PauseWave, FinishWave, Resume,
           RefuseRestore, FinishRestore, FinishCapture, FailCapture, WriteCheckpoint, InitializeBranch,
           RestoreBranch, NothingToDo, AdvanceStep, AdvanceStops, AdvanceFails,
           CloseBranch, RefuseRound, Settle, Crash
  <2>3. ASSUME status \in {"CLOSED", "BASELINE_FROZEN"}
        PROVE  UNCHANGED <<status, best, ledgerVars, steps, champion>>
    <3>1. pc \in {"down", "report"} \/ pc \notin {"launch", "baseline", "capture", "loop", "wave", "cli", "restore"}
      BY <2>3
    <3> QED
      BY <2>3, <3>1 DEF Next, Progress, Start, StartBaseline, FinishBaseline, Freeze, WriteIdentity,
           LeavePaused, Run, RunCommand, EnterRun, Close, StopAtLimit, WriteReport,
           StartWave, BootstrapWave, ResumeWave, PauseWave, WaveSettled, FinishWave, Resume,
           RefuseRestore, FinishRestore, FinishCapture, FailCapture, WriteCheckpoint, InitializeBranch,
           RestoreBranch, NothingToDo, AdvanceStep, AdvanceStops, AdvanceFails, Advancing, InTurn,
           CloseBranch, RefuseRound, Settle, Crash
  <2> QED
    BY <2>1, <2>2, <2>3
<1>2. Spec => []LedgerInv
  <2>1. TypeOK /\ LedgerInv => LedgerInv
    OBVIOUS
  <2> QED
    BY <2>1, LedgerInvariant, PTL
<1>3. Spec => [][Stays]_vars
  BY <1>1, <1>2, PTL DEF Spec
<1> QED
  BY <1>3 DEF Durable

-----------------------------------------------------------------------------
(* Checkpoints                                                             *)

HasFile(k) == files[k] # NoFile

FilesFollowIndex ==
    /\ files = [k \in Keys |-> files[k]]
    /\ \A k \in recorded \cup written : HasFile(k)
    /\ pc # "capture" => written = {}

(* A file that is not in the index yet was written for the stable state    *)
(* that is still the saved one, so writing it again finds the same content.*)
UnrecordedIsCurrent ==
    \A k \in Keys : HasFile(k) /\ k \notin recorded =>
       Baselined /\ participants = {} /\ k \in Reached /\ files[k] = Content(k)

MilestoneDue(k) == IF k[1] = "budget" THEN k[3] <= consumed ELSE k[3] <= used[k[2]]

(* Nothing is due any more where waves start and where a campaign closes.  *)
NothingDueAtWork ==
    pc \in {"loop", "wave"} \/ participants # {} \/ status = "CLOSED"
        => \A k \in Keys : MilestoneDue(k) => k \in recorded

CheckpointInv == FilesFollowIndex /\ UnrecordedIsCurrent /\ NothingDueAtWork

LEMMA CheckpointInit == Init => CheckpointInv
  BY DEF Init, CheckpointInv, FilesFollowIndex, UnrecordedIsCurrent, NothingDueAtWork, HasFile

LEMMA DueIsReached ==
    ASSUME LedgerInv, participants = {}, NEW k \in Keys
    PROVE  MilestoneDue(k) <=> k \in Reached
<1>1. k[1] # "budget" => k[2] \in Branches
  BY DEF Keys, BudgetKeys, GenerationKeys
<1> QED
  BY <1>1 DEF LedgerInv, LedgerMatchesWork, MilestoneDue, Reached

LEMMA ContentIsNoEmptyFile == \A k \in Keys : Content(k) # NoFile
<1>1. SUFFICES ASSUME NEW k \in Keys PROVE Content(k) # NoFile
  OBVIOUS
<1>2. "epoch" \in DOMAIN Content(k)
  BY DEF Content
<1>3. DOMAIN NoFile = {}
  BY DEF NoFile
<1> QED
  BY <1>2, <1>3

(* Steps that touch neither the ledger's stable state nor a checkpoint.    *)
LEMMA CheckpointFrame ==
    ASSUME CheckpointInv,
           UNCHANGED <<files, recorded, written, epoch, consumed, used, best, incumbent, stableAt>>,
           Baselined => Baselined',
           participants = {} => participants' = {} /\ UNCHANGED steps,
           pc' # "capture" => written = {},
           pc' \in {"loop", "wave"} \/ participants' # {} \/ status' = "CLOSED"
             => pc \in {"loop", "wave"} \/ participants # {} \/ status = "CLOSED"
    PROVE  CheckpointInv'
<1>1. \A k \in Keys : Content(k)' = Content(k) /\ (MilestoneDue(k)' <=> MilestoneDue(k))
  BY DEF Content, CaptureTime, MilestoneDue
<1>2. participants = {} => Reached' = Reached
  BY DEF Reached
<1>3. FilesFollowIndex'
  BY DEF CheckpointInv, FilesFollowIndex, HasFile
<1>4. UnrecordedIsCurrent'
  BY <1>1, <1>2 DEF CheckpointInv, UnrecordedIsCurrent, HasFile
<1>5. NothingDueAtWork'
  BY <1>1 DEF CheckpointInv, NothingDueAtWork
<1> QED
  BY <1>3, <1>4, <1>5 DEF CheckpointInv

(* A wave starts where every file is in the index, so no unrecorded file   *)
(* is left behind when the stable state changes at its end.                *)
LEMMA CheckpointOpen ==
    ASSUME TypeOK, LedgerInv, CheckpointInv, pc = "loop", participants = {},
           NEW S, OpenWave(S)
    PROVE  CheckpointInv'
<1>1. \A k \in Keys : HasFile(k) => k \in recorded
  BY DueIsReached DEF CheckpointInv, UnrecordedIsCurrent, NothingDueAtWork
<1>2. UNCHANGED <<files, recorded, written, consumed, used>> /\ pc' = "wave"
  BY DEF OpenWave, fileVars
<1>3. \A k \in Keys : MilestoneDue(k)' <=> MilestoneDue(k)
  BY <1>2 DEF MilestoneDue
<1> QED
  BY <1>1, <1>2, <1>3 DEF CheckpointInv, FilesFollowIndex, UnrecordedIsCurrent, NothingDueAtWork, HasFile

LEMMA CheckpointStep ==
    ASSUME TypeOK, TypeOK', LedgerInv, LedgerInv', RecoveryInv, CheckpointInv, [Next]_vars
    PROVE  CheckpointInv'
<1> USE DEF vars, stateVars, fileVars, childVars, processVars, ledgerVars, waveVars,
        LedgerInv, StatusMatchesProcess, Baselined
<1>w. pc # "capture" => written = {}
  BY DEF CheckpointInv, FilesFollowIndex
<1>r. \A k \in Keys : ~(Baselined /\ participants = {}) => (HasFile(k) => k \in recorded)
  BY DEF CheckpointInv, UnrecordedIsCurrent
<1>1. CASE Start
  BY <1>1, <1>w, CheckpointFrame DEF Start
<1>2. CASE StartBaseline
  BY <1>2, <1>w, CheckpointFrame DEF StartBaseline
<1>a. ASSUME AdoptBaseline("cli") \/ AdoptBaseline("loop"), ~Baselined,
             UNCHANGED <<files, written, recorded>>
      PROVE  CheckpointInv'
  <2>1. participants' = {} /\ pc' = "capture" /\ status' = "EVOLVING"
    BY <1>a DEF AdoptBaseline, RecoveryInv, NothingSpent
  <2> QED
    BY <1>a, <1>r, <2>1 DEF CheckpointInv, FilesFollowIndex, UnrecordedIsCurrent, NothingDueAtWork, HasFile
<1>3. CASE FinishBaseline
  <2>1. CASE \E b \in Branches : settled[b] = "failed"
    BY <1>3, <2>1, <1>w, CheckpointFrame DEF FinishBaseline, SavePause, ReturnToCli
  <2>2. CASE ~\E b \in Branches : settled[b] = "failed"
    BY <1>3, <2>2, <1>a DEF FinishBaseline, AdoptBaseline
  <2> QED
    BY <2>1, <2>2
<1>4. CASE Freeze
  BY <1>4, <1>w, CheckpointFrame DEF Freeze, Exit
<1>29. CASE WriteIdentity
  BY <1>29, <1>w, CheckpointFrame DEF WriteIdentity
<1>30. CASE LeavePaused
  BY <1>30, <1>w, CheckpointFrame DEF LeavePaused, Exit
<1>5. CASE Run
  BY <1>5, <1>w, CheckpointFrame DEF Run, EnterRun
<1>6. CASE RunCommand
  BY <1>6, <1>w, CheckpointFrame DEF RunCommand, EnterRun
<1>7. CASE Close
  BY <1>7, <1>w, CheckpointFrame DEF Close
<1>8. CASE StopAtLimit
  BY <1>8, <1>w, CheckpointFrame DEF StopAtLimit, Exit
<1>9. CASE WriteReport
  BY <1>9, <1>w, CheckpointFrame DEF WriteReport, Exit
<1>10. CASE StartWave
  BY <1>10, CheckpointOpen DEF StartWave
<1>11. CASE BootstrapWave
  BY <1>11, CheckpointOpen DEF BootstrapWave
<1>12. CASE ResumeWave
  BY <1>12, <1>w, CheckpointFrame DEF ResumeWave
<1>13. CASE PauseWave
  <2>1. participants # {}
    BY <1>13 DEF PauseWave, WaveSettled, WaveFailed
  <2> QED
    BY <1>13, <2>1, <1>w, CheckpointFrame DEF PauseWave, Pause, SavePause, Exit, WaveSettled
<1>14. CASE FinishWave
  <2>1. \A k \in Keys : HasFile(k) => k \in recorded
    BY <1>14, DueIsReached DEF FinishWave, WaveSettled, CheckpointInv, UnrecordedIsCurrent, NothingDueAtWork
  <2>2. /\ UNCHANGED <<files, recorded, written>> /\ participants' = {}
        /\ pc' = "capture" /\ status' = "EVOLVING"
    BY <1>14 DEF FinishWave
  <2> QED
    BY <2>1, <2>2 DEF CheckpointInv, FilesFollowIndex, UnrecordedIsCurrent, NothingDueAtWork, HasFile
<1>15. CASE Resume
  BY <1>15, <1>w, CheckpointFrame DEF Resume
<1>16. CASE RefuseRestore
  BY <1>16, <1>w, CheckpointFrame DEF RefuseRestore, Exit
<1>17. CASE FinishRestore
  <2>1. CASE BaselineRecovery /\ AdoptBaseline("loop")
    BY <1>17, <2>1, <1>a DEF FinishRestore, BaselineRecovery, AdoptBaseline
  <2>2. CASE ~BaselineRecovery
    BY <1>17, <2>2, <1>w, CheckpointFrame DEF FinishRestore, BaselineRecovery
  <2> QED
    BY <1>17, <2>1, <2>2 DEF FinishRestore
<1>18. CASE \E k \in Keys : WriteCheckpoint(k)
  <2>1. PICK k \in Keys : WriteCheckpoint(k)
    BY <1>18
  <2>2. /\ files' = [files EXCEPT ![k] = Content(k)] /\ written' = written \cup {k}
        /\ k \in Reached /\ k \notin recorded /\ pc = "capture"
        /\ UNCHANGED <<stateVars, childVars, pc>>
    BY <2>1 DEF WriteCheckpoint, ToCapture
  <2>3. Baselined /\ participants = {} /\ Reached' = Reached
    BY <2>2 DEF Reached
  <2>4. \A j \in Keys : Content(j)' = Content(j)
    BY <2>2 DEF Content, CaptureTime
  <2>5. files' = [j \in Keys |-> files'[j]] /\ files'[k] = Content(k)
        /\ \A j \in Keys \ {k} : files'[j] = files[j]
    BY <2>2 DEF CheckpointInv, FilesFollowIndex
  <2>6. FilesFollowIndex'
    BY <2>2, <2>5, ContentIsNoEmptyFile DEF CheckpointInv, FilesFollowIndex, HasFile, TypeOK
  <2>7. UnrecordedIsCurrent'
    BY <2>2, <2>3, <2>4, <2>5 DEF CheckpointInv, UnrecordedIsCurrent, HasFile
  <2>8. NothingDueAtWork'
    BY <2>2, <2>3 DEF CheckpointInv, NothingDueAtWork
  <2> QED
    BY <2>6, <2>7, <2>8 DEF CheckpointInv
<1>19. CASE FinishCapture
  <2>1. /\ pc = "capture" /\ participants = {} /\ status = "EVOLVING"
        /\ Reached \subseteq recorded' /\ recorded' = recorded \cup written /\ written' = {}
        /\ UNCHANGED <<files, epoch, consumed, used, best, incumbent, stableAt, status, pausePhase,
                       participants, steps>>
    BY <1>19 DEF FinishCapture, ToCapture
  <2>2. \A k \in Keys : MilestoneDue(k)' => k \in recorded'
    BY <2>1, DueIsReached DEF MilestoneDue
  <2>3. FilesFollowIndex'
    BY <2>1 DEF CheckpointInv, FilesFollowIndex, HasFile
  <2>4. UnrecordedIsCurrent'
    BY <2>1 DEF CheckpointInv, UnrecordedIsCurrent, HasFile
  <2>5. NothingDueAtWork'
    BY <2>2 DEF NothingDueAtWork
  <2> QED
    BY <2>3, <2>4, <2>5 DEF CheckpointInv
<1>20. CASE FailCapture
  <2>1. /\ written' = {} /\ pc' \in {"cli", "down"} /\ pc = "capture"
        /\ status' = "PAUSED_INFRASTRUCTURE" /\ pausePhase' = "checkpoint"
        /\ UNCHANGED <<files, epoch, consumed, used, best, incumbent, stableAt, recorded,
                       participants, steps>>
    BY <1>20 DEF FailCapture, SavePause, ReturnToCli, Exit
  <2>2. \A k \in Keys : Content(k)' = Content(k)
    BY <2>1 DEF Content, CaptureTime
  <2>3. Reached' = Reached
    BY <2>1 DEF Reached
  <2> QED
    BY <2>1, <2>2, <2>3 DEF CheckpointInv, FilesFollowIndex, UnrecordedIsCurrent, NothingDueAtWork, HasFile
<1>21. CASE \E b \in Branches : InitializeBranch(b)
  BY <1>21, <1>w, CheckpointFrame DEF InitializeBranch, EvaluateBaseline
<1>22. CASE \E b \in Branches : RestoreBranch(b)
  BY <1>22, <1>w, CheckpointFrame DEF RestoreBranch, EvaluateBaseline
<1>23. CASE \E b \in Branches : \/ NothingToDo(b) \/ AdvanceStep(b) \/ AdvanceStops(b)
                                \/ AdvanceFails(b) \/ RefuseRound(b)
  <2>1. participants # {} /\ UNCHANGED <<stateVars, fileVars, pc, written>>
    BY <1>23 DEF NothingToDo, AdvanceStep, AdvanceStops, AdvanceFails, RefuseRound,
                 Advancing, InTurn, Settle
  <2> QED
    BY <2>1, <1>w, CheckpointFrame
<1>31. CASE \E b \in Branches : CloseBranch(b)
  BY <1>31, <1>w, CheckpointFrame DEF CloseBranch, Settle
<1>27. CASE Crash
  <2>1. /\ written' = {} /\ pc' = "down" /\ UNCHANGED <<stateVars, fileVars, childVars>>
    BY <1>27 DEF Crash, Exit
  <2>2. \A k \in Keys : Content(k)' = Content(k) /\ (MilestoneDue(k)' <=> MilestoneDue(k))
    BY <2>1 DEF Content, CaptureTime, MilestoneDue
  <2>3. Reached' = Reached
    BY <2>1 DEF Reached
  <2> QED
    BY <2>1, <2>2, <2>3 DEF CheckpointInv, FilesFollowIndex, UnrecordedIsCurrent, NothingDueAtWork, HasFile
<1>28. CASE UNCHANGED vars
  BY <1>28, <1>w, CheckpointFrame
<1> QED
  BY <1>1, <1>2, <1>3, <1>4, <1>5, <1>6, <1>7, <1>8, <1>9, <1>10, <1>11,
     <1>12, <1>13, <1>14, <1>15, <1>16, <1>17, <1>18, <1>19, <1>20, <1>21,
     <1>22, <1>23, <1>27, <1>28, <1>29, <1>30, <1>31
  DEF Next, Progress

(* However captures are cut short and repeated, no checkpoint file on disk *)
(* is ever refused, and every milestone is on disk and in the index before *)
(* work goes on or the campaign closes.                                    *)
THEOREM CheckpointsStaySound == Spec => []CheckpointsAreSound
<1>1. TypeOK /\ LedgerInv /\ CheckpointInv => CheckpointsAreSound
  <2> SUFFICES ASSUME TypeOK, LedgerInv, CheckpointInv PROVE CheckpointsAreSound
    OBVIOUS
  <2>1. NoCheckpointConflict
    BY DEF NoCheckpointConflict, CheckpointInv, UnrecordedIsCurrent, HasFile, ToCapture, Reached
  <2>2. MilestonesRecorded
    BY DEF MilestonesRecorded, CheckpointInv, NothingDueAtWork, MilestoneDue, FilesFollowIndex, HasFile
  <2> QED
    BY <2>1, <2>2 DEF CheckpointsAreSound
<1>2. CheckpointInv /\ TypeOK /\ LedgerInv /\ RecoveryInv /\ TypeOK' /\ LedgerInv' /\ [Next]_vars
        => CheckpointInv'
  BY CheckpointStep
<1> QED
  BY <1>1, <1>2, CheckpointInit, RecoveryInvariant, PTL DEF Spec

-----------------------------------------------------------------------------
(* Conservation of the budget                                              *)

BudgetSums ==
    /\ Cardinality(Credits(Cap)) + bonusRemaining = TotalBudget
    /\ bonusGranted = Cardinality(Credits(bonus))
    /\ consumed = Cardinality(Credits(used))

(* Only a bootstrap grant and the end of a wave touch the ledger.          *)
LEMMA LedgerFrame ==
    ASSUME [Next]_vars
    PROVE  BootstrapWave \/ FinishWave \/ UNCHANGED ledgerVars
<1> USE DEF vars, stateVars, ledgerVars
<1>1. CASE \/ Start \/ StartBaseline \/ FinishBaseline \/ Freeze
           \/ WriteIdentity \/ LeavePaused \/ Run \/ RunCommand \/ Close \/ StopAtLimit \/ WriteReport
  BY <1>1 DEF Start, StartBaseline, FinishBaseline, AdoptBaseline, Freeze,
              WriteIdentity, LeavePaused, Run,
              EnterRun, RunCommand, Close, StopAtLimit, WriteReport
<1>2. CASE \/ StartWave \/ ResumeWave \/ PauseWave \/ Resume \/ RefuseRestore
           \/ FinishRestore \/ FinishCapture \/ FailCapture \/ Crash
  BY <1>2 DEF StartWave, OpenWave, NoGrant, ResumeWave, PauseWave, Resume,
              RefuseRestore, FinishRestore, AdoptBaseline, FinishCapture,
              FailCapture, Crash
<1>3. ASSUME NEW k \in Keys, WriteCheckpoint(k) PROVE UNCHANGED ledgerVars
  BY <1>3 DEF WriteCheckpoint
<1>4. ASSUME NEW b \in Branches,
             \/ InitializeBranch(b) \/ RestoreBranch(b) \/ NothingToDo(b)
             \/ AdvanceStep(b) \/ AdvanceStops(b) \/ AdvanceFails(b)
             \/ CloseBranch(b) \/ RefuseRound(b)
      PROVE  UNCHANGED ledgerVars
  BY <1>4 DEF InitializeBranch, RestoreBranch, NothingToDo, AdvanceStep,
              AdvanceStops, AdvanceFails, CloseBranch, RefuseRound, Settle
<1>5. CASE UNCHANGED vars
  BY <1>5
<1> QED
  <2> HIDE DEF vars, stateVars, ledgerVars
  <2> QED
    BY <1>1, <1>2, <1>3, <1>4, <1>5 DEF Next, Progress

(* A grant of a adds a to the credits granted and to those given out.      *)
LEMMA GrantSums ==
    ASSUME TypeOK, NEW w \in Branches, NEW a \in Nat, Grant(w, a)
    PROVE  /\ Cardinality(Credits(bonus')) = Cardinality(Credits(bonus)) + a
           /\ Cardinality(Credits(Cap')) = Cardinality(Credits(Cap)) + a
<1>1. bonus \in [Branches -> Nat] /\ bonus' = [bonus EXCEPT ![w] = @ + a]
  BY DEF TypeOK, Grant
<1>2. \A b \in Branches : BaseBudget[b] \in Nat /\ bonus[b] \in Nat
  BY <1>1, PlanType
<1>3. \A b \in Branches : BaseBudget[b] + bonus[b] \in Nat
  BY <1>2
<1>4. Cap \in [Branches -> Nat]
  BY <1>3 DEF Cap
<1>5. Cap' = [Cap EXCEPT ![w] = @ + a]
  <2>1. Cap' = [b \in Branches |-> BaseBudget[b] + bonus'[b]]
    BY DEF Cap
  <2>2. \A b \in Branches : bonus'[b] = IF b = w THEN bonus[b] + a ELSE bonus[b]
    BY <1>1
  <2>3. \A b \in Branches : Cap'[b] = IF b = w THEN Cap[b] + a ELSE Cap[b]
    BY <1>2, <2>1, <2>2 DEF Cap
  <2>4. Cap = [b \in Branches |-> Cap[b]] /\ Cap' = [b \in Branches |-> Cap'[b]]
    BY <2>1 DEF Cap
  <2> QED
    BY <2>3, <2>4
<1> HIDE DEF Cap
<1> QED
  BY <1>1, <1>4, <1>5, CreditsGranted

(* Every step keeps the three sums: bootstrap grants and settlements move  *)
(* credits between the pool and a branch, nothing else touches them.       *)
LEMMA BudgetStep ==
    ASSUME TypeOK, BudgetSums, [Next]_vars
    PROVE  BudgetSums'
<1>0. /\ Cardinality(Credits(Cap)) + bonusRemaining = TotalBudget
      /\ bonusGranted = Cardinality(Credits(bonus))
      /\ consumed = Cardinality(Credits(used))
  BY DEF BudgetSums
<1>1. SUFFICES /\ Cardinality(Credits(Cap')) + bonusRemaining' = TotalBudget
               /\ bonusGranted' = Cardinality(Credits(bonus'))
               /\ consumed' = Cardinality(Credits(used'))
  BY DEF BudgetSums, Credits
<1>2. /\ Cardinality(Credits(Cap)) \in Nat /\ Cardinality(Credits(bonus)) \in Nat
      /\ Cardinality(Credits(used)) \in Nat /\ bonusRemaining \in Nat
      /\ TotalBudget \in Nat
  <2>1. Cap \in [Branches -> Nat] /\ bonus \in [Branches -> Nat] /\ used \in [Branches -> Nat]
    BY PlanType DEF TypeOK, Cap
  <2> HIDE DEF Cap
  <2> QED
    BY <2>1, CreditsFinite, ConfigAssumption DEF TypeOK, ConfigAssumption
<1>3. ASSUME bonusRemaining > 0, NEW w \in Branches, Grant(w, GrantSize(bonusRemaining))
      PROVE  /\ Cardinality(Credits(Cap')) + bonusRemaining' = TotalBudget
             /\ bonusGranted' = Cardinality(Credits(bonus'))
  <2>1. GrantSize(bonusRemaining) \in Nat /\ GrantSize(bonusRemaining) <= bonusRemaining
    BY <1>2, <1>3, GrantFits
  <2>2. /\ Cardinality(Credits(bonus')) = Cardinality(Credits(bonus)) + GrantSize(bonusRemaining)
        /\ Cardinality(Credits(Cap')) = Cardinality(Credits(Cap)) + GrantSize(bonusRemaining)
    BY <1>3, <2>1, GrantSums
  <2>3. /\ bonusRemaining' = bonusRemaining - GrantSize(bonusRemaining)
        /\ bonusGranted' = bonusGranted + GrantSize(bonusRemaining)
    BY <1>3 DEF Grant
  <2> QED
    BY <1>0, <1>2, <2>1, <2>2, <2>3
<1>4. CASE UNCHANGED ledgerVars
  <2>1. Cap' = Cap /\ bonus' = bonus /\ used' = used
    BY <1>4 DEF ledgerVars, Cap
  <2> HIDE DEF Cap
  <2> QED
    BY <1>0, <1>4, <2>1 DEF ledgerVars
<1>5. CASE BootstrapWave
  <2>1. consumed' = consumed /\ used' = used
    BY <1>5 DEF BootstrapWave, OpenWave
  <2>2. \E w \in Branches : bonusRemaining > 0 /\ Grant(w, GrantSize(bonusRemaining))
    BY <1>5 DEF BootstrapWave, NotStopped
  <2> QED
    BY <1>0, <1>3, <2>1, <2>2
<1>6. CASE FinishWave
  <2>1. consumed' = Cardinality(Credits(used'))
    <3>1. used' = [b \in Branches |-> used[b] + IF b \in Charged THEN 1 ELSE 0]
      BY <1>6 DEF FinishWave
    <3>2. Cardinality(Credits(used')) = Cardinality(Credits(used)) + Cardinality(Charged)
      BY <3>1, ChargedFinite, CreditsCharged DEF TypeOK
    <3> QED
      BY <1>0, <1>6, <3>2 DEF FinishWave
  <2>2. CASE NoGrant
    <3>1. Cap' = Cap /\ UNCHANGED <<bonus, bonusRemaining, bonusGranted>>
      BY <2>2 DEF NoGrant, Cap
    <3> HIDE DEF Cap
    <3> QED
      BY <1>0, <2>1, <3>1
  <2>3. CASE ~NoGrant
    <3>1. \E w \in Branches : bonusRemaining > 0 /\ Grant(w, GrantSize(bonusRemaining))
      <4>1. \E w \in Eligible : bonusRemaining > 0 /\ Grant(w, GrantSize(bonusRemaining))
        BY <1>6, <2>3 DEF FinishWave
      <4> QED
        BY <4>1, ChargedFinite DEF Eligible
    <3> QED
      BY <1>3, <2>1, <3>1
  <2> QED
    BY <2>2, <2>3
<1> QED
  BY <1>4, <1>5, <1>6, LedgerFrame

(* The budget plan of initialize() adds up before any work.                *)
LEMMA BudgetInit == Init => BudgetSums
<1> SUFFICES ASSUME Init PROVE BudgetSums
  OBVIOUS
<1>1. Cap = BaseBudget
  BY PlanType DEF Init, Cap
<1>2. Cardinality(Credits(bonus)) = 0 /\ Cardinality(Credits(used)) = 0
  BY CreditsNone DEF Init
<1> HIDE DEF Cap
<1> QED
  BY <1>1, <1>2, PlanExact DEF Init, BudgetSums

(* No credit of the budget is ever created, lost or spent twice.           *)
THEOREM BudgetIsConserved == Spec => []BudgetConserved
<1>1. TypeOK /\ BudgetSums /\ [Next]_vars => BudgetSums'
  BY BudgetStep
<1>2. BudgetSums /\ LedgerInv => BudgetConserved
  BY DEF BudgetSums, LedgerInv, NeverOverspent, BudgetConserved
<1> QED
  BY <1>1, <1>2, BudgetInit, LedgerInvariant, PTL DEF Spec

-----------------------------------------------------------------------------
(* The controller implements the credit ledger                             *)

LedgerVars == <<steps, used, bonus, bonusRemaining, status = "CLOSED">>

(* Most steps are invisible to the ledger.                                 *)
LEMMA LedgerStutters ==
    ASSUME TypeOK, LedgerInv, [Next]_vars
    PROVE  \/ UNCHANGED LedgerVars
           \/ BootstrapWave \/ FinishWave \/ Close
           \/ \E b \in Branches : AdvanceStep(b)
<1> USE DEF vars, stateVars, ledgerVars, childVars, LedgerVars, LedgerInv,
            StatusMatchesProcess
<1>1. CASE \/ Start \/ StartBaseline \/ FinishBaseline \/ Freeze
           \/ WriteIdentity \/ LeavePaused \/ Run \/ RunCommand \/ StopAtLimit \/ WriteReport
  BY <1>1 DEF Start, StartBaseline, FinishBaseline, SavePause, AdoptBaseline,
              Freeze, WriteIdentity, LeavePaused, Run, EnterRun, RunCommand, StopAtLimit, WriteReport
<1>2. CASE \/ StartWave \/ ResumeWave \/ PauseWave \/ Resume \/ RefuseRestore
           \/ FinishRestore \/ FinishCapture \/ FailCapture \/ Crash
  BY <1>2 DEF StartWave, OpenWave, NoGrant, ResumeWave, PauseWave, WaveSettled,
              Pause, SavePause, Resume, RefuseRestore, FinishRestore, AdoptBaseline,
              FinishCapture, FailCapture, Crash
<1>3. ASSUME NEW k \in Keys, WriteCheckpoint(k) PROVE UNCHANGED LedgerVars
  BY <1>3 DEF WriteCheckpoint
<1>4. ASSUME NEW b \in Branches,
             \/ InitializeBranch(b) \/ RestoreBranch(b) \/ NothingToDo(b)
             \/ AdvanceStops(b) \/ AdvanceFails(b) \/ CloseBranch(b)
             \/ RefuseRound(b)
      PROVE  UNCHANGED LedgerVars
  BY <1>4 DEF InitializeBranch, EvaluateBaseline, RestoreBranch, NothingToDo,
              AdvanceStops, AdvanceFails, CloseBranch, RefuseRound, Settle
<1>5. CASE UNCHANGED vars
  BY <1>5
<1> QED
  <2> HIDE DEF vars, stateVars, ledgerVars, childVars, LedgerVars, LedgerInv
  <2> QED
    BY <1>1, <1>2, <1>3, <1>4, <1>5 DEF Next, Progress

(* Both modules read the same budget plan.                                 *)
LEMMA SamePlan ==
    /\ Ledger!Branches = Branches
    /\ Ledger!BaseBudget = BaseBudget
    /\ Ledger!BonusPool = BonusPool
  BY DEF Ledger!Branches, Branches, Ledger!BaseBudget, BaseBudget,
         Ledger!BonusPool, BonusPool, Ledger!UsesCompetition, UsesCompetition,
         Ledger!PerBranch, PerBranch, Ledger!EvenShare, EvenShare

(* A grant of the controller is a grant of the ledger.                     *)
LEMMA GrantRefines ==
    ASSUME NEW w, UsesCompetition, bonusRemaining > 0,
           Grant(w, GrantSize(bonusRemaining))
    PROVE  Ledger!GrantTo(w)
  BY DEF Grant, Ledger!GrantTo, Ledger!GrantSize, GrantSize, Ledger!UsesCompetition,
         UsesCompetition

(* Every step of the controller is a step of the ledger or invisible to it.*)
LEMMA StepRefines ==
    ASSUME TypeOK, LedgerInv, [Next]_vars
    PROVE  Ledger!Next \/ UNCHANGED LedgerVars
<1> USE DEF TypeOK, LedgerInv, LedgerMatchesWork, StatusMatchesProcess
<1>1. ASSUME NEW b \in Branches, AdvanceStep(b) PROVE Ledger!Work(b)
  <2>1. UNCHANGED <<stateVars, pc>> /\ steps' = [steps EXCEPT ![b] = @ + 1]
    BY <1>1 DEF AdvanceStep, Settle
  <2>2. status = "EVOLVING" /\ b \in participants /\ steps[b] = used[b]
    BY <1>1 DEF AdvanceStep, Advancing, InTurn, Completed
  <2>3. used[b] < BaseBudget[b] + bonus[b]
    BY <2>2 DEF NeverOverspent, Cap
  <2> QED
    BY <2>1, <2>2, <2>3, SamePlan
    DEF stateVars, ledgerVars, Ledger!Work, Ledger!Funded
<1>2. ASSUME participants = {} PROVE used = steps
  BY <1>2
<1>3. ASSUME Close PROVE Ledger!Close
  BY <1>2, <1>3 DEF Close, ledgerVars, childVars, Ledger!Close
<1>4. ASSUME BootstrapWave PROVE Ledger!Bootstrap
  <2>1. PICK w \in NotStopped : Grant(w, GrantSize(bonusRemaining)) /\ OpenWave({w})
    BY <1>4 DEF BootstrapWave
  <2>2. w \in Branches /\ Remaining(w, bonus, used) <= 0
    <3>1. w \notin Funded(bonus) /\ w \in Branches
      BY <1>4 DEF BootstrapWave, NotStopped
    <3> QED
      BY <3>1, PlanType DEF Funded, Remaining
  <2>3. ~Ledger!Funded(w)
    BY <2>2, PlanType, SamePlan DEF Remaining, Ledger!Funded
  <2>4. status = "EVOLVING" /\ status' = status /\ UNCHANGED <<steps, used>>
    BY <1>4, <2>1 DEF BootstrapWave, OpenWave, childVars
  <2>5. used = steps
    BY <1>2, <1>4 DEF BootstrapWave
  <2>6. Ledger!GrantTo(w)
    BY <1>4, <2>1, GrantRefines DEF BootstrapWave
  <2> QED
    BY <2>2, <2>3, <2>4, <2>5, <2>6, SamePlan DEF Ledger!Bootstrap
<1>5. ASSUME FinishWave PROVE Ledger!Settle \/ UNCHANGED LedgerVars
  <2>1. /\ used' = [b \in Branches |-> used[b] + IF b \in Charged THEN 1 ELSE 0]
        /\ status = "EVOLVING" /\ status' = "EVOLVING" /\ steps' = steps
    BY <1>5 DEF FinishWave, WaveSettled, childVars
  <2>2. \A b \in Branches : b \in Charged <=> steps[b] = used[b] + 1
    BY DEF Charged, Completed
  <2>3. used' = steps
    <3>1. \A b \in Branches : used[b] + (IF b \in Charged THEN 1 ELSE 0) = steps[b]
      BY <2>2
    <3> QED
      BY <2>1, <3>1
  <2>4. CASE UNCHANGED <<bonus, bonusRemaining>>
    BY <2>1, <2>3, <2>4 DEF Ledger!Settle, LedgerVars
  <2>5. CASE ~UNCHANGED <<bonus, bonusRemaining>>
    <3>1. PICK w \in Eligible : UsesCompetition /\ bonusRemaining > 0
                                /\ Grant(w, GrantSize(bonusRemaining))
      BY <1>5, <2>5 DEF FinishWave, NoGrant
    <3>2. w \in Branches /\ steps[w] > used[w]
      BY <2>2, ChargedFinite DEF Eligible
    <3>3. Ledger!GrantTo(w)
      BY <3>1, GrantRefines
    <3> QED
      BY <2>1, <2>3, <3>2, <3>3, SamePlan DEF Ledger!Settle
  <2> QED
    BY <2>4, <2>5
<1> QED
  BY <1>1, <1>3, <1>4, <1>5, LedgerStutters, SamePlan DEF Ledger!Next

(* A campaign that was never started is an untouched ledger.               *)
LEMMA InitRefines == Init => Ledger!Init
  BY SamePlan DEF Init, Ledger!Init

(* The controller with its waves, pauses, crashes and restarts does nothing*)
(* the credit ledger does not allow.                                       *)
THEOREM ImplementsCreditLedger == Spec => ImplementsLedger
<1>1. TypeOK /\ LedgerInv /\ [Next]_vars => [Ledger!Next]_(Ledger!ledger)
  BY StepRefines DEF LedgerVars, Ledger!ledger
<1> QED
  BY <1>1, InitRefines, LedgerInvariant, PTL DEF Spec, ImplementsLedger, Ledger!Spec

=============================================================================
