---------------------------- MODULE CoworkBranch ----------------------------
(***************************************************************************)
(* The Cowork branch driver: one branch, its files and the one controller  *)
(* process that works on it.  A generation asks the search strategy for a  *)
(* plan, collects feedback, has the updater build a candidate under a retry*)
(* journal, saves the candidate, decides and commits; the process may die  *)
(* anywhere, and an infrastructure error ends it after saving the branch.  *)
(* The population asks for step charged + 1 until the branch has it.       *)
(***************************************************************************)
EXTENDS Naturals, Sequences, SequencesExt

CONSTANTS Budget,          \* steps the population pays for
          MaximumRetries,  \* supervision.maximumRetries
          Misses,          \* missesBeforeExpansion of the search strategy
          TopLevel,        \* risk levels the target offers, 1..TopLevel
          PreserveTrials,  \* restore leaves trials/ to the environment
          MaxFaults        \* bound on crashes and infrastructure errors

ASSUME CoworkBranchAssumption ==
    /\ Budget \in Nat \ {0} /\ MaximumRetries \in 0 .. 5
    /\ Misses \in Nat \ {0} /\ TopLevel \in 1 .. 3
    /\ PreserveTrials \in BOOLEAN /\ MaxFaults \in Nat

VARIABLES
    charged,   \* public/state.json of the population: settled steps
    root,      \* the run root exists
    saved,     \* state.json of the branch, NoState when absent
    log,       \* public/evolution-log.jsonl, NoLog when absent
    journal,   \* updater-attempts/<candidate>/state.json
    dir,       \* candidates/<candidate>: "none", "partial" or "whole"
    outputs,   \* generations/, results/ and trials/ of a generation
    state,     \* the driver's copy of state.json, NoState when not running
    pc, outcome, before,
    launched,  \* times the updater was started for a generation
    faults

durable == <<charged, root, saved, log, journal, dir, outputs>>
process == <<state, pc, outcome, before>>
vars == <<durable, process, launched, faults>>

Generations == 1 .. Budget
Outcomes == {"promoted", "rejected", "invalid"}
NoState == [status |-> "none"]
NoLog == <<"absent">>
NoJournal == [status |-> "none", attempts |-> <<>>]
Kinds == {"generations", "results", "trials"}
Rank == [k \in Kinds |-> CASE k = "generations" -> 1
                           [] k = "results" -> 2
                           [] k = "trials" -> 3]

-----------------------------------------------------------------------------
(* The progressive-risk-expansion strategy                                 *)

FreshStrategy == [level |-> 1, misses |-> 0, proposed |-> 0, observed |-> 0,
                  exhausted |-> FALSE]

Proposed(s) == [s EXCEPT !.proposed = @ + 1]

Observed(s, o) ==
    LET missed == IF o = "promoted" THEN 0 ELSE s.misses + 1
        spent == missed >= Misses
        climbs == spent /\ s.level < TopLevel
    IN [s EXCEPT !.observed = @ + 1,
                 !.level = IF climbs THEN @ + 1 ELSE @,
                 !.misses = IF climbs THEN 0 ELSE missed,
                 !.exhausted = spent /\ ~climbs]

-----------------------------------------------------------------------------
(* What the files say                                                      *)

Baseline == [status |-> "baseline-running", history |-> <<>>, champion |-> 0,
             inFlight |-> 0, strategy |-> FreshStrategy]

Exists(s) == s.status # "none"
Completed(s) == Len(s.history)
Current(s) == Completed(s) + 1

(* Generations whose candidate directory state.json refers to; an invalid  *)
(* proposal keeps its directory too.                                       *)
Referenced(s) == (1 .. Completed(s)) \cup ({s.inFlight} \ {0})

NeedsRepairOfAbsent(l, s) == l = NoLog
NeedsRepair(l, s) == l # s.history

(* Restoring archives the files of the current generation, except when a   *)
(* candidate is ready: saved with the state, or succeeded in the journal.  *)
KeepsProposalInState(s, j) == s.status = "stopped" \/ s.inFlight # 0
KeepsProposal(s, j) ==
    \/ s.status = "stopped" \/ s.inFlight # 0
    \/ Current(s) \in Generations /\ j[Current(s)].status = "succeeded"

Incomplete(s) ==
    {k \in Kinds : <<k, Current(s)>> \in outputs
                       /\ (k = "trials" => ~PreserveTrials)}
HasCandidate(s) ==
    Current(s) \in Generations /\ dir[Current(s)] # "none"

-----------------------------------------------------------------------------
(* The retry journal of the updater                                        *)

LastAttempt(j) == IF j.attempts = <<>> THEN "none" ELSE Last(j.attempts)
WithLast(j, status, attempt) ==
    [status |-> status,
     attempts |-> ReplaceAt(j.attempts, Len(j.attempts), attempt)]
Started(j) ==
    [status |-> "running", attempts |-> Append(j.attempts, "running")]
InterruptedForgotten(j) ==
    [status |-> "failed", attempts |-> Front(j.attempts)]
Interrupted(j) == WithLast(j, "failed", "interrupted")

(* "failed" may be tried again; "fatal" (the launcher or the docker daemon *)
(* refuses) and "invalid" (the candidate breaks the policy) may not.       *)
Barred(j) == LastAttempt(j) \in {"fatal", "invalid"}
Exhausted(j) == Len(j.attempts) > MaximumRetries

-----------------------------------------------------------------------------
(* The process ends: killed, or by an error that pauses the population     *)

Init ==
    /\ charged = 0 /\ root = FALSE /\ saved = NoState /\ log = NoLog
    /\ journal = [g \in Generations |-> NoJournal]
    /\ dir = [g \in Generations |-> "none"] /\ outputs = {}
    /\ state = NoState /\ pc = "down" /\ outcome = "none"
    /\ before = FreshStrategy
    /\ launched = [g \in Generations |-> 0] /\ faults = 0

Gone ==
    /\ state' = NoState /\ pc' = "down" /\ outcome' = "none"
    /\ before' = FreshStrategy

Crash ==
    /\ pc # "down" /\ faults < MaxFaults
    /\ Gone /\ faults' = faults + 1
    /\ UNCHANGED <<durable, launched>>

(* An error outside the candidate's responsibility leaves the generation   *)
(* open: the strategy forgets its proposal unless the candidate is saved.  *)
RolledBack(s) == IF s.inFlight # 0 THEN s ELSE [s EXCEPT !.strategy = before]

Fail ==
    /\ saved' = RolledBack(state)
    /\ Gone
    /\ UNCHANGED <<charged, root, log, journal, dir, outputs, launched>>

InfrastructureError ==
    /\ pc \in {"baseline", "feedback", "decide"} /\ faults < MaxFaults
    /\ faults' = faults + 1
    /\ Fail

-----------------------------------------------------------------------------
(* initialize and restore                                                  *)

(* The root is made and filled with H0 before any state exists.            *)
CreateRoot ==
    /\ pc = "down" /\ ~root
    /\ root' = TRUE /\ pc' = "founding"
    /\ UNCHANGED <<charged, saved, log, journal, dir, outputs, state, outcome,
                   before, launched, faults>>

(* state.json and the empty evolution log are written side by side.        *)
FoundLog ==
    /\ pc = "founding" /\ log = NoLog
    /\ log' = <<>>
    /\ pc' = IF Exists(saved) THEN "baseline" ELSE pc
    /\ UNCHANGED <<charged, root, saved, journal, dir, outputs, state, outcome,
                   before, launched, faults>>

FoundState ==
    /\ pc = "founding" /\ ~Exists(saved)
    /\ saved' = Baseline /\ state' = Baseline
    /\ pc' = IF log = NoLog THEN pc ELSE "baseline"
    /\ UNCHANGED <<charged, root, log, journal, dir, outputs, outcome, before,
                   launched, faults>>

EvaluateBaseline ==
    /\ pc = "baseline"
    /\ saved' = [state EXCEPT !.status = "running"] /\ state' = saved'
    /\ pc' = "idle"
    /\ UNCHANGED <<charged, root, log, journal, dir, outputs, outcome, before,
                   launched, faults>>

(* A root without state.json is put aside whole and made anew.             *)
ArchiveRoot ==
    /\ pc = "down" /\ root /\ ~Exists(saved)
    /\ root' = FALSE /\ log' = NoLog
    /\ UNCHANGED <<charged, saved, journal, dir, outputs, process, launched,
                   faults>>

(* Every candidate the state refers to must be there and unchanged.        *)
Restorable(s) == \A g \in Referenced(s) : dir[g] = "whole"

AfterRepair(s) == IF s.status = "baseline-running" THEN "baseline" ELSE "archive"

Restore ==
    /\ pc = "down" /\ Exists(saved) /\ Restorable(saved)
    /\ state' = saved
    /\ pc' = IF NeedsRepair(log, saved) THEN "repair" ELSE AfterRepair(saved)
    /\ UNCHANGED <<durable, outcome, before, launched, faults>>

MoveLog ==
    /\ pc = "repair" /\ log # NoLog
    /\ log' = NoLog
    /\ UNCHANGED <<charged, root, saved, journal, dir, outputs, process,
                   launched, faults>>

RewriteLog ==
    /\ pc = "repair" /\ log = NoLog
    /\ log' = state.history
    /\ pc' = AfterRepair(state)
    /\ UNCHANGED <<charged, root, saved, journal, dir, outputs, state, outcome,
                   before, launched, faults>>

(* One rename of archiveIncompleteCoworkGeneration, the candidate first.   *)
ArchiveCandidate ==
    /\ pc = "archive" /\ ~KeepsProposal(state, journal) /\ HasCandidate(state)
    /\ dir' = [dir EXCEPT ![Current(state)] = "none"]
    /\ UNCHANGED <<charged, root, saved, log, journal, outputs, process,
                   launched, faults>>

ArchiveOutput ==
    /\ pc = "archive" /\ ~KeepsProposal(state, journal) /\ ~HasCandidate(state)
    /\ \E k \in Incomplete(state) :
          /\ \A l \in Incomplete(state) : Rank[k] <= Rank[l]
          /\ outputs' = outputs \ {<<k, Current(state)>>}
    /\ UNCHANGED <<charged, root, saved, log, journal, dir, process, launched,
                   faults>>

Archived ==
    /\ pc = "archive"
    /\ \/ KeepsProposal(state, journal)
       \/ ~HasCandidate(state) /\ Incomplete(state) = {}
    /\ pc' = "idle"
    /\ UNCHANGED <<durable, state, outcome, before, launched, faults>>

-----------------------------------------------------------------------------
(* advanceOne                                                              *)

(* A branch that already has the step the population asks for answers with *)
(* it, whether the answer was lost or only its settlement.                 *)
AnsweredNever(s) == FALSE
Answered(s) == Completed(s) = charged + 1

Settle ==
    /\ pc = "idle" /\ Answered(state)
    /\ charged' = charged + 1
    /\ UNCHANGED <<root, saved, log, journal, dir, outputs, process, launched,
                   faults>>

MayAdvance ==
    /\ pc = "idle" /\ ~Answered(state) /\ charged < Budget
    /\ state.status = "running"

Begin ==
    /\ MayAdvance /\ Current(state) \in Generations
    /\ before' = state.strategy
    /\ state' = IF state.inFlight # 0 THEN state
                ELSE [state EXCEPT !.strategy = Proposed(@)]
    /\ outputs' = outputs \cup {<<"generations", Current(state)>>}
    /\ pc' = "feedback"
    /\ UNCHANGED <<charged, root, saved, log, journal, dir, outcome, launched,
                   faults>>

CollectFeedback ==
    /\ pc = "feedback"
    /\ outputs' = outputs \cup {<<k, Current(state)>> : k \in {"results", "trials"}}
    /\ pc' = "update"
    /\ UNCHANGED <<charged, root, saved, log, journal, dir, state, outcome,
                   before, launched, faults>>

-----------------------------------------------------------------------------
(* recoverUpdater                                                          *)

G == Current(state)
Journal(j) == journal' = [journal EXCEPT ![G] = j]
Updating == pc = "update" /\ state.inFlight = 0

ReuseProposal ==
    /\ pc = "update"
    /\ \/ state.inFlight # 0
       \/ journal[G].status = "succeeded" /\ dir[G] = "whole"
    /\ pc' = "save"
    /\ UNCHANGED <<durable, state, outcome, before, launched, faults>>

(* A running attempt found in the journal died with its process.           *)
MarkInterrupted ==
    /\ Updating /\ journal[G].status = "running"
    /\ dir' = [dir EXCEPT ![G] = "none"]
    /\ Journal(Interrupted(journal[G]))
    /\ UNCHANGED <<charged, root, saved, log, outputs, process, launched,
                   faults>>

Unfinished == Updating /\ journal[G].status \notin {"running", "succeeded"}

(* No attempt is left, or the last one must not be repeated: pause.        *)
GiveUp ==
    /\ Unfinished /\ (Barred(journal[G]) \/ Exhausted(journal[G]))
    /\ Fail /\ UNCHANGED faults

StartAttempt ==
    /\ Unfinished /\ ~Barred(journal[G]) /\ ~Exhausted(journal[G])
    /\ Journal(Started(journal[G]))
    /\ launched' = [launched EXCEPT ![G] = @ + 1]
    /\ dir' = [dir EXCEPT ![G] = "partial"]
    /\ pc' = "attempt"
    /\ UNCHANGED <<charged, root, saved, log, outputs, state, outcome, before,
                   faults>>

(* The workspace is complete before the journal says so.                   *)
BuildCandidate ==
    /\ pc = "attempt" /\ dir[G] = "partial"
    /\ dir' = [dir EXCEPT ![G] = "whole"]
    /\ UNCHANGED <<charged, root, saved, log, journal, outputs, process,
                   launched, faults>>

AttemptSucceeds ==
    /\ pc = "attempt" /\ dir[G] = "whole"
    /\ Journal(WithLast(journal[G], "succeeded", "succeeded"))
    /\ pc' = "save"
    /\ UNCHANGED <<charged, root, saved, log, dir, outputs, state, outcome,
                   before, launched, faults>>

AttemptFails ==
    /\ pc = "attempt"
    /\ Journal(WithLast(journal[G], "failed", "failed"))
    /\ pc' = "clear"
    /\ UNCHANGED <<charged, root, saved, log, dir, outputs, state, outcome,
                   before, launched, faults>>

ClearAttempt ==
    /\ pc = "clear"
    /\ dir' = [dir EXCEPT ![G] = "none"]
    /\ pc' = "update"
    /\ UNCHANGED <<charged, root, saved, log, journal, outputs, state, outcome,
                   before, launched, faults>>

AttemptFatal ==
    /\ pc = "attempt" /\ faults < MaxFaults
    /\ faults' = faults + 1
    /\ Journal(WithLast(journal[G], "failed", "fatal"))
    /\ saved' = RolledBack(state)
    /\ Gone
    /\ UNCHANGED <<charged, root, log, dir, outputs, launched>>

(* The candidate breaks the mutation policy: the journal records a failure *)
(* that must not be retried, the branch an invalid proposal.               *)
AttemptInvalid ==
    /\ pc = "attempt" /\ dir[G] = "whole"
    /\ Journal(WithLast(journal[G], "failed", "invalid"))
    /\ outcome' = "invalid" /\ pc' = "commit"
    /\ UNCHANGED <<charged, root, saved, log, dir, outputs, state, before,
                   launched, faults>>

-----------------------------------------------------------------------------
(* From the candidate to the committed generation                          *)

WithProposalAsChampion(s) ==
    [s EXCEPT !.inFlight = Current(s), !.champion = Current(s)]
WithProposal(s) == [s EXCEPT !.inFlight = Current(s)]

SaveProposal ==
    /\ pc = "save"
    /\ state' = WithProposal(state) /\ saved' = state'
    /\ pc' = "decide"
    /\ UNCHANGED <<charged, root, log, journal, dir, outputs, outcome, before,
                   launched, faults>>

Decide ==
    /\ pc = "decide"
    /\ outcome' \in {"promoted", "rejected"}
    /\ pc' = "commit"
    /\ UNCHANGED <<durable, state, before, launched, faults>>

Committed(s) ==
    [s EXCEPT !.history = Append(@, outcome), !.inFlight = 0,
              !.champion = IF outcome = "promoted" THEN Current(s) ELSE @]

AppendEvidence ==
    /\ pc = "commit"
    /\ state' = Committed(state)
    /\ log' = Append(log, outcome)
    /\ pc' = "observe"
    /\ UNCHANGED <<charged, root, saved, journal, dir, outputs, outcome, before,
                   launched, faults>>

CommitGeneration ==
    /\ pc = "observe"
    /\ LET strategy == Observed(state.strategy, outcome)
       IN state' = [state EXCEPT !.strategy = strategy,
                                 !.status = IF strategy.exhausted
                                            THEN "stopped" ELSE @]
    /\ saved' = state'
    /\ pc' = "idle" /\ outcome' = "none" /\ before' = FreshStrategy
    /\ UNCHANGED <<charged, root, log, journal, dir, outputs, launched, faults>>

-----------------------------------------------------------------------------
Recover ==
    \/ CreateRoot \/ FoundLog \/ FoundState \/ EvaluateBaseline \/ ArchiveRoot
    \/ Restore \/ MoveLog \/ RewriteLog
    \/ ArchiveCandidate \/ ArchiveOutput \/ Archived

Update ==
    \/ ReuseProposal \/ MarkInterrupted \/ GiveUp \/ StartAttempt
    \/ BuildCandidate \/ AttemptSucceeds \/ ClearAttempt

Work ==
    \/ Recover \/ Settle \/ Begin \/ CollectFeedback \/ Update
    \/ SaveProposal \/ Decide \/ AppendEvidence \/ CommitGeneration

Next ==
    \/ Work \/ AttemptFails \/ AttemptInvalid
    \/ Crash \/ InfrastructureError \/ AttemptFatal

Spec == Init /\ [][Next]_vars

(* The controller keeps working and the operator resumes a paused campaign;*)
(* nothing makes an attempt fail or a process die.                         *)
FairSpec == Spec /\ WF_vars(Work)

-----------------------------------------------------------------------------
(* Properties                                                              *)

TypeOK ==
    /\ charged \in 0 .. Budget /\ root \in BOOLEAN
    /\ \A s \in {saved, state} : s = NoState \/
          /\ s.status \in {"baseline-running", "running", "stopped"}
          /\ s.history \in Seq(Outcomes) /\ Completed(s) <= Budget
          /\ s.champion \in 0 .. Completed(s) /\ s.inFlight \in {0, Current(s)}
    /\ log = NoLog \/ log \in Seq(Outcomes)
    /\ \A g \in Generations :
          /\ journal[g].status \in {"none", "running", "failed", "succeeded"}
          /\ dir[g] \in {"none", "partial", "whole"} /\ launched[g] \in Nat
    /\ outputs \subseteq Kinds \X Generations
    /\ outcome \in Outcomes \cup {"none"} /\ faults \in 0 .. MaxFaults

(* Peers read the evolution log while the branch runs: once a restart is   *)
(* over, and until the next line is appended, it says what state.json says.*)
EvidenceIsHistory ==
    pc \notin {"down", "founding", "repair", "observe"} => log = saved.history

(* Every candidate the saved state refers to, and the one the journal calls*)
(* succeeded, is still complete: otherwise restore or the journal's digest *)
(* check would refuse the branch for ever.                                 *)
CandidatesKept ==
    /\ Exists(saved) => Restorable(saved)
    /\ \A g \in Generations : journal[g].status = "succeeded" => dir[g] = "whole"

(* The retry budget of one candidate survives restarts: the updater never  *)
(* starts more often than the first attempt and its retries, and none of   *)
(* them follows a success or a failure that must not be retried.           *)
AttemptsBounded ==
    \A g \in Generations :
        /\ launched[g] <= MaximumRetries + 1
        /\ \A n \in 1 .. Len(journal[g].attempts) - 1 :
              journal[g].attempts[n] \in {"failed", "interrupted"}

(* The saved strategy is what the strategy would be after observing the    *)
(* saved history from the start, with one proposal more exactly when a     *)
(* proposal is in flight.                                                  *)
ReplayedStrategy(h) ==
    LET after[n \in 0 .. Len(h)] ==
            IF n = 0 THEN FreshStrategy ELSE Observed(Proposed(after[n - 1]), h[n])
    IN after[Len(h)]

StrategyFollowsHistory ==
    Exists(saved) =>
        saved.strategy = IF saved.inFlight = 0 THEN ReplayedStrategy(saved.history)
                         ELSE Proposed(ReplayedStrategy(saved.history))

(* The log that peers read and the strategy that proposes next both follow *)
(* from the saved history alone, over every crash and restart.             *)
HistoryIsKept == EvidenceIsHistory /\ StrategyFollowsHistory

(* The branch is a BranchDriver: crashes, pauses, repeated requests and    *)
(* repeated attempts never lose, repeat or double-charge a step.           *)
Driver == INSTANCE BranchDriver
            WITH completed <- IF Exists(saved) THEN Completed(saved) ELSE 0,
                 champion <- IF Exists(saved) THEN saved.champion ELSE 0,
                 stopped <- Exists(saved) /\ saved.status = "stopped"

ImplementsDriver == Driver!Spec

(* Whatever happens, the population gets all its steps, unless the strategy*)
(* is exhausted or the journal rules out another attempt.                  *)
GivenUp ==
    /\ Exists(saved) /\ saved.inFlight = 0 /\ Current(saved) \in Generations
    /\ Barred(journal[Current(saved)]) \/ Exhausted(journal[Current(saved)])
    /\ journal[Current(saved)].status # "succeeded"

StepsDelivered ==
    <>[](charged = Budget \/ (Exists(saved) /\ saved.status = "stopped") \/ GivenUp)

(* docs/runtime-health.zh.md: an invalid proposal goes on to be rejected as*)
(* a candidate, so it always becomes a generation of the branch.           *)
InvalidBecomesGeneration ==
    \A g \in Generations :
        LastAttempt(journal[g]) = "invalid"
            ~> (Exists(saved) /\ Completed(saved) >= g)

=============================================================================
