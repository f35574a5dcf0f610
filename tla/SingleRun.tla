----------------------------- MODULE SingleRun -----------------------------
(***************************************************************************)
(* runEvolution: one run of the module search, alone in its process.  Each *)
(* generation asks the search strategy (trusted builtin, or a container    *)
(* that answers what it likes) for a parent, lets the updater work on it,  *)
(* evaluates the proposal against the champion and decides.  The run keeps *)
(* its record in memory and writes it to state.json; every call may fail,  *)
(* and the controller may be killed at any await.  A candidate is named by *)
(* the generation that made it; H0 is 0.                                   *)
(***************************************************************************)
EXTENDS Naturals, Sequences

CONSTANTS Generations   \* generations asked for

GenerationsAssumption == Generations \in Nat \ {0}

VARIABLES strategy,  \* "builtin" or "container"
          at,        \* what the run does next
          round,     \* the generation at work: number, parent, status
          champion,  \* the variable of the loop
          built,     \* materializedCandidates
          mem,       \* the run's record: status, champ, done, cands, hist
          disk,      \* state.json
          decided,   \* generations with a decision.json
          registry,  \* candidates named in the repository's registry
          told       \* the outcomes the strategy has observed

runVars == <<strategy, at, round, champion, built, mem, disk, decided, registry, told>>

H0 == 0
None == 99   \* no such field, no state.json yet
Statuses == {"promoted", "rejected", "invalid"}

Init ==
    /\ strategy \in {"builtin", "container"} /\ at = "first"
    /\ round = [gen |-> 0, parent |-> H0, status |-> "invalid"]
    /\ champion = H0 /\ built = {H0}
    /\ mem = [status |-> "running", champ |-> H0, done |-> 0, hist |-> <<>>,
              cands |-> <<[id |-> H0, parent |-> None, status |-> "baseline"]>>]
    /\ disk = [status |-> "absent"]
    /\ decided = {} /\ registry = {} /\ told = {}

FirstSave ==
    /\ at = "first" /\ disk' = mem /\ at' = "propose"
    /\ UNCHANGED <<strategy, round, champion, built, mem, decided, registry, told>>

(* The builtin strategies name the champion, a container any candidate     *)
(* that has a workspace.                                                   *)
ContainerParents == built
Parents == IF strategy = "builtin" THEN {champion} ELSE ContainerParents

Propose(p) ==
    /\ at = "propose" /\ mem.done < Generations
    /\ p \in Parents
    /\ round' = [gen |-> mem.done + 1, parent |-> p, status |-> "invalid"]
    /\ at' = "update"
    /\ UNCHANGED <<strategy, champion, built, mem, disk, decided, registry, told>>

WithCandidate(s) ==
    [mem EXCEPT !.cands = Append(@, [id |-> round.gen, parent |-> round.parent, status |-> s])]

(* An updater whose change is refused costs the generation, and leaves no  *)
(* workspace; every other error of the updater ends the run.               *)
RejectProposal ==
    /\ at = "update"
    /\ mem' = WithCandidate("invalid") /\ at' = "history"
    /\ UNCHANGED <<strategy, round, champion, built, disk, decided, registry, told>>

TakeProposal ==
    /\ at = "update"
    /\ built' = built \cup {round.gen} /\ at' = "evaluate"
    /\ UNCHANGED <<strategy, round, champion, mem, disk, decided, registry, told>>

(* The paired evaluation: the champion moves before anything is recorded.  *)
Evaluate(s) ==
    /\ at = "evaluate"
    /\ round' = [round EXCEPT !.status = s]
    /\ mem' = WithCandidate(s)
    /\ champion' = IF s = "promoted" THEN round.gen ELSE champion
    /\ at' = "registry"
    /\ UNCHANGED <<strategy, built, disk, decided, registry, told>>

Register ==
    /\ at = "registry" /\ registry' = registry \cup {round.gen} /\ at' = "history"
    /\ UNCHANGED <<strategy, round, champion, built, mem, disk, decided, told>>

Entry ==
    [gen |-> round.gen, parent |-> round.parent, status |-> round.status,
     before |-> IF round.status = "invalid" THEN None ELSE mem.champ,
     after |-> IF round.status = "invalid" THEN None ELSE champion]

Record ==
    /\ at = "history"
    /\ mem' = [mem EXCEPT !.hist = Append(@, Entry), !.champ = champion, !.done = round.gen]
    /\ at' = "decision"
    /\ UNCHANGED <<strategy, round, champion, built, disk, decided, registry, told>>

WriteDecision ==
    /\ at = "decision" /\ decided' = decided \cup {round.gen} /\ at' = "save"
    /\ UNCHANGED <<strategy, round, champion, built, mem, disk, registry, told>>

(* writeJsonFile replaces the file as a whole.                             *)
Save ==
    /\ at = "save" /\ disk' = mem /\ at' = "observe"
    /\ UNCHANGED <<strategy, round, champion, built, mem, decided, registry, told>>

(* the mutated form: the strategy observes first, the save follows         *)
SaveLater ==
    /\ at = "save" /\ at' = "observe"
    /\ UNCHANGED <<strategy, round, champion, built, mem, disk, decided, registry, told>>

Saved == Save

(* The strategy observes; it may declare the search exhausted.  What it    *)
(* returns is in state.json only after diagnostics.persist.                *)
Observe(exhausted) ==
    /\ at = "observe"
    /\ told' = told \cup {mem.hist[Len(mem.hist)]}
    /\ at' = IF exhausted THEN "persistLast" ELSE "persist"
    /\ UNCHANGED <<strategy, round, champion, built, mem, disk, decided, registry>>

Persist ==
    /\ at \in {"persist", "persistLast"}
    /\ disk' = mem
    /\ at' = IF at = "persistLast" THEN "complete" ELSE "propose"
    /\ UNCHANGED <<strategy, round, champion, built, mem, decided, registry, told>>

(* Any call of the loop may throw: the record is saved as failed, or the   *)
(* save fails too.                                                         *)
Throw ==
    /\ at \in {"propose", "update", "evaluate", "registry", "decision", "save",
               "observe", "persist", "persistLast"}
    /\ mem' = [mem EXCEPT !.status = "failed"]
    /\ at' = "failed"
    /\ UNCHANGED <<strategy, round, champion, built, disk, decided, registry, told>>

SaveFailed ==
    /\ at = "failed" /\ at' = "over"
    /\ disk' \in {mem, disk}
    /\ UNCHANGED <<strategy, round, champion, built, mem, decided, registry, told>>

Complete ==
    /\ \/ at = "complete"
       \/ at = "propose" /\ mem.done = Generations
    /\ mem' = [mem EXCEPT !.status = "completed"]
    /\ at' = "last"
    /\ UNCHANGED <<strategy, round, champion, built, disk, decided, registry, told>>

(* The last save is outside of the try.                                    *)
SaveCompleted ==
    /\ at = "last" /\ at' = "over" /\ disk' \in {mem, disk}
    /\ UNCHANGED <<strategy, round, champion, built, mem, decided, registry, told>>

(* The run's directory refuses a second start: a killed run stays as it is.*)
Crash ==
    /\ at # "over" /\ at' = "over"
    /\ UNCHANGED <<strategy, round, champion, built, mem, disk, decided, registry, told>>

Next ==
    \/ FirstSave \/ \E p \in Parents : Propose(p)
    \/ RejectProposal \/ TakeProposal
    \/ \E s \in {"promoted", "rejected"} : Evaluate(s)
    \/ Register \/ Record \/ WriteDecision \/ Saved
    \/ \E exhausted \in BOOLEAN : Observe(exhausted)
    \/ Persist \/ Throw \/ SaveFailed \/ Complete \/ SaveCompleted \/ Crash

Spec == Init /\ [][Next]_runVars

-----------------------------------------------------------------------------
Written == disk.status # "absent"
Decisive(h) == {i \in DOMAIN h : h[i].status # "invalid"}

(* Champion c is the one that the first n entries of a history lead to.    *)
LeadsTo(h, n, c) ==
    \/ c = H0 /\ \A i \in Decisive(h) : i > n
    \/ \E i \in Decisive(h) :
          i <= n /\ c = h[i].after /\ \A j \in Decisive(h) : j <= i \/ j > n

(* What an untrusted strategy has been told is on disk, whatever happens   *)
(* to the run while it answers.                                            *)
ToldIsSaved == \A e \in told : Written /\ \E i \in 1..Len(disk.hist) : disk.hist[i] = e

(* The saved history is one chain of champions that ends at the saved      *)
(* champion, in runs that failed or were killed too.                       *)
HistoryIsAChain ==
    Written =>
        /\ \A i \in Decisive(disk.hist) : LeadsTo(disk.hist, i - 1, disk.hist[i].before)
        /\ LeadsTo(disk.hist, Len(disk.hist), disk.champ)
        /\ disk.done = Len(disk.hist)

(* Every saved candidate comes from an older one that had a workspace.     *)
LineageIsBuilt ==
    Written =>
        \A i \in 2..Len(disk.cands) : \E j \in 1..(i-1) :
            disk.cands[j].id = disk.cands[i].parent /\ disk.cands[j].status # "invalid"

(* A failed or killed run can be read afterwards: the strategy knows       *)
(* nothing that state.json does not, its history leads from H0 to its      *)
(* champion, and its lineage has no gap.                                   *)
SavedRunIsWhole == ToldIsSaved /\ HistoryIsAChain /\ LineageIsBuilt

(* Violated: a run whose registry line cannot be written is saved with a   *)
(* candidate marked as promoted that its champion and history do not know. *)
PromotedIsChampion ==
    Written =>
        \A i \in 1..Len(disk.cands) : disk.cands[i].status = "promoted" =>
            \E j \in 1..Len(disk.hist) : disk.hist[j].gen = disk.cands[i].id

=============================================================================
