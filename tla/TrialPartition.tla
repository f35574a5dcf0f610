--------------------------- MODULE TrialPartition ---------------------------
(***************************************************************************)
(* One candidate evaluated on the tasks of one partition                   *)
(* (runCandidatePartition of environments/omegause-officeval.mjs and       *)
(* environments/harbor.mjs).  Each task commits a checkpoint; a restarted  *)
(* evaluation keeps those of its own identity and archives the others.     *)
(* The final partition runs strict: nothing committed is ever measured     *)
(* again, and a budget file counts the attempts of each task for good.     *)
(***************************************************************************)
EXTENDS Naturals, FiniteSets

CONSTANTS Tasks, Concurrency, Retries,
          PausePolicy,  \* solverFailurePolicy = 'pause'
          Identities,   \* what a checkpoint's identity digest may be
          MaxStarts

TrialAssumption ==
    /\ Concurrency \in Nat \ {0} /\ Retries \in Nat /\ MaxStarts \in Nat
    /\ PausePolicy \in BOOLEAN
    /\ Identities \cap {"missing", "incomplete"} = {}

VARIABLES strict,    \* strictFinalCheckpoints: this is the final partition
          identity,  \* of the evaluation that runs, or ran last
          step,      \* what it does with each task
          tries,     \* retries of the task in this evaluation
          dir,       \* task directory: missing, incomplete, or identity committed
          budget,    \* final-retry-budgets: attempts started, by identity
          output,    \* identity of the results file
          starts, sampled  \* evaluations started; times each task was solved

disk == <<dir, budget, output>>
trialVars == <<strict, identity, step, tries, dir, budget, output, starts, sampled>>

Idle == [t \in Tasks |-> "idle"]
Running == step # Idle
NoBudget == [identity |-> "missing", started |-> 0]

Init ==
    /\ strict \in BOOLEAN /\ identity \in Identities /\ step = Idle /\ tries = [t \in Tasks |-> 0]
    /\ dir = [t \in Tasks |-> "missing"] /\ budget = [t \in Tasks |-> NoBudget]
    /\ output = "missing" /\ starts = 0 /\ sampled = [t \in Tasks |-> 0]

Stale(t, i) == dir[t] \in Identities \ {i}
CommittedNever(t, i) == FALSE
Committed(t, i) == dir[t] = i

(* All checkpoints are inspected before any task runs.                     *)
Start(i) ==
    /\ ~Running /\ starts < MaxStarts
    /\ strict => \A t \in Tasks : ~Stale(t, i)
    /\ identity' = i /\ starts' = starts + 1
    /\ step' = [t \in Tasks |-> IF Committed(t, i) THEN "done" ELSE "queued"]
    /\ tries' = [t \in Tasks |-> 0]
    /\ UNCHANGED <<strict, disk, sampled>>

Goto(t, s) == step' = [step EXCEPT ![t] = s]
Dir(t, d) == dir' = [dir EXCEPT ![t] = d]
Busy == {t \in Tasks : step[t] \in {"reserve", "solve", "verify", "commit"}}

(* A free worker takes the next task and archives what is left of it.      *)
Begin(t) ==
    /\ step[t] = "queued" /\ Cardinality(Busy) < Concurrency
    /\ Dir(t, "missing") /\ Goto(t, "reserve")
    /\ UNCHANGED <<strict, identity, tries, budget, output, starts, sampled>>

Reservable(t) ==
    /\ budget[t].identity \in {"missing", identity}
    /\ budget[t].started <= Retries

ReservedPerStart(t) == [identity |-> identity, started |-> tries[t] + 1]
Reserved(t) == [identity |-> identity, started |-> budget[t].started + 1]

Reserve(t) ==
    /\ step[t] = "reserve"
    /\ IF ~strict THEN Goto(t, "solve") /\ UNCHANGED budget
       ELSE IF ~Reservable(t) THEN Goto(t, "failed") /\ UNCHANGED budget
       ELSE /\ budget' = [budget EXCEPT ![t] = Reserved(t)]
            /\ Goto(t, "solve")
    /\ UNCHANGED <<strict, identity, tries, dir, output, starts, sampled>>

(* A failure the candidate is answerable for is scored zero, or pauses.    *)
(* The upstream failing is the only thing to retry; the rest is final.     *)
Solved ==
    {"verify", "transient", "failed"}
        \cup (IF PausePolicy THEN {"failed"} ELSE {"commit"})

MayRetry(t) == tries[t] < Retries

Solve(t) ==
    /\ step[t] = "solve"
    /\ sampled' = [sampled EXCEPT ![t] = @ + 1]
    /\ \E r \in Solved :
         IF r = "transient" /\ MayRetry(t)
         THEN /\ Dir(t, "missing") /\ Goto(t, "reserve")
              /\ tries' = [tries EXCEPT ![t] = @ + 1]
         ELSE /\ Dir(t, "incomplete")
              /\ Goto(t, IF r = "transient" THEN "failed" ELSE r)
              /\ UNCHANGED tries
    /\ UNCHANGED <<strict, identity, budget, output, starts>>

Verify(t) ==
    /\ step[t] = "verify"
    /\ \E r \in {"commit", "failed"} : Goto(t, r)
    /\ UNCHANGED <<strict, identity, tries, disk, starts, sampled>>

Commit(t) ==
    /\ step[t] = "commit" /\ dir[t] = "incomplete"
    /\ Dir(t, identity) /\ Goto(t, "done")
    /\ UNCHANGED <<strict, identity, tries, budget, output, starts, sampled>>

(* The other workers go on after a failure; the first error is thrown when *)
(* all have ended, and only a complete partition is written.               *)
Written == IF \A t \in Tasks : step[t] = "done" THEN identity ELSE output
Conclude ==
    /\ Running /\ \A t \in Tasks : step[t] \in {"done", "failed"}
    /\ output' = Written /\ step' = Idle
    /\ UNCHANGED <<strict, identity, tries, dir, budget, starts, sampled>>

(* The process is killed; a task in the middle leaves its directory.       *)
Crash ==
    /\ Running /\ step' = Idle
    /\ \E torn \in SUBSET {t \in Tasks : step[t] = "solve" /\ dir[t] = "missing"} :
         dir' = [t \in Tasks |-> IF t \in torn THEN "incomplete" ELSE dir[t]]
    /\ sampled' = [t \in Tasks |-> sampled[t] + (IF dir'[t] # dir[t] THEN 1 ELSE 0)]
    /\ UNCHANGED <<strict, identity, tries, budget, output, starts>>

Work(t) == Begin(t) \/ Reserve(t) \/ Solve(t) \/ Verify(t) \/ Commit(t)
Next == (\E i \in Identities : Start(i)) \/ (\E t \in Tasks : Work(t)) \/ Conclude \/ Crash

Spec == Init /\ [][Next]_trialVars

-----------------------------------------------------------------------------
(* A task of a strict final is solved at most once plus its retries,       *)
(* however often the evaluation is killed and started again.               *)
SamplesBounded == strict => \A t \in Tasks : sampled[t] <= Retries + 1

(* A committed result is never measured again by an evaluation of the same *)
(* identity, and by no other one when strict.                              *)
MeasuredOnce ==
    \A t \in Tasks :
       dir[t] \in Identities /\ dir'[t] # dir[t] => ~strict /\ dir[t] # identity

(* The results file combines the results of one identity only.             *)
OfOneIdentity == output' # output => \A t \in Tasks : dir[t] = output'
=============================================================================
