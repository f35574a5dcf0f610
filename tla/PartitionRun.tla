---------------------------- MODULE PartitionRun ----------------------------
(***************************************************************************)
(* The validation of one candidate of a Reasoning campaign                 *)
(* (evaluateValidation of controller/src/production-runtime.mjs over       *)
(* runPartition of partition-runner.mjs).  Workers solve and verify tasks; *)
(* each finished task is kept in a checkpoint file of its own, and a later *)
(* evaluation runs only the tasks that have none.  Both the solver and the *)
(* verifier are tried again after an infrastructure failure, as long as    *)
(* the task's gateway still admits model requests.                         *)
(***************************************************************************)
EXTENDS Naturals, FiniteSets

CONSTANTS Tasks, Concurrency,
          Retries,   \* infrastructureRetries, of the solver and of the verifier
          Requests,  \* maximumModelRequestsPerTask
          MaxStarts

PartitionAssumption ==
    /\ Concurrency \in Nat \ {0} /\ Requests \in Nat \ {0}
    /\ Retries \in Nat /\ MaxStarts \in Nat

VARIABLES step,      \* where each task is
          solverTries, verifierTries, requests,  \* retries made, requests left
          record,    \* status of the task's record in memory
          kept,      \* checkpoints/validation/<candidate>/<task>.json
          temporary, \* a temporary file of a checkpoint is in that directory
          ending,    \* the abort signal or the deadline has come
          result,    \* how the last evaluation ended
          starts

task == <<solverTries, verifierTries, requests>>
partitionVars == <<step, task, record, kept, temporary, ending, result, starts>>

None == [t \in Tasks |-> "none"]
Zero == [t \in Tasks |-> 0]
Running == result = "running"
Scored == {"resolved", "unresolved", "timeout"}

Init ==
    /\ step = None /\ solverTries = Zero /\ verifierTries = Zero
    /\ requests = Zero /\ record = None /\ kept = None
    /\ temporary = FALSE /\ ending = "none" /\ result = "none" /\ starts = 0

Remaining == {t \in Tasks : kept[t] = "none"}

(* The directory may hold checkpoints only: any other name is refused.     *)
Start ==
    /\ ~Running /\ result # "summary" /\ starts < MaxStarts
    /\ starts' = starts + 1 /\ ending' = "none"
    /\ solverTries' = Zero /\ verifierTries' = Zero
    /\ requests' = [t \in Tasks |-> Requests]
    /\ record' = None
    /\ IF temporary THEN result' = "refused" /\ step' = None
       ELSE /\ result' = "running"
            /\ step' = [t \in Tasks |-> IF t \in Remaining THEN "queued" ELSE "kept"]
    /\ UNCHANGED <<kept, temporary>>

Goto(t, s) == step' = [step EXCEPT ![t] = s]
Recorded(t, end) ==
    /\ record' = [record EXCEPT ![t] = IF end = "infrastructure" THEN "error" ELSE end]
    /\ Goto(t, "emit")
Quiet == UNCHANGED <<kept, temporary, ending, result, starts>>

Active == {t \in Tasks : step[t] \in {"solve", "wait", "verify", "rewait", "emit", "write"}}

Take(t) ==
    /\ Running /\ step[t] = "queued" /\ ending = "none"
    /\ Cardinality(Active) < Concurrency
    /\ Goto(t, "solve") /\ UNCHANGED <<task, record>> /\ Quiet

(* normalizeRecord turns the last outcome of both into the record.         *)
SolverRetryable(t) == solverTries[t] < Retries /\ requests'[t] > 0

(* What a run of the solver can come to (runHarnessSolver): a timeout or a *)
(* failure of the candidate is its result, the rest is not its doing.      *)
SolverEnds(t) ==
    {"completed", "unresolved", "timeout", "infrastructure"}
        \cup (IF ending = "none" THEN {} ELSE {"cancelled"})

(* The solver spends some requests, of the ones that are left.             *)
Solve(t) ==
    /\ Running /\ step[t] = "solve"
    /\ \E left \in 0 .. requests[t] : requests' = [requests EXCEPT ![t] = left]
    /\ \E end \in SolverEnds(t) :
         IF end = "completed" THEN Goto(t, "verify") /\ UNCHANGED <<record, solverTries>>
         ELSE IF end = "infrastructure" /\ SolverRetryable(t)
         THEN /\ solverTries' = [solverTries EXCEPT ![t] = @ + 1]
              /\ Goto(t, "wait") /\ UNCHANGED record
         ELSE Recorded(t, end) /\ UNCHANGED solverTries
    /\ UNCHANGED verifierTries /\ Quiet

(* And what the verification can come to (verifyTask).                     *)
VerifierEnds(t) ==
    {"resolved", "unresolved", "infrastructure"}
        \cup (IF ending = "none" THEN {} ELSE {"cancelled"})

Verify(t) ==
    /\ Running /\ step[t] = "verify"
    /\ \E end \in VerifierEnds(t) :
         IF end = "infrastructure" /\ verifierTries[t] < Retries
         THEN /\ verifierTries' = [verifierTries EXCEPT ![t] = @ + 1]
              /\ Goto(t, "rewait") /\ UNCHANGED record
         ELSE Recorded(t, end) /\ UNCHANGED verifierTries
    /\ UNCHANGED <<solverTries, requests>> /\ Quiet

(* The delay before a retry is cut short by the end: the worker throws.    *)
Wait(t) ==
    /\ Running /\ step[t] \in {"wait", "rewait"}
    /\ \/ Goto(t, IF step[t] = "wait" THEN "solve" ELSE "verify")
       \/ ending # "none" /\ Goto(t, "threw")
    /\ UNCHANGED <<task, record>> /\ Quiet

(* Records are announced one after another; errors and cancelled tasks     *)
(* leave no checkpoint.                                                    *)
Emit(t) ==
    /\ Running /\ step[t] = "emit"
    /\ IF record[t] \in Scored
       THEN ~temporary /\ temporary' = TRUE /\ Goto(t, "write")
       ELSE Goto(t, "ended") /\ UNCHANGED temporary
    /\ UNCHANGED <<task, record, kept, ending, result, starts>>

Write(t) ==
    /\ Running /\ step[t] = "write"
    /\ kept' = [kept EXCEPT ![t] = record[t]]
    /\ temporary' = FALSE /\ Goto(t, "ended")
    /\ UNCHANGED <<task, record, ending, result, starts>>

End(why) ==
    /\ Running /\ ending = "none" /\ ending' = why
    /\ UNCHANGED <<step, task, record, kept, temporary, result, starts>>

Over(t) ==
    \/ step[t] \in {"kept", "ended", "threw"}
    \/ step[t] = "queued" /\ ending # "none"

SummaryDespiteErrors ==
    IF ending # "none" THEN ending ELSE "summary"

(* A single task that ended for infrastructure reasons voids the result.   *)
Outcome ==
    IF ending # "none" THEN ending
    ELSE IF \E t \in Tasks : record[t] = "error" THEN "infrastructure"
    ELSE "summary"

Conclude ==
    /\ Running /\ \A t \in Tasks : Over(t)
    /\ result' = Outcome /\ step' = None /\ record' = None
    /\ UNCHANGED <<task, kept, temporary, ending, starts>>

Crash ==
    /\ Running /\ result' = "killed" /\ step' = None /\ record' = None
    /\ UNCHANGED <<task, kept, temporary, ending, starts>>

Work(t) == Take(t) \/ Solve(t) \/ Verify(t) \/ Wait(t) \/ Emit(t) \/ Write(t)

Next ==
    \/ Start \/ Conclude \/ Crash
    \/ \E why \in {"aborted", "deadline"} : End(why)
    \/ \E t \in Tasks : Work(t)

Spec == Init /\ [][Next]_partitionVars

-----------------------------------------------------------------------------
(* A summary counts a scored record of every task.                         *)
SummaryIsComplete == result = "summary" => \A t \in Tasks : kept[t] \in Scored

(* Once kept, the score of a task is never replaced by that of a new run.  *)
ScoresStay == \A t \in Tasks : kept[t] # "none" => kept'[t] = kept[t]

(* A directory of checkpoints can be read by the next evaluation.          *)
CheckpointsReadable == result # "refused"
=============================================================================
