------------------------------- MODULE HleTask -------------------------------
(***************************************************************************)
(* One HLE task (controller/src/hle-partition-runner.mjs within runOneTask *)
(* of partition-runner.mjs).  The harness under test solves in a sandbox   *)
(* and leaves transcripts of sessions, its own and those of subagents; the *)
(* controller takes the final answer out of them, writes it down and has   *)
(* an upstream model judge it.  Provider, judge and private store may      *)
(* fail, the run may be aborted, and the task may be tried again.          *)
(***************************************************************************)
EXTENDS Naturals, Sequences

CONSTANTS MaxSessions, \* transcripts the harness leaves in one attempt
          Retries      \* infrastructureRetries, of the solver and the verifier

TaskAssumption == MaxSessions \in Nat /\ Retries \in Nat

VARIABLES store,    \* the cached private store: "unread", "loaded"
          step,
          sessions, \* <<[root, last]>>, oldest first; last: its last text
          lastCall, \* audit of the attempt's last model call
          answer,   \* answer.txt
          aborted,
          solver, verifier,  \* what each came to last
          solverTries, verifierTries, record

tries == <<solverTries, verifierTries>>
taskVars == <<store, step, sessions, lastCall, answer, aborted, solver,
              verifier, tries, record>>

NoText == "none"
(* "limit" is a text of exactly MAX_ANSWER_BYTES, "huge" a longer one.     *)
Texts == {"right", "wrong", "blank", "limit", "huge"}

Init ==
    /\ store = "unread" /\ step = "prepare" /\ sessions = <<>>
    /\ lastCall = "none" /\ answer = "blank" /\ aborted = FALSE
    /\ solver = "none" /\ verifier = "none"
    /\ solverTries = 0 /\ verifierTries = 0 /\ record = "none"

(* A store that cannot be read is not kept: the next call reads it again.  *)
(* The failure is nobody's verdict, it ends the whole evaluation.          *)
Prepare ==
    /\ step = "prepare"
    /\ \/ store' = "loaded" /\ step' = "solve"
       \/ store = "unread" /\ step' = "threw" /\ UNCHANGED store
    /\ sessions' = <<>> /\ lastCall' = "none" /\ answer' = "blank"
    /\ UNCHANGED <<aborted, solver, verifier, tries, record>>

Solving == step = "solve"
Unscored == UNCHANGED <<store, step, answer, aborted, solver, verifier, tries, record>>

OpenSession(root) ==
    /\ Solving /\ Len(sessions) < MaxSessions
    /\ sessions' = Append(sessions, [root |-> root, last |-> NoText])
    /\ UNCHANGED lastCall /\ Unscored

(* The model answers a session with a text; a message of tool calls only   *)
(* leaves the session's last text as it is.                                *)
Say(i, text) ==
    /\ Solving /\ sessions[i].last # text
    /\ sessions' = [sessions EXCEPT ![i].last = text]
    /\ lastCall' = "good" /\ Unscored

ProviderFails ==
    /\ Solving /\ lastCall # "failed" /\ lastCall' = "failed"
    /\ UNCHANGED sessions /\ Unscored

(* The final answer is the last text of the newest session that is not a   *)
(* subagent's and has a text at all.                                       *)
Roots == {i \in DOMAIN sessions : sessions[i].root /\ sessions[i].last # NoText}
Final ==
    IF Roots = {} THEN "blank"
    ELSE sessions[CHOOSE i \in Roots : \A j \in Roots : j <= i].last

FromExit == {"completed", "candidate", "timeout", "infrastructure"}
    \cup (IF aborted THEN {"cancelled"} ELSE {})

Extracted(end) ==
    IF end = "completed" /\ Final \in {"blank", "huge"} THEN "candidate" ELSE end

(* An attempt the provider failed at its end is not held against the       *)
(* harness, whatever the harness made of it.                               *)
Classified(end) ==
    IF end # "completed" /\ lastCall = "failed" THEN "infrastructure" ELSE end

RecordOf(s, v) ==
    IF v = "verified" THEN "resolved"
    ELSE IF "cancelled" \in {s, v} THEN "not_attempted"
    ELSE IF "infrastructure" \in {s, v} THEN "error"
    ELSE IF s = "timeout" THEN "timeout" ELSE "unresolved"

Close(s, v) == step' = "done" /\ record' = RecordOf(s, v)

(* The harness exits, or is stopped: runHleHarnessSolver.                  *)
SolverEnds ==
    /\ Solving
    /\ \E exit \in FromExit :
         LET end == Classified(Extracted(exit)) IN
         /\ solver' = end
         /\ IF end = "completed"
            THEN /\ answer' = Final /\ step' = "verify" /\ UNCHANGED <<tries, record>>
            ELSE IF end = "infrastructure" /\ solverTries < Retries
            THEN /\ solverTries' = solverTries + 1 /\ step' = "wait"
                 /\ UNCHANGED <<answer, verifierTries, record>>
            ELSE Close(end, "none") /\ UNCHANGED <<answer, tries>>
    /\ UNCHANGED <<store, sessions, lastCall, aborted, verifier>>

Retry ==
    /\ step \in {"wait", "rewait"}
    /\ \/ step' = IF step = "wait" THEN "prepare" ELSE "verify"
       \/ aborted /\ step' = "threw"
    /\ UNCHANGED <<store, sessions, lastCall, answer, aborted, solver, verifier, tries, record>>

(* verifyHleTask: the line end written after an answer of the full length  *)
(* makes a file that is too large to be judged.                            *)
Verify ==
    /\ step = "verify" /\ answer # "limit" /\ step' = "judge"
    /\ UNCHANGED <<store, sessions, lastCall, answer, aborted, solver, verifier, tries, record>>

(* What the judge's reply makes of the answer: its decision is exactly one *)
(* Boolean or an infrastructure failure, as is a refusal and a timeout;    *)
(* a failed call counts as cancelled if the run was aborted by then.       *)
Judged(reply) ==
    IF reply = "decision" THEN IF answer = "right" THEN "verified" ELSE "candidate"
    ELSE IF aborted THEN "cancelled" ELSE "infrastructure"

VerifierEnds(end) ==
    /\ verifier' = end
    /\ IF end = "infrastructure" /\ verifierTries < Retries
       THEN verifierTries' = verifierTries + 1 /\ step' = "rewait" /\ UNCHANGED record
       ELSE Close(solver, end) /\ UNCHANGED verifierTries
    /\ UNCHANGED <<store, sessions, lastCall, answer, aborted, solver, solverTries>>

Unreadable ==
    /\ step = "verify" /\ answer = "limit"
    /\ VerifierEnds(IF aborted THEN "cancelled" ELSE "infrastructure")
JudgeReplies == step = "judge" /\ \E reply \in {"decision", "malformed", "failed"} : VerifierEnds(Judged(reply))

Abort ==
    /\ ~aborted /\ step \notin {"done", "threw"} /\ aborted' = TRUE
    /\ UNCHANGED <<store, step, sessions, lastCall, answer, solver, verifier, tries, record>>

Next ==
    \/ Prepare \/ SolverEnds \/ Retry \/ Verify \/ Unreadable \/ JudgeReplies
    \/ ProviderFails \/ Abort
    \/ \E root \in BOOLEAN : OpenSession(root)
    \/ \E i \in DOMAIN sessions, text \in Texts : Say(i, text)

Spec == Init /\ [][Next]_taskVars

-----------------------------------------------------------------------------
(* What the harness finally said, in its own words: the last text of its   *)
(* newest session of its own.                                              *)
OwnLast ==
    LET own == {i \in DOMAIN sessions : sessions[i].root /\ sessions[i].last # NoText}
    IN IF own = {} THEN "blank"
       ELSE sessions[CHOOSE i \in own : \A j \in own : j <= i].last

(* A task is resolved only for the harness's own last word, whatever its   *)
(* subagents said and whichever attempt it took, and it is held against    *)
(* the harness only for an answer that is missing, too long or wrong, or   *)
(* for a run that ended in its own failure while the provider answered:    *)
(* never for a judge that failed, refused or rambled, or for an abort.     *)
VerdictIsEarned ==
    /\ record = "resolved" => OwnLast = "right"
    /\ record \in {"unresolved", "timeout"} =>
         \/ solver = "completed" /\ verifier = "candidate" /\ OwnLast # "right"
         \/ solver \in {"candidate", "timeout"} /\ lastCall # "failed"

(* The size limit at which a final answer is refused is the harness's      *)
(* affair (extractFinalAssistantText); an answer that passes it is judged  *)
(* or lost to a failure of judge or run, not to its own length.            *)
AcceptedIsJudged == record = "error" => answer # "limit"
=============================================================================
