---- MODULE GatewayUsage ----
(* The accounting of one model gateway (docker/model-gateway/server.mjs)    *)
(* and of the solver driver that reads it.  The solver of a trial sends     *)
(* requests with the trial's own token; the gateway forwards each one to    *)
(* the provider, asks again after a transient answer, and counts what the   *)
(* provider says it has used, for the role and for the trial.  A trial is   *)
(* closed after its solver has exited; a batch of trials is measured by the *)
(* difference of two readings of the role's counters.  When the solver has  *)
(* failed, the records of its requests decide who is to blame: a candidate  *)
(* that is gets its zero, any other failure interrupts the evaluation.      *)
EXTENDS Integers, Sequences

CONSTANTS
  Requests, Trials,
  Budget,       \* GATEWAY_MAX_REQUESTS
  Concurrent,   \* GATEWAY_MAX_CONCURRENT_REQUESTS
  Retries,      \* GATEWAY_MAX_UPSTREAM_RETRIES
  Attempts,     \* upstream calls for one payload of a trial (6 in the code)
  Batches       \* bound on the batches of one gateway

GatewayAssumption ==
  /\ \A n \in {Budget, Concurrent, Retries, Attempts, Batches} : n \in Nat
  /\ {"role", "none"} \cap Trials = {}

VARIABLES
  usage,     \* counters of the role and of every registered trial
  request,   \* what the gateway is doing with each request
  spent,     \* upstream calls already made for the trial's payload
  log,       \* the gateway's records of each trial, in order of arrival
  trial,     \* the trials: registered, solver exited, closed or given up
  process,   \* how the solver of each trial ended
  verdict,   \* what the driver concluded about the usage of each closed trial
  blame,     \* and about its failure
  batch      \* the driver's batch: its first reading and its conclusion

gateway == <<usage, request, spent, log>>
driver == <<trial, process, verdict, blame, batch>>
vars == <<gateway, driver>>

NoUsage == [accepted |-> 0, active |-> 0, known |-> 0, unknown |-> 0]

Init ==
  /\ usage = [c \in Trials \cup {"role"} |-> NoUsage]
  /\ request = [r \in Requests |->
       [phase |-> "unsent", trial |-> "none", attempt |-> 0, known |-> FALSE,
        answer |-> "none"]]
  /\ spent = [t \in Trials |-> 0]
  /\ log = [t \in Trials |-> <<>>]
  /\ process = [t \in Trials |-> "none"]
  /\ blame = [t \in Trials |-> "none"]
  /\ trial = [t \in Trials |-> "unregistered"]
  /\ verdict = [t \in Trials |-> "none"]
  /\ batch = [number |-> 0, open |-> FALSE, before |-> NoUsage,
              members |-> {}, complete |-> FALSE]

\* One request more or less in the counters it is charged to.
Charged(t, accepted, active, known, unknown) ==
  [c \in DOMAIN usage |->
     IF c \notin {"role", t} THEN usage[c]
     ELSE [accepted |-> usage[c].accepted + accepted, active |-> usage[c].active + active,
           known |-> usage[c].known + known, unknown |-> usage[c].unknown + unknown]]

Moved(r, phase) == [request EXCEPT ![r].phase = phase]

----
\* POST /rsi/trials; beginTrial of the driver, inside a batch
Register(t) ==
  /\ trial[t] = "unregistered"
  /\ batch.open
  /\ trial' = [trial EXCEPT ![t] = "open"]
  /\ batch' = [batch EXCEPT !.members = @ \cup {t}]
  /\ UNCHANGED <<gateway, process, verdict, blame>>

\* A request under the token of a trial that is not closed is recorded before
\* anything else; over the budgets it is answered 429 and counted nowhere.
Accept(r, t) ==
  /\ request[r].phase = "unsent"
  /\ trial[t] \in {"open", "exited"}
  /\ log' = [log EXCEPT ![t] = Append(@, r)]
  /\ IF usage["role"].accepted < Budget /\ usage["role"].active < Concurrent
     THEN /\ usage' = Charged(t, 1, 1, 0, 0)
          /\ request' = [request EXCEPT ![r].phase = "receiving", ![r].trial = t]
     ELSE /\ request' = [request EXCEPT ![r].phase = "denied", ![r].trial = t,
                                       ![r].answer = "control"]
          /\ UNCHANGED usage
  /\ UNCHANGED <<spent, driver>>

\* The request ends without an answer that could be measured, as what the
\* record says: recordUnknownUsage and release.
Refused(r, answer) ==
  /\ usage' = Charged(request[r].trial, 0, -1, 0, 1)
  /\ request' = [Moved(r, "done") EXCEPT ![r].answer = answer]
  /\ UNCHANGED <<spent, log, driver>>

\* The body is too large, or it is not JSON.
RejectBody(r) ==
  /\ request[r].phase = "receiving"
  /\ \E answer \in {"control", "not-json"} : Refused(r, answer)

\* forward(attempt): the budget of the payload is shared by the attempts of
\* all its requests
Forward(r) ==
  LET t == request[r].trial IN
  /\ request[r].phase \in {"receiving", "waiting"}
  /\ IF spent[t] >= Attempts THEN Refused(r, "control")
     ELSE /\ spent' = [spent EXCEPT ![t] = @ + 1]
          /\ request' = [request EXCEPT ![r].phase = "asking", ![r].attempt = @ + 1]
          /\ UNCHANGED <<usage, log, driver>>

\* A transient status or a broken connection, before anything was sent on:
\* the request waits for the timer of its next attempt, or is given up.
UpstreamFails(r) ==
  /\ request[r].phase = "asking"
  /\ IF request[r].attempt <= Retries
     THEN /\ request' = Moved(r, "waiting")
          /\ UNCHANGED <<usage, spent, log, driver>>
     ELSE Refused(r, "provider")

\* The answer is passed on and the counting left to the meter.
UpstreamAnswers(r) ==
  /\ request[r].phase = "asking"
  /\ request' = Moved(r, "streaming")
  /\ UNCHANGED <<usage, spent, log, driver>>

\* The meter has seen what there is of the stream, with or without a usage
\* record; the observer has seen a whole final answer, another one, or a break.
Metered(r, known, answer) ==
  /\ usage' = Charged(request[r].trial, 0, -1, IF known THEN 1 ELSE 0, IF known THEN 0 ELSE 1)
  /\ request' = [Moved(r, "done") EXCEPT ![r].known = known, ![r].answer = answer]
  /\ UNCHANGED <<spent, log, driver>>

StreamEnds(r) ==
  /\ request[r].phase = "streaming"
  /\ \E known \in BOOLEAN, answer \in {"final", "unproven", "provider"} : Metered(r, known, answer)

\* The client goes away.  The meter of a stream still counts what it has; a
\* call under way fails and counts as unknown; a request between two attempts
\* is released and never counted.
ClientCloses(r) ==
  \/ request[r].phase = "receiving" /\ Refused(r, "unproven")
  \/ request[r].phase = "asking" /\ Refused(r, "provider")
  \/ /\ request[r].phase = "waiting"
     /\ usage' = Charged(request[r].trial, 0, -1, 0, 0)
     /\ request' = [Moved(r, "done") EXCEPT ![r].answer = "unproven"]
     /\ UNCHANGED <<spent, log, driver>>

----
\* The container of the solver has ended, well, with an exit code or an
\* unusable output of its own, or killed; its connections may still be open
\* at the gateway.
SolverExits(t, how) ==
  /\ trial[t] = "open"
  /\ trial' = [trial EXCEPT ![t] = "exited"]
  /\ process' = [process EXCEPT ![t] = how]
  /\ UNCHANGED <<gateway, verdict, blame, batch>>

\* diffModelUsage
Delta(before, after) == [f \in {"accepted", "known", "unknown"} |-> after[f] - before[f]]
Complete(before, after) ==
  LET d == Delta(before, after) IN
  after.active = 0 /\ d.unknown = 0 /\ d.known + d.unknown = d.accepted

\* classifySolverFailure, on the records of a closed trial
Answers(t) == [i \in DOMAIN log[t] |-> request[log[t][i]].answer]
Final(answers, last) == \A i \in 1 .. last : answers[i] = "final"

\* the mutated form: the last request speaks for all of them
BlameByLast(t) ==
  LET answers == Answers(t)
      n == Len(answers)
  IN IF n > 0 /\ answers[n] = "not-json" THEN "candidate"
     ELSE IF n > 0 /\ answers[n] # "final" THEN "other"
     ELSE IF process[t] = "failed" THEN "candidate" ELSE "other"

Blame(t) ==
  LET answers == Answers(t)
      n == Len(answers)
  IN IF n > 0 /\ answers[n] = "not-json" /\ Final(answers, n - 1) THEN "candidate"
     ELSE IF Final(answers, n) /\ process[t] = "failed" THEN "candidate" ELSE "other"

\* endTrial: the gateway closes a trial without active requests and says what
\* it has used; otherwise it answers 409 and the trial has no diagnostics, its
\* failure no culprit.
EndTrial(t) ==
  /\ trial[t] = "exited"
  /\ IF usage[t].active # 0
     THEN /\ trial' = [trial EXCEPT ![t] = "unmeasured"]
          /\ blame' = [blame EXCEPT ![t] = IF process[t] = "well" THEN "none" ELSE "other"]
          /\ UNCHANGED verdict
     ELSE /\ trial' = [trial EXCEPT ![t] = "closed"]
          /\ blame' = [blame EXCEPT ![t] = IF process[t] = "well" THEN "none" ELSE Blame(t)]
          /\ verdict' = [verdict EXCEPT ![t] =
               IF Complete(NoUsage, usage[t]) THEN "complete" ELSE "partial"]
  /\ UNCHANGED <<gateway, process, batch>>

BeginBatch ==
  /\ ~batch.open
  /\ batch.number < Batches
  /\ batch' = [number |-> batch.number + 1, open |-> TRUE, before |-> usage["role"],
               members |-> {}, complete |-> FALSE]
  /\ UNCHANGED <<gateway, trial, process, verdict, blame>>

EndBatch ==
  /\ batch.open
  /\ \A t \in batch.members : trial[t] \in {"closed", "unmeasured"}
  /\ batch' = [batch EXCEPT !.open = FALSE, !.complete = Complete(batch.before, usage["role"])]
  /\ UNCHANGED <<gateway, trial, process, verdict, blame>>

Next ==
  \/ \E t \in Trials : Register(t) \/ EndTrial(t)
  \/ \E t \in Trials, how \in {"well", "failed", "killed"} : SolverExits(t, how)
  \/ \E r \in Requests, t \in Trials : Accept(r, t)
  \/ \E r \in Requests :
       \/ RejectBody(r) \/ Forward(r) \/ UpstreamFails(r)
       \/ UpstreamAnswers(r) \/ StreamEnds(r) \/ ClientCloses(r)
  \/ BeginBatch \/ EndBatch

Spec == Init /\ [][Next]_vars

----
Of(t) == {r \in Requests : request[r].trial = t}
Accepted(t) == {r \in Of(t) : request[r].phase # "denied"}

\* A trial reported as completely measured is: every request the gateway accepted, whether
\* retried, abandoned by its solver between two attempts, or cut short, was
\* answered with a usage record that is in the sum.
TrialsMeasured ==
  \A t \in Trials : verdict[t] = "complete" => \A r \in Accepted(t) : request[r].known

\* The same of a batch, when no request was open as it began.
BatchMeasured ==
  /\ batch.number > 0 /\ ~batch.open /\ batch.complete /\ batch.before.active = 0
  => \A t \in batch.members : \A r \in Accepted(t) : request[r].known

\* A candidate is blamed - and scored zero - only when nothing else can have
\* been the cause: every request of the trial, in whatever order they ended,
\* got a whole final answer, or the last one was the candidate's own nonsense.
BlameIsProven ==
  \A t \in Trials : blame[t] = "candidate" =>
    LET last == log[t][Len(log[t])] IN
    \A r \in Of(t) : request[r].answer = "final" \/ (request[r].answer = "not-json" /\ r = last)
====
