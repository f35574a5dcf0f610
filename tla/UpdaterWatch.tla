---- MODULE UpdaterWatch ----
(* One run of an updater under its watchdog: superviseUpdater               *)
(* (updater-watchdog.mjs) polls what StreamWatch has seen of the model's    *)
(* answers, runProcess (subprocess.mjs, or process.mjs for the docker       *)
(* command line) owns the process.  The three reasons to stop a process -   *)
(* timeout, too much output, the watchdog's abort - may meet its exit at    *)
(* any point.  A descendant of the process keeps its output open as long as *)
(* it lives, and the result is taken only once the output is closed.        *)
EXTENDS Integers

CONSTANT SampleLimit      \* failed samples in a row that end the run (3)

SampleAssumption == SampleLimit \in Nat \ {0}

VARIABLES
  group,       \* the process is started as the leader of its own group
  leader,      \* "runs", or how it has ended
  child,       \* its descendant: "none"; "obeys": ends at SIGTERM or after the
               \* leader; "ignores" both; "gone"
  stop,        \* the reasons for which the run was asked to stop
  signalled,   \* SIGTERM was sent
  stream,      \* what the model's answers look like to StreamWatch
  sampling,    \* the gateway can be asked for the progress
  misses,      \* failed samples in a row
  failure,     \* the watchdog's verdict
  outcome      \* what the supervised run returned

vars == <<group, leader, child, stop, signalled, stream, sampling, misses, failure, outcome>>

Init ==
  /\ group \in BOOLEAN
  /\ child \in {"none", "obeys", "ignores"}
  /\ leader = "runs"
  /\ stop = {}
  /\ signalled = FALSE
  /\ stream = "moving"
  /\ sampling = TRUE
  /\ misses = 0
  /\ failure = "none"
  /\ outcome = "none"

Pending == outcome = "none"
Closed == leader # "runs" /\ child \in {"none", "gone"}

----
\* The model: it goes quiet or comes back, repeats itself, or sends an event
\* that is too large; the last two are remembered until the next reset.
Model(next) ==
  /\ Pending
  /\ stream \in {"moving", "quiet"}
  /\ next \in {"moving", "quiet", "repeating"} \ {stream}
  /\ stream' = next
  /\ UNCHANGED <<group, leader, child, stop, signalled, sampling, misses, failure, outcome>>

SamplingChanges ==
  /\ Pending
  /\ sampling' = ~sampling
  /\ UNCHANGED <<group, leader, child, stop, signalled, stream, misses, failure, outcome>>

\* The process ends by itself; its descendants may stay behind.
Exits(how) ==
  /\ leader = "runs"
  /\ leader' = how
  /\ UNCHANGED <<group, child, stop, signalled, stream, sampling, misses, failure, outcome>>

ChildExits ==
  /\ child = "obeys"
  /\ leader # "runs"
  /\ child' = "gone"
  /\ UNCHANGED <<group, leader, stop, signalled, stream, sampling, misses, failure, outcome>>

\* requestStop of the timeout and of the output limit
AskToStop(reason) ==
  /\ Pending
  /\ stop' = stop \cup {reason}
  /\ UNCHANGED <<group, leader, child, signalled, stream, sampling, misses, failure, outcome>>

\* killGroup('SIGTERM'): to the whole group, and only while the leader has not
\* ended; process.mjs signals the child process alone
Term ==
  /\ Pending /\ stop # {} /\ ~signalled
  /\ signalled' = TRUE
  /\ \/ leader = "runs" /\ leader' \in {"runs", "stopped"}
     \/ leader # "runs" /\ leader' = leader
  /\ child' = IF group /\ leader = "runs" /\ child = "obeys" THEN "gone" ELSE child
  /\ UNCHANGED <<group, stop, stream, sampling, misses, failure, outcome>>

\* The force timer: killGroup('SIGKILL'), which a leader that has ended no
\* longer lets through to the rest of its group
ForceStop ==
  /\ Pending /\ signalled
  /\ leader = "runs"
  /\ leader' = "stopped"
  /\ child' = IF group /\ child # "none" THEN "gone" ELSE child
  /\ UNCHANGED <<group, stop, signalled, stream, sampling, misses, failure, outcome>>

\* the mutated form: the force timer is armed by the timeout only
KillAfterTimeout == "timeout" \in stop /\ ForceStop

Kill == ForceStop

----
\* One turn of the monitor: a verdict aborts the run
Fails(code) ==
  /\ failure' = code
  /\ stop' = stop \cup {"aborted"}

Sample ==
  /\ Pending /\ failure = "none"
  /\ \/ /\ sampling
        /\ misses' = 0
        /\ \/ stream = "repeating" /\ Fails("repetitive-output")
           \/ stream = "quiet" /\ Fails("idle-timeout")
           \/ stream # "repeating" /\ UNCHANGED <<failure, stop>>
     \/ /\ ~sampling
        /\ misses' = misses + 1
        /\ IF misses + 1 >= SampleLimit THEN Fails("monitor-unavailable")
           ELSE UNCHANGED <<failure, stop>>
  /\ UNCHANGED <<group, leader, child, signalled, stream, sampling, outcome>>

\* The result of runProcess is good when the process has said so and nobody
\* had asked it to stop.
Ok == leader = "succeeded" /\ stop = {}

\* The output is closed: the monitor is stopped, its verdict comes first, then
\* one last sample, then the result.
Settled ==
  IF failure # "none" THEN failure
  ELSE IF ~sampling THEN "monitor-unavailable"
  ELSE IF stream = "repeating" THEN "repetitive-output"
  ELSE IF Ok THEN "accepted" ELSE "failed"

Settle ==
  /\ Pending /\ Closed
  /\ outcome' = Settled
  /\ UNCHANGED <<group, leader, child, stop, signalled, stream, sampling, misses, failure>>

Next ==
  \/ \E next \in {"moving", "quiet", "repeating"} : Model(next)
  \/ SamplingChanges
  \/ \E how \in {"succeeded", "failed"} : Exits(how)
  \/ ChildExits
  \/ \E reason \in {"timeout", "output"} : AskToStop(reason)
  \/ Term \/ Kill \/ Sample \/ Settle

Spec == Init /\ [][Next]_vars

\* The poll of the monitor, the two signals and the close event are timers and
\* events of the runtime: each comes about when it stays possible.  An updater
\* itself may run for ever.
Fairness ==
  /\ WF_vars(Sample) /\ WF_vars(Term) /\ WF_vars(Kill) /\ WF_vars(Settle)
  /\ WF_vars(ChildExits)

FairSpec == Spec /\ Fairness

----
\* A run that was asked to stop ends.  A descendant that ignores SIGTERM is
\* excepted: once the leader has ended, SIGKILL is never sent to its group,
\* and the run waits for as long as the descendant keeps the output open.
StopEnds == (stop # {} /\ (child \in {"none", "obeys"})) ~> ~Pending
====
