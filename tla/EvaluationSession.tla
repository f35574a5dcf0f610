-------------------------- MODULE EvaluationSession --------------------------
(***************************************************************************)
(* An evaluation job (runEvaluationJob, runEvaluationSession): candidates  *)
(* are resolved to workspaces and digests, an identity is made of them and *)
(* of the job's inputs, and under the lock of the output directory each    *)
(* candidate is measured task by task, each task on its workspace as it is *)
(* then.  A task's checkpoint and a candidate's committed result are kept  *)
(* for every later launch of the same identity.  Jobs may be launched on   *)
(* the same output side by side or after a kill, and meanwhile the inputs  *)
(* and the workspaces may be edited, and edits undone.                     *)
(***************************************************************************)
EXTENDS Naturals

CONSTANTS Jobs,
          Candidates, Tasks,
          Trained,    \* those that name a run: its state records a digest
          Launches,   \* bound on the launches
          Edits       \* bound on the edits of the inputs and workspaces

SessionAssumption ==
    /\ "nobody" \notin Jobs /\ Trained \subseteq Candidates
    /\ Launches \in Nat /\ Edits \in Nat

VARIABLES
    workspace,  \* the version of each candidate's workspace
    inputs,     \* the version of what else the identity is made of
    launches, edits,
    former,     \* history: the versions a workspace was edited away from
    restored,   \* history: the candidates that had a former version again
    root,       \* the output directory: "absent", "made" or "named"
    named,      \* what identity.json holds
    trials,     \* the version each task was measured on, or Unmeasured
    results,    \* the committed result of each candidate, or NoResult
    summary,    \* summary.json
    holder,     \* the job that holds the lock, or "nobody"
    job         \* each job: its phase and what it holds in memory

disk == <<root, named, trials, results, summary>>
vars == <<workspace, inputs, launches, edits, former, restored, disk, holder, job>>

\* No job has this identity: inputs are edited at most Edits times.
NoIdentity == [digests |-> [c \in Candidates |-> 0], inputs |-> Edits + 1]
Unmeasured == Edits + 1
NoTrials == [t \in Tasks |-> Unmeasured]
NoResult == [identity |-> NoIdentity, measured |-> NoTrials]
Committed(c) == results[c] # NoResult
Incomplete == "incomplete"
Complete == "complete"

\* A job that is not running.
Idle == [at |-> "idle", identity |-> NoIdentity, resume |-> FALSE, current |-> "none",
         left |-> {}, items |-> [c \in Candidates |-> Incomplete]]

Init ==
    /\ workspace = [c \in Candidates |-> 0] /\ inputs = 0
    /\ launches = 0 /\ edits = 0
    /\ former = [c \in Candidates |-> {}] /\ restored = {}
    /\ root = "absent" /\ named = NoIdentity
    /\ trials = [c \in Candidates |-> NoTrials]
    /\ results = [c \in Candidates |-> NoResult]
    /\ summary = [complete |-> FALSE, identity |-> NoIdentity]
    /\ holder = "nobody" /\ job = [j \in Jobs |-> Idle]

\* An edit makes a version or brings an earlier one back.
EditSource(c, version) ==
    /\ version # workspace[c] /\ workspace' = [workspace EXCEPT ![c] = version]
    /\ former' = [former EXCEPT ![c] = @ \cup {workspace[c]}]
    /\ restored' = IF version \in former[c] THEN restored \cup {c} ELSE restored
    /\ UNCHANGED inputs

EditInputs(version) ==
    /\ version # inputs /\ inputs' = version
    /\ UNCHANGED <<workspace, former, restored>>

Edit ==
    /\ edits < Edits /\ edits' = edits + 1
    /\ \E version \in 0..edits' :
          EditInputs(version) \/ \E c \in Candidates : EditSource(c, version)
    /\ UNCHANGED <<launches, disk, holder, job>>

-----------------------------------------------------------------------------
At(j, phase) == job[j].at = phase
Goes(j, phase) == job' = [job EXCEPT ![j].at = phase]
Outside == UNCHANGED <<workspace, inputs, launches, edits, former, restored>>

\* resolveEvaluationCandidates: the digest of the workspace as it is now,
\* which for a trained candidate must be the one its run has recorded.
Resolved == \A c \in Trained : workspace[c] = 0

Launch(j) ==
    /\ At(j, "idle") /\ launches < Launches /\ Resolved
    /\ launches' = launches + 1
    /\ \E resume \in BOOLEAN :
          job' = [job EXCEPT ![j] = [Idle EXCEPT !.at = "preparing", !.resume = resume,
                                                 !.identity = [digests |-> workspace, inputs |-> 0]]]
    /\ UNCHANGED <<workspace, inputs, edits, former, restored, disk, holder>>

\* The environment is prepared before the inputs are captured; the job ends
\* when it fails or when another one holds the lock.
Lock(j) ==
    /\ At(j, "preparing")
    /\ \/ /\ holder = "nobody" /\ holder' = j
          /\ job' = [job EXCEPT ![j].identity.inputs = inputs, ![j].at = "opening"]
       \/ job' = [job EXCEPT ![j] = Idle] /\ UNCHANGED holder
    /\ Outside /\ UNCHANGED disk

Release(j) == holder' = "nobody" /\ job' = [job EXCEPT ![j] = Idle]
Begin(j) == job' = [job EXCEPT ![j].at = "next", ![j].left = Candidates]

\* mkdir and identity.json are two writes.
MakeRoot(j) ==
    /\ At(j, "opening") /\ ~job[j].resume
    /\ IF root = "absent"
       THEN root' = "made" /\ Goes(j, "naming") /\ UNCHANGED holder
       ELSE Release(j) /\ UNCHANGED root
    /\ Outside /\ UNCHANGED <<named, trials, results, summary>>

NameRoot(j) ==
    /\ At(j, "naming") /\ root' = "named" /\ named' = job[j].identity /\ Begin(j)
    /\ Outside /\ UNCHANGED <<trials, results, summary, holder>>

\* compareEvaluationIdentity with mode "resume": any difference is refused.
SameIdentity(stored, current) == stored = current

OpenRoot(j) ==
    /\ At(j, "opening") /\ job[j].resume
    /\ IF root = "named" /\ SameIdentity(named, job[j].identity)
       THEN Begin(j) /\ UNCHANGED holder
       ELSE Release(j)
    /\ Outside /\ UNCHANGED disk

-----------------------------------------------------------------------------
(* One candidate at a time; what goes wrong with it is kept in its item    *)
(* and the next one is taken.                                              *)
Unchanged(j, c) == workspace[c] = job[j].identity.digests[c]

Settled(j, c, status) ==
    job' = [job EXCEPT ![j].items[c] = status, ![j].at = "summing"]

Take(j, c) ==
    /\ At(j, "next") /\ c \in job[j].left
    /\ IF ~Unchanged(j, c)
       THEN job' = [job EXCEPT ![j].left = @ \ {c}, ![j].at = "summing"]
       ELSE IF Committed(c)
       THEN job' = [job EXCEPT ![j].left = @ \ {c}, ![j].at = "summing",
               ![j].items[c] = IF results[c].identity = job[j].identity
                               THEN Complete ELSE Incomplete]
       ELSE job' = [job EXCEPT ![j].left = @ \ {c}, ![j].current = c, ![j].at = "measuring"]
    /\ Outside /\ UNCHANGED <<disk, holder>>

\* runEvaluationPartition: a task that has no checkpoint yet reads the
\* workspace as it is, and what it reached stays on disk.
Unfinished(c) == {t \in Tasks : trials[c][t] = Unmeasured}

Measure(j, t) ==
    /\ At(j, "measuring") /\ t \in Unfinished(job[j].current)
    /\ trials' = [trials EXCEPT ![job[j].current][t] = workspace[job[j].current]]
    /\ Outside /\ UNCHANGED <<root, named, results, summary, holder, job>>

Measured(j) ==
    /\ At(j, "measuring") /\ Unfinished(job[j].current) = {} /\ Goes(j, "checking")
    /\ Outside /\ UNCHANGED <<disk, holder>>

\* A task that cannot be measured leaves the candidate incomplete.
TaskFails(j) ==
    /\ At(j, "measuring") /\ Settled(j, job[j].current, Incomplete)
    /\ Outside /\ UNCHANGED <<disk, holder>>

SourceUnread(j) == TRUE  \* the mutated form: no second look at the workspace

SourceKept(j) == Unchanged(j, job[j].current)

CheckAgain(j) ==
    /\ At(j, "checking")
    /\ IF SourceKept(j) THEN Goes(j, "saving") ELSE Settled(j, job[j].current, Incomplete)
    /\ Outside /\ UNCHANGED <<disk, holder>>

SaveResult(j) ==
    /\ At(j, "saving")
    /\ results' = [results EXCEPT ![job[j].current] =
          [identity |-> job[j].identity, measured |-> trials[job[j].current]]]
    /\ Settled(j, job[j].current, Complete)
    /\ Outside /\ UNCHANGED <<root, named, trials, summary, holder>>

SaveSummary(j) ==
    /\ At(j, "summing")
    /\ summary' = [complete |-> FALSE, identity |-> job[j].identity] /\ Goes(j, "next")
    /\ Outside /\ UNCHANGED <<root, named, trials, results, holder>>

Finish(j) ==
    /\ At(j, "next") /\ job[j].left = {}
    /\ summary' = [complete |-> \A c \in Candidates : job[j].items[c] = Complete,
                   identity |-> job[j].identity]
    /\ Release(j)
    /\ Outside /\ UNCHANGED <<root, named, trials, results>>

\* A killed job leaves a lock that the next one takes over.
Kill(j) ==
    /\ ~At(j, "idle") /\ job' = [job EXCEPT ![j] = Idle]
    /\ holder' = IF holder = j THEN "nobody" ELSE holder
    /\ Outside /\ UNCHANGED disk

Next ==
    \/ Edit
    \/ \E j \in Jobs :
          \/ Launch(j) \/ Lock(j) \/ MakeRoot(j) \/ NameRoot(j) \/ OpenRoot(j)
          \/ \E c \in Candidates : Take(j, c)
          \/ \E t \in Tasks : Measure(j, t)
          \/ Measured(j) \/ TaskFails(j) \/ CheckAgain(j) \/ SaveResult(j) \/ SaveSummary(j)
          \/ Finish(j) \/ Kill(j)

Spec == Init /\ [][Next]_vars

-----------------------------------------------------------------------------
(* A summary that calls itself complete stands for the output's identity,  *)
(* and each of its candidates has a result on disk that was committed      *)
(* under that identity.  Every task of it was measured on the workspace    *)
(* the identity names, whatever was edited and killed in between, unless   *)
(* the workspace got back a version it had before.                         *)
OnNamedSource(c) == \A t \in Tasks : results[c].measured[t] = named.digests[c]

CompleteIsMeasured ==
    summary.complete =>
        /\ root = "named" /\ summary.identity = named
        /\ \A c \in Candidates :
              /\ Committed(c) /\ results[c].identity = named
              /\ c \notin restored => OnNamedSource(c)

\* Holds not: a task is measured on an edited workspace, and before the
\* second look - or before the next launch of the same identity, which
\* keeps the checkpoint - the edit is undone.
MeasuredAsNamed == summary.complete => \A c \in Candidates : OnNamedSource(c)

\* Holds not: a kill between mkdir and identity.json leaves an output that
\* neither a new launch nor a resume accepts.
OutputsOpen == root = "made" => \E j \in Jobs : At(j, "naming")
=============================================================================
