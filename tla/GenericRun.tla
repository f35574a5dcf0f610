----------------------------- MODULE GenericRun -----------------------------
(***************************************************************************)
(* The host of a generic algorithm (runLockedEvolution) and its file store:*)
(* initialize or resume, steps that save the state, then a checkpoint,     *)
(* then an event, in launches that may be killed between any two of them.  *)
(***************************************************************************)
EXTENDS Naturals, Sequences

CONSTANTS MaxStep,   \* steps after which the algorithm is done
          MaxSteps,  \* maxSteps of one launch
          Launches   \* bound on the launches

GenericAssumption == MaxStep \in Nat /\ MaxSteps \in Nat /\ Launches \in Nat

VARIABLES at,      \* what the launch does next
          state,   \* the algorithm's own state: how far it is
          steps,   \* steps of this launch
          saved,   \* state.json
          files,   \* checkpoints by name: <<step of the launch, suffix>>
          log,     \* events.jsonl: the state each event was published in
          launched

runVars == <<at, state, steps, saved, files, log, launched>>

Missing == 99  \* no state.json, no metadata.json or no directory
Torn == 98     \* a file that a killed process has not finished
Names == (1..MaxSteps) \X (0..Launches)

Init ==
    /\ at = "idle" /\ state = 0 /\ steps = 0 /\ saved = Missing
    /\ files = [n \in Names |-> Missing] /\ log = <<>> /\ launched = 0

(* initialize creates the directory, which must not be there.              *)
Launch ==
    /\ at = "idle" /\ launched < Launches /\ launched' = launched + 1 /\ steps' = 0
    /\ \/ /\ launched = 0 /\ state' = 0 /\ at' = "create" /\ UNCHANGED <<saved, files>>
       \/ /\ saved # Missing /\ at' = "begin" /\ state' = saved /\ UNCHANGED <<saved, files>>
       \/ /\ saved # Missing /\ at' = "begin"
          /\ \E n \in Names : files[n] \notin {Missing, Torn} /\ state' = files[n]
          /\ UNCHANGED <<saved, files>>
    /\ UNCHANGED log

Create ==
    /\ at = "create" /\ at' = "begin" /\ saved' = state
    /\ UNCHANGED <<state, steps, files, log, launched>>

(* The lifecycle method returns the state, which is saved at once.         *)
Begin ==
    /\ at = "begin" /\ saved' = state /\ at' = "step"
    /\ UNCHANGED <<state, steps, files, log, launched>>

Step ==
    /\ at = "step"
    /\ IF steps = MaxSteps \/ state = MaxStep
       THEN at' = "idle" /\ UNCHANGED <<state, steps>>
       ELSE at' = "save" /\ state' = state + 1 /\ steps' = steps + 1
    /\ UNCHANGED <<saved, files, log, launched>>

AfterSave(a) == CASE a = "save" -> "checkpoint" [] a = "checkpoint" -> "event" [] OTHER -> "step"

Save ==
    /\ at = "save" /\ saved' = state /\ at' = AfterSave(at)
    /\ UNCHANGED <<state, steps, files, log, launched>>

(* The first name that is free or holds the same checkpoint already.       *)
Fits(n) == files[n] \in {Missing, state}
FreeName ==
    CHOOSE n \in Names : /\ n[1] = steps /\ Fits(n)
                         /\ \A m \in Names : m[1] = steps /\ m[2] < n[2] => ~Fits(m)

WriteCheckpoint ==
    /\ at = "checkpoint"
    /\ \/ files' = [files EXCEPT ![FreeName] = state] /\ at' = AfterSave(at)
       \/ files[FreeName] = Missing /\ files' = [files EXCEPT ![FreeName] = Torn] /\ at' = "idle"
    /\ UNCHANGED <<state, steps, saved, log, launched>>

AppendEvent ==
    /\ at = "event" /\ log' = Append(log, state) /\ at' = AfterSave(at)
    /\ UNCHANGED <<state, steps, saved, files, launched>>

Crash == at # "idle" /\ at' = "idle" /\ UNCHANGED <<state, steps, saved, files, log, launched>>

Next ==
    \/ Launch \/ Create \/ Begin \/ Step \/ Save
    \/ WriteCheckpoint \/ AppendEvent \/ Crash

Spec == Init /\ [][Next]_runVars

-----------------------------------------------------------------------------
(* A checkpoint is never replaced: a launch counts its steps from one      *)
(* again, and the name of an earlier launch may stand for another state.   *)
CheckpointsStay == \A n \in Names : files[n] # Missing => files'[n] = files[n]

=============================================================================
