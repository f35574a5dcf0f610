----------------------------- MODULE RunServer -----------------------------
(***************************************************************************)
(* One run of the server's CoreEngine: its descriptor file, the CLI        *)
(* processes started for it, the handler of their exit, control requests   *)
(* (serialised per run), refreshing reads (not serialised), and the server *)
(* going down and coming back while a process may live on.                 *)
(***************************************************************************)
EXTENDS Naturals

CONSTANTS Kids,     \* CLI processes that may be started, in all
          Readers,  \* concurrent GET requests
          NoKid,
          MaxDowns  \* bound on the server's restarts

ServerAssumption == NoKid \notin Kids /\ MaxDowns \in Nat

VARIABLES status, pid,  \* of the descriptor file
          core,         \* status in the state file of the run
          kid,          \* new, alive, exited with ok or failed, or gone
          lock,         \* the process that holds the campaign lock
          procs,        \* the server's entry for the run in its process map
          handler,      \* exit handler of each process: off, wait, or the status to save
          control,      \* the create or control request in service
          reader,       \* what a refreshing read is about to save
          up, downs

core_ == <<core, kid, lock>>
serverVars == <<status, pid, core_, procs, handler, control, reader, up, downs>>

Free == "idle"
Terminal == {"completed", "paused", "failed"}
Alive(k) == k # NoKid /\ kid[k] = "alive"

Init ==
    /\ status = "absent" /\ pid = NoKid /\ core = "none"
    /\ kid = [k \in Kids |-> "new"] /\ lock = NoKid /\ procs = NoKid
    /\ handler = [k \in Kids |-> "off"] /\ control = Free
    /\ reader = [r \in Readers |-> Free] /\ up = TRUE /\ downs = 0

(* The descriptor is created with wx: one create request wins.             *)
Create ==
    /\ up /\ control = Free /\ status = "absent"
    /\ status' = "queued" /\ control' = "spawn"
    /\ UNCHANGED <<pid, core_, procs, handler, reader, up, downs>>

Spawn ==
    /\ up /\ control = "spawn"
    /\ \/ /\ status' = "failed" /\ control' = Free
          /\ UNCHANGED <<kid, procs, handler>>
       \/ \E k \in Kids :
            /\ kid[k] = "new" /\ kid' = [kid EXCEPT ![k] = "alive"]
            /\ procs' = k /\ handler' = [handler EXCEPT ![k] = "wait"]
            /\ control' = "ready" /\ UNCHANGED status
    /\ UNCHANGED <<pid, core, lock, reader, up, downs>>

Ready ==
    /\ up /\ control = "ready"
    /\ status' = "running" /\ pid' = procs /\ control' = Free
    /\ UNCHANGED <<core_, procs, handler, reader, up, downs>>

-----------------------------------------------------------------------------
(* The CLI process: it takes the campaign lock, saves states, and ends; a  *)
(* process that finds the lock taken fails at once.                        *)
KidWorks(k) ==
    /\ Alive(k) /\ lock \in {NoKid, k} /\ core \notin {"completed"}
    /\ lock' = k /\ core' = "running"
    /\ UNCHANGED <<status, pid, kid, procs, handler, control, reader, up, downs>>

KidEnds(k) ==
    /\ Alive(k)
    /\ \/ /\ lock = k /\ lock' = NoKid
          /\ \E c \in Terminal : core' = c
          /\ kid' = [kid EXCEPT ![k] = IF core' = "failed" THEN "failed" ELSE "ok"]
       \/ /\ lock' = IF lock = k THEN NoKid ELSE lock
          /\ kid' = [kid EXCEPT ![k] = "failed"] /\ UNCHANGED core
    /\ UNCHANGED <<status, pid, procs, handler, control, reader, up, downs>>

(* A normal exit counts for what the state file says; anything else fails. *)
TerminalFromCode(k) == IF kid[k] = "ok" THEN "completed" ELSE "failed"
TerminalFromCore(k) ==
    IF status = "cancelling" THEN "cancelled"
    ELSE IF kid[k] = "ok" /\ core \in Terminal THEN core ELSE "failed"

Closed(k) ==
    /\ up /\ handler[k] = "wait" /\ kid[k] \in {"ok", "failed"} /\ control # "ready"
    /\ handler' = [handler EXCEPT ![k] = TerminalFromCore(k)]
    /\ UNCHANGED <<status, pid, core_, procs, control, reader, up, downs>>

CloseSaved(k) ==
    /\ up /\ handler[k] \in Terminal \cup {"cancelled"}
    /\ status' = handler[k] /\ pid' = NoKid
    /\ handler' = [handler EXCEPT ![k] = "drop"]
    /\ UNCHANGED <<core_, procs, control, reader, up, downs>>

CloseDropped(k) ==
    /\ up /\ handler[k] = "drop"
    /\ procs' = IF procs = k THEN NoKid ELSE procs
    /\ handler' = [handler EXCEPT ![k] = "off"] /\ kid' = [kid EXCEPT ![k] = "gone"]
    /\ UNCHANGED <<status, pid, core, lock, control, reader, up, downs>>

-----------------------------------------------------------------------------
(* A control request decides on the descriptor it has read and saves after.*)
CancelRead ==
    /\ up /\ control = Free /\ procs # NoKid /\ status \in {"running", "cancelling"}
    /\ control' = "cancel"
    /\ UNCHANGED <<status, pid, core_, procs, handler, reader, up, downs>>

CancelSave ==
    /\ up /\ control = "cancel" /\ control' = Free /\ status' = "cancelling"
    /\ UNCHANGED <<pid, core_, procs, handler, reader, up, downs>>

ResumeRead ==
    /\ up /\ control = Free /\ status \in {"paused", "failed"} /\ control' = "resume"
    /\ UNCHANGED <<status, pid, core_, procs, handler, reader, up, downs>>

ResumeSave ==
    /\ up /\ control = "resume" /\ control' = "spawn" /\ status' = "queued"
    /\ UNCHANGED <<pid, core_, procs, handler, reader, up, downs>>

(* After a restart a reader notices that the recorded process is gone.     *)
Interrupted == status = "running" /\ procs = NoKid /\ pid # NoKid /\ ~Alive(pid)
Mapped == CASE core = "none" -> "failed" [] core = "running" -> "paused" [] OTHER -> core

RefreshRead(r) ==
    /\ up /\ reader[r] = Free /\ Interrupted
    /\ reader' = [reader EXCEPT ![r] = Mapped]
    /\ UNCHANGED <<status, pid, core_, procs, handler, control, up, downs>>

RefreshSave(r) ==
    /\ up /\ reader[r] # Free
    /\ status' = reader[r] /\ pid' = NoKid /\ reader' = [reader EXCEPT ![r] = Free]
    /\ UNCHANGED <<core_, procs, handler, control, up, downs>>

Down ==
    /\ up /\ downs < MaxDowns /\ up' = FALSE /\ downs' = downs + 1
    /\ procs' = NoKid /\ handler' = [k \in Kids |-> "off"] /\ control' = Free
    /\ reader' = [r \in Readers |-> Free]
    /\ UNCHANGED <<status, pid, core_>>

Up == ~up /\ up' = TRUE /\ UNCHANGED <<status, pid, core_, procs, handler, control, reader, downs>>

Close(k) == Closed(k) \/ CloseSaved(k) \/ CloseDropped(k)
Refresh(r) == RefreshRead(r) \/ RefreshSave(r)
Serve == Spawn \/ Ready \/ CancelSave \/ ResumeSave

Next ==
    \/ Create \/ CancelRead \/ ResumeRead \/ Serve \/ Down \/ Up
    \/ \E k \in Kids : KidWorks(k) \/ KidEnds(k) \/ Close(k)
    \/ \E r \in Readers : Refresh(r)

Spec == Init /\ [][Next]_serverVars

(* Promises are resolved, a process ends or is killed, clients keep asking.*)
Fairness ==
    /\ WF_serverVars(Serve) /\ WF_serverVars(Up)
    /\ \A k \in Kids : WF_serverVars(KidEnds(k)) /\ WF_serverVars(Close(k))
    /\ \A r \in Readers : WF_serverVars(Refresh(r))

FairSpec == Spec /\ Fairness

-----------------------------------------------------------------------------
(* A run is shown as completed only when its own state file says so.       *)
CompletedIsTrue == status = "completed" => core = "completed"

(* A run shown as running comes to rest, also over a restart of the server *)
(* that loses the handler of its exit.                                     *)
RunningComesToRest == (status = "running") ~> (status # "running")

(* server/README.zh.md: a run can be cancelled and resumed.  Does not      *)
(* hold: a cancel that read the descriptor before the exit was saved is    *)
(* saved after it, and nothing ever leaves "cancelling" again.             *)
CancellingEnds == (status = "cancelling") ~> (status # "cancelling")

(* Does not hold: a reader that found the old process gone may save its    *)
(* finding after a resume has started a new one.                           *)
RestsWithoutProcess ==
    status \in {"paused", "completed"} => \A k \in Kids : ~Alive(k)
=============================================================================
