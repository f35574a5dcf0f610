------------------------------- MODULE MCHost -------------------------------
(***************************************************************************)
(* What processes of one host share or supervise: the campaign lock, the   *)
(* solver slots, the server with its CLI process, the watched updater.     *)
(* They share no state: the initial state chooses the one that moves, the  *)
(* others rest in one of their initial states.                             *)
(***************************************************************************)
EXTENDS Naturals, FiniteSets

CONSTANTS Procs, Nobody,                                        \* campaign lock
          Workers, Processes, ProcessOf, Mortal, Limit, NoOwner,  \* solver slots
          Kids, Readers, NoKid, MaxDowns,                         \* server
          SampleLimit                                             \* watched updater

VARIABLES system,
          pc, tries, locked, owner, fresh, stalls, judged, snatched,
          step, index, slot, dead, found, swept,
          status, pid, core, kid, lock, procs, handler, control, reader, up, downs,
          group, leader, child, stop, signalled, stream, sampling, misses, failure,
          outcome

Lock == INSTANCE CampaignLock
Permits == INSTANCE GlobalSlots
Server == INSTANCE RunServer
Watch == INSTANCE UpdaterWatch

ASSUME HostAssumption ==
    /\ Lock!LockAssumption /\ Permits!SlotsAssumption
    /\ Server!ServerAssumption /\ Watch!SampleAssumption

(* Operations of one process, and one of another that may be killed.       *)
OneApart == [w \in {"w1", "w2", "w3", "w4"} |-> IF w = "w4" THEN "b" ELSE "a"]

On(s) == system = s

lockVars == <<pc, tries, locked, owner, fresh, stalls, judged, snatched>>
slotVars == <<step, index, slot, dead, found, swept>>
serverVars == <<status, pid, core, kid, lock, procs, handler, control, reader, up, downs>>
watchVars == <<group, leader, child, stop, signalled, stream, sampling, misses, failure,
               outcome>>
host == <<system, lockVars, slotVars, serverVars, watchVars>>

Init ==
    /\ system \in {"lock", "slots", "server", "watch"}
    /\ Lock!Init /\ Permits!Init /\ Server!Init /\ Watch!Init
    /\ ~On("lock") => ~stalls
    /\ ~On("watch") => ~group /\ child = "none"

Next ==
    \/ On("lock") /\ Lock!Next
         /\ UNCHANGED <<system, slotVars, serverVars, watchVars>>
    \/ On("slots") /\ Permits!Next
         /\ UNCHANGED <<system, lockVars, serverVars, watchVars>>
    \/ On("server") /\ Server!Next
         /\ UNCHANGED <<system, lockVars, slotVars, watchVars>>
    \/ On("watch") /\ Watch!Next
         /\ UNCHANGED <<system, lockVars, slotVars, serverVars>>

(* The fairness each module states, of the system that moves.              *)
LockFair ==
    /\ WF_lockVars(On("lock") /\ Lock!Age)
    /\ \A p \in Procs : WF_lockVars(On("lock") /\ Lock!Go(p))

PermitsFair == \A w \in Workers : WF_slotVars(On("slots") /\ Permits!Proceed(w))

ServerFair ==
    /\ WF_serverVars(On("server") /\ Server!Serve)
    /\ WF_serverVars(On("server") /\ Server!Up)
    /\ \A k \in Kids : /\ WF_serverVars(On("server") /\ Server!KidEnds(k))
                       /\ WF_serverVars(On("server") /\ Server!Close(k))
    /\ \A r \in Readers : WF_serverVars(On("server") /\ Server!Refresh(r))

WatchFair ==
    /\ WF_watchVars(On("watch") /\ Watch!Sample)
    /\ WF_watchVars(On("watch") /\ Watch!Term)
    /\ WF_watchVars(On("watch") /\ Watch!Kill)
    /\ WF_watchVars(On("watch") /\ Watch!Settle)
    /\ WF_watchVars(On("watch") /\ Watch!ChildExits)

FairSpec ==
    Init /\ [][Next]_host /\ LockFair /\ PermitsFair /\ ServerFair /\ WatchFair

-----------------------------------------------------------------------------
(* Two processes never hold the campaign, unless one of them stalls for a  *)
(* minute or moves away another directory than the one it found stale.     *)
HoldersApart == Lock!HoldersApart

(* No more operations run at once than the limit, also when the slots of   *)
(* the dead are taken over, unless a slot is moved away that was not found *)
(* so.                                                                     *)
PermitsBounded == Permits!PermitsBounded

(* A run is shown as completed only when its own state file says so.       *)
CompletedIsTrue == Server!CompletedIsTrue

(* Locks and permits: who claims one gets one, whatever crash left behind, *)
(* as far as the code can tell.                                            *)
ClaimsAreServed == Lock!CrashRecoverable /\ Permits!PermitGranted

(* Processes: a run shown as running comes to rest, a stopped updater ends.*)
ProcessesComeToRest == Server!RunningComesToRest /\ Watch!StopEnds
=============================================================================
