---------------------------- MODULE CampaignLock ----------------------------
(***************************************************************************)
(* acquireCampaignLock (controller/src/campaign-lock.mjs): the directory   *)
(* <campaignId>.lock with its owner.json keeps controller processes of one *)
(* host apart.  Each system call is a step of its own.  A lock whose owner *)
(* is dead, or which never got an owner and is a minute old, is renamed    *)
(* away and the attempt repeated.                                          *)
(***************************************************************************)
EXTENDS Naturals

CONSTANTS Procs,    \* controller processes
          Nobody    \* no owner.json

LockAssumption == Nobody \notin Procs

VARIABLES pc,       \* where each process is
          tries,    \* failed attempts of the current command
          locked,   \* the lock directory exists
          owner,    \* whom its owner.json names
          fresh,    \* it changed less than a minute ago
          stalls,   \* a process may stall a minute between two system calls
          judged,   \* who found the directory that has the name now stale
          snatched  \* somebody has moved away another one than that

vars == <<pc, tries, locked, owner, fresh, stalls, judged, snatched>>

MaxTries == 4

AttemptsLeft(p) == tries[p] < MaxTries

TypeOK ==
    /\ pc \in [Procs -> {"idle", "mkdir", "write", "examine", "reclaim", "cleanup",
                         "holding", "unlink", "rmdir", "released", "dead"}]
    /\ tries \in [Procs -> 0..MaxTries]
    /\ locked \in BOOLEAN /\ fresh \in BOOLEAN
    /\ owner \in Procs \cup {Nobody} /\ stalls \in BOOLEAN
    /\ judged \subseteq Procs /\ snatched \in BOOLEAN

Init ==
    /\ pc = [p \in Procs |-> "idle"] /\ tries = [p \in Procs |-> 0]
    /\ locked = FALSE /\ owner = Nobody /\ fresh = FALSE
    /\ stalls \in BOOLEAN /\ judged = {} /\ snatched = FALSE

Goto(p, l) == pc' = [pc EXCEPT ![p] = l]
Dir == <<locked, owner, fresh>>

(* judged and snatched are history: no step reads them.                    *)
History == <<judged, snatched>>
DirectoryGoes == locked' = FALSE /\ owner' = Nobody /\ fresh' = FALSE /\ judged' = {}

(* The command fails; the operator may issue it again.                     *)
Refuse(p) == Goto(p, "idle") /\ tries' = [tries EXCEPT ![p] = 0]

Begin(p) == pc[p] = "idle" /\ Goto(p, "mkdir") /\ UNCHANGED <<tries, Dir, History>>

GiveUp(p) ==
    /\ pc[p] = "mkdir" /\ ~AttemptsLeft(p)
    /\ Refuse(p) /\ UNCHANGED <<Dir, History>>

MakeDirectory(p) ==
    /\ pc[p] = "mkdir" /\ AttemptsLeft(p)
    /\ IF locked THEN Goto(p, "examine") /\ UNCHANGED Dir
       ELSE /\ Goto(p, "write")
            /\ locked' = TRUE /\ owner' = Nobody /\ fresh' = TRUE
    /\ UNCHANGED <<tries, History>>

(* writeFile(..., "wx"): the path is looked up again, so it may meet       *)
(* another process's directory, or none.                                   *)
WriteOwner(p) ==
    /\ pc[p] = "write"
    /\ \/ locked /\ owner = Nobody /\ Goto(p, "holding")
          /\ owner' = p /\ fresh' = TRUE /\ UNCHANGED locked
       \/ locked /\ owner # Nobody /\ Goto(p, "examine") /\ UNCHANGED Dir
       \/ ~locked /\ Goto(p, "cleanup") /\ UNCHANGED Dir
    /\ UNCHANGED <<tries, History>>

CleanUp(p) ==
    /\ pc[p] = "cleanup" /\ DirectoryGoes
    /\ Refuse(p) /\ UNCHANGED snatched

(* ownerIsAlive: the process has the pid, boot id and start time it wrote. *)
AliveAlways(q) == TRUE

Alive(q) == pc[q] # "dead"

ActiveIgnoringFresh == locked /\ owner # Nobody /\ Alive(owner)

Active == locked /\ IF owner = Nobody THEN fresh ELSE Alive(owner)

Examine(p) ==
    /\ pc[p] = "examine"
    /\ IF Active THEN Refuse(p) /\ UNCHANGED judged
       ELSE /\ Goto(p, "reclaim") /\ UNCHANGED tries
            /\ judged' = IF locked THEN judged \cup {p} ELSE judged
    /\ UNCHANGED <<Dir, snatched>>

(* rename(2) moves away whatever directory has the name by now.            *)
Reclaim(p) ==
    /\ pc[p] = "reclaim" /\ DirectoryGoes
    /\ snatched' = (snatched \/ (locked /\ p \notin judged))
    /\ Goto(p, "mkdir") /\ tries' = [tries EXCEPT ![p] = @ + 1]

(* Release: check the nonce, then rm -r, owner.json first; what is in the  *)
(* directory by the time it goes is removed with it.                       *)
CheckNonce(p) ==
    /\ pc[p] = "holding"
    /\ IF locked /\ owner = p THEN Goto(p, "unlink") ELSE Goto(p, "released")
    /\ UNCHANGED <<tries, Dir, History>>

Unlink(p) ==
    /\ pc[p] = "unlink"
    /\ IF locked THEN owner' = Nobody /\ fresh' = TRUE ELSE UNCHANGED <<owner, fresh>>
    /\ Goto(p, "rmdir") /\ UNCHANGED <<tries, locked, History>>

RemoveDirectory(p) ==
    /\ pc[p] = "rmdir" /\ DirectoryGoes
    /\ Goto(p, "released") /\ UNCHANGED <<tries, snatched>>

Die(p) ==
    /\ pc[p] \notin {"idle", "released", "dead"}
    /\ Goto(p, "dead") /\ UNCHANGED <<tries, Dir, History>>

(* A minute passes.  Without stalls no live process is between two calls   *)
(* that long.                                                              *)
Age ==
    /\ locked /\ fresh
    /\ stalls \/ \A p \in Procs : pc[p] \notin {"write", "reclaim", "rmdir"}
    /\ fresh' = FALSE
    /\ UNCHANGED <<pc, tries, locked, owner, stalls, History>>

Step(p) ==
    \/ Begin(p) \/ GiveUp(p) \/ MakeDirectory(p) \/ WriteOwner(p) \/ CleanUp(p)
    \/ Examine(p) \/ Reclaim(p) \/ CheckNonce(p) \/ Unlink(p) \/ RemoveDirectory(p)

Go(p) == Step(p) /\ UNCHANGED stalls

Next == Age \/ \E p \in Procs : Go(p) \/ (Die(p) /\ UNCHANGED stalls)

(* Every process goes on, time passes, and a refused command is repeated.  *)
Spec == Init /\ [][Next]_vars /\ WF_vars(Age) /\ \A p \in Procs : WF_vars(Go(p))

-----------------------------------------------------------------------------

OneHolding == \A p, q \in Procs : pc[p] = "holding" /\ pc[q] = "holding" => p = q

(* campaign-lock.mjs:71 "a crash-recoverable, campaign-wide single-writer  *)
(* lease": two processes never hold the campaign at once, as long as none  *)
(* of them stalls.                                                         *)
AtMostOneHolder == ~stalls => OneHolding

(* ... which the code keeps for any number of processes, deaths and        *)
(* recoveries, except that between its look and its rename another         *)
(* directory can get the name: the read-then-rename of :134 is the only    *)
(* way two of them get in.                                                 *)
HoldersApart == ~stalls /\ ~snatched => OneHolding

(* A lock left behind by a crash keeps nobody out for good, as long as     *)
(* nobody else is there to get in the way.                                 *)
CrashRecoverable ==
    \A p, q \in Procs :
      p # q /\ (\A r \in Procs \ {p} : pc[r] = "dead")
      ~> pc[p] \in {"holding", "unlink", "rmdir", "released", "dead"}

=============================================================================
