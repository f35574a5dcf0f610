----------------------------- MODULE GlobalSlots -----------------------------
(***************************************************************************)
(* withGlobalPermit (controller/src/global-concurrency.mjs): solver and    *)
(* updater runs of all campaigns of a host share slot directories.  A      *)
(* worker tries slot-001 .. slot-<limit>, sleeps and tries again; it moves *)
(* away a slot whose owner.json names a dead process.  Each system call is *)
(* a step of its own.                                                      *)
(***************************************************************************)
EXTENDS Naturals, FiniteSets, Functions

CONSTANTS Workers,    \* operations that want a permit
          Processes,  \* controller processes
          ProcessOf,  \* [Workers -> Processes]
          Mortal,     \* processes that may be killed
          Limit,      \* RSI_GLOBAL_SOLVER_CONCURRENCY
          NoOwner     \* no owner.json

SlotsAssumption ==
    /\ ProcessOf \in [Workers -> Processes] /\ Mortal \subseteq Processes
    /\ Limit \in Nat \ {0} /\ NoOwner \notin Workers

VARIABLES step,   \* where each worker is
          index,  \* the slot it is trying or holding
          slot,   \* the slot directories that exist, with their owner
          dead,   \* processes that were killed
          found,  \* who found the directory at its slot now left by the dead
          swept   \* somebody has moved away another one than that

slotVars == <<step, index, slot, dead, found, swept>>

Slots == 1 .. Limit
Free == [taken |-> FALSE, owner |-> NoOwner]
OwnedBy(w) == [taken |-> TRUE, owner |-> w]

Init ==
    /\ step = [w \in Workers |-> "idle"] /\ index = [w \in Workers |-> 1]
    /\ slot = [i \in Slots |-> Free] /\ dead = {}
    /\ found = {} /\ swept = FALSE

Live(w) == ProcessOf[w] \notin dead
At(w, s) == Live(w) /\ step[w] = s
Goto(w, s) == step' = [step EXCEPT ![w] = s]
Stay == UNCHANGED <<index, dead>>
Mine(w) == slot[index[w]]
SetMine(w, d) == slot' = [slot EXCEPT ![index[w]] = d]

(* found and swept are history: no step reads them.                        *)
History == <<found, swept>>
MineGoes(w) == SetMine(w, Free) /\ found' = {v \in found : index[v] # index[w]}

Want(w) ==
    /\ At(w, "idle") /\ Goto(w, "mkdir") /\ Stay /\ UNCHANGED <<slot, History>>

(* After the last slot the worker sleeps and starts again with the first.  *)
NextSlot(i) == (i % Limit) + 1
TryNext(w) ==
    /\ index' = [index EXCEPT ![w] = NextSlot(@)]
    /\ Goto(w, "mkdir")

MakeSlot(w) ==
    /\ At(w, "mkdir")
    /\ IF Mine(w).taken THEN Goto(w, "examine") /\ UNCHANGED slot
       ELSE Goto(w, "write") /\ SetMine(w, OwnedBy(NoOwner))
    /\ Stay /\ UNCHANGED History

WriteOwner(w) ==
    /\ At(w, "write") /\ Mine(w) = OwnedBy(NoOwner)
    /\ SetMine(w, OwnedBy(w)) /\ Goto(w, "holding")
    /\ Stay /\ UNCHANGED History

(* Somebody moved the directory away, or put another in its place: what is *)
(* there is removed and the operation fails.                               *)
WriteRefused(w) ==
    /\ At(w, "write") /\ Mine(w) # OwnedBy(NoOwner)
    /\ MineGoes(w) /\ Goto(w, "failed") /\ Stay /\ UNCHANGED swept

StaleAlways(d) == d.taken /\ d.owner # NoOwner
Stale(d) == d.taken /\ d.owner # NoOwner /\ ~Live(d.owner)

ReadOwner(w) ==
    /\ At(w, "examine") /\ UNCHANGED <<slot, dead, swept>>
    /\ IF Stale(Mine(w))
       THEN Goto(w, "reclaim") /\ found' = found \cup {w} /\ UNCHANGED index
       ELSE TryNext(w) /\ UNCHANGED found

(* rename(2) moves away whatever has the name by now.                      *)
Reclaim(w) ==
    /\ At(w, "reclaim")
    /\ MineGoes(w) /\ TryNext(w) /\ UNCHANGED dead
    /\ swept' = (swept \/ (Mine(w).taken /\ w \notin found))

(* The release reads owner.json back, unlinks it and removes the directory.*)
CheckOwner(w) ==
    /\ At(w, "holding")
    /\ Goto(w, IF Mine(w) = OwnedBy(w) THEN "unlink" ELSE "failed")
    /\ Stay /\ UNCHANGED <<slot, History>>

UnlinkOwner(w) ==
    /\ At(w, "unlink")
    /\ IF Mine(w).taken /\ Mine(w).owner # NoOwner
       THEN SetMine(w, OwnedBy(NoOwner)) /\ Goto(w, "rmdir")
       ELSE UNCHANGED slot /\ Goto(w, "failed")
    /\ Stay /\ UNCHANGED History

RemoveSlot(w) ==
    /\ At(w, "rmdir")
    /\ IF Mine(w) = OwnedBy(NoOwner)
       THEN MineGoes(w) /\ Goto(w, "done")
       ELSE UNCHANGED <<slot, found>> /\ Goto(w, "failed")
    /\ Stay /\ UNCHANGED swept

Kill(p) ==
    /\ p \in Mortal \ dead /\ dead' = dead \cup {p}
    /\ UNCHANGED <<step, index, slot, History>>

Proceed(w) ==
    \/ MakeSlot(w) \/ WriteOwner(w) \/ WriteRefused(w) \/ ReadOwner(w)
    \/ Reclaim(w) \/ CheckOwner(w) \/ UnlinkOwner(w) \/ RemoveSlot(w)

Next == (\E w \in Workers : Want(w) \/ Proceed(w)) \/ \E p \in Processes : Kill(p)

Spec == Init /\ [][Next]_slotVars

(* Operations end and every process is scheduled.  Every worker wants one  *)
(* permit only: who polls is not served in turn, so those who came back    *)
(* again and again could keep another one out by luck.                     *)
FairSpec == Spec /\ \A w \in Workers : WF_slotVars(Proceed(w))

-----------------------------------------------------------------------------
(* No more operations run at once than the limit says.                     *)
AlwaysBounded == Cardinality({w \in Workers : At(w, "holding")}) <= Limit

(* ... whichever processes are killed and whoever takes over their slots,  *)
(* as long as nobody moves away another directory than the one it found    *)
(* left by the dead: two workers that read the same dead owner are not     *)
(* told apart, and the slower one moves a live slot away.                  *)
PermitsBounded == ~swept => AlwaysBounded

(* A slot without owner.json whose maker is dead stays for ever.           *)
Lost(i) ==
    /\ slot[i] = OwnedBy(NoOwner)
    /\ ~\E w \in Workers : Live(w) /\ index[w] = i /\ step[w] \in {"write", "rmdir"}

(* Who waits for a permit gets one, whoever is killed while holding one,   *)
(* unless every slot is lost.                                              *)
PermitGranted ==
    \A w \in Workers :
       At(w, "mkdir") ~> (step[w] \in {"holding", "failed"} \/ ~Live(w)
                             \/ \A i \in Slots : Lost(i))
=============================================================================
