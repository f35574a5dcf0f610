------------------------- MODULE DatasetPreparation -------------------------
(***************************************************************************)
(* preparePutnamBenchDataset (controller/src/putnambench-runner.mjs): all  *)
(* campaigns of a machine share one checkout.  Under a lease of the file   *)
(* system the first rewrites the solutions in a stage of its own, proves   *)
(* them, publishes them with a marker and freezes them; the others find    *)
(* the marker and prove the content again.  The lease is a directory with  *)
(* an owner.json, taken and given up one system call at a time; the work   *)
(* under it never looks at it again.                                       *)
(***************************************************************************)
EXTENDS Naturals

CONSTANTS Preparers,  \* calls of it, each by a process of its own
          Nobody      \* no owner.json

PreparationAssumption == Nobody \notin Preparers

VARIABLES at,      \* where each preparer is
          told,    \* what its call comes to
          lease,   \* the lock directory
          out,     \* solutions_replaced_new: content, marker, frozen
          stage,   \* who has a proved stage
          backup,  \* what each has moved out of the way
          stalls,  \* a preparer may stall a minute between two system calls
          judged,  \* who found the lease directory that is there now stale
          seized   \* somebody has moved away another one than that

work == <<out, stage, backup>>
History == <<judged, seized>>
prepVars == <<at, told, lease, work, stalls, History>>

Solutions(c) == [content |-> c, marker |-> FALSE, frozen |-> FALSE]
Absent == Solutions("none")
Official == [content |-> "official", marker |-> TRUE, frozen |-> FALSE]
Whole == [content |-> "official", marker |-> TRUE, frozen |-> TRUE]
NoLease == [taken |-> FALSE, owner |-> Nobody, fresh |-> FALSE]
LeaseOf(q) == [taken |-> TRUE, owner |-> q, fresh |-> TRUE]

(* A deployment from before the marker may have left official or partial   *)
(* solutions.                                                              *)
Init ==
    /\ at = [p \in Preparers |-> "idle"] /\ told = [p \in Preparers |-> "none"]
    /\ lease = NoLease /\ stage = {} /\ backup = [p \in Preparers |-> Absent]
    /\ \E c \in {"none", "official", "partial"} : out = Solutions(c)
    /\ stalls \in BOOLEAN /\ judged = {} /\ seized = FALSE

Goto(p, s) == at' = [at EXCEPT ![p] = s]
Tell(p, t) == told' = [told EXCEPT ![p] = t]
LeaseGoes == lease' = NoLease /\ judged' = {}

-----------------------------------------------------------------------------
(* The lease                                                               *)

MakeLease(p) ==
    /\ at[p] = "idle"
    /\ IF lease.taken THEN Goto(p, "examine") /\ UNCHANGED lease
       ELSE Goto(p, "write") /\ lease' = LeaseOf(Nobody)
    /\ UNCHANGED <<told, work, History>>

(* writeFile(..., "wx"): it may meet another directory, or none; what is   *)
(* there then is removed.                                                  *)
WriteOwner(p) ==
    /\ at[p] = "write" /\ UNCHANGED <<work, seized>>
    /\ \/ /\ lease.taken /\ lease.owner = Nobody
          /\ lease' = LeaseOf(p) /\ Goto(p, "clean") /\ UNCHANGED <<told, judged>>
       \/ /\ ~(lease.taken /\ lease.owner = Nobody)
          /\ LeaseGoes /\ Goto(p, "end") /\ Tell(p, "failed")

Active == IF lease.owner = Nobody THEN lease.fresh ELSE at[lease.owner] # "dead"

(* Who finds it in use polls again, until its time is up or it is aborted. *)
Examine(p) ==
    /\ at[p] = "examine" /\ UNCHANGED <<lease, work, seized>>
    /\ \/ (lease.taken => Active) /\ Goto(p, "idle") /\ UNCHANGED <<told, judged>>
       \/ lease.taken /\ Active /\ Goto(p, "end") /\ Tell(p, "failed") /\ UNCHANGED judged
       \/ /\ lease.taken /\ ~Active /\ Goto(p, "reclaim")
          /\ judged' = judged \cup {p} /\ UNCHANGED told

(* rename(2) moves away whatever has the name by now.                      *)
Reclaim(p) ==
    /\ at[p] = "reclaim" /\ LeaseGoes /\ Goto(p, "idle")
    /\ seized' = (seized \/ (lease.taken /\ p \notin judged))
    /\ UNCHANGED <<told, work>>

(* Release: check the nonce, then rm -r, owner.json first.                 *)
CheckNonce(p) ==
    /\ at[p] = "release" /\ UNCHANGED <<lease, work, History>>
    /\ IF lease.owner = p THEN Goto(p, "unlink") /\ UNCHANGED told
       ELSE Goto(p, "end") /\ Tell(p, "failed")

Unlink(p) ==
    /\ at[p] = "unlink" /\ Goto(p, "rmdir")
    /\ lease' = IF lease.taken THEN LeaseOf(Nobody) ELSE lease
    /\ UNCHANGED <<told, work, History>>

RemoveLease(p) ==
    /\ at[p] = "rmdir" /\ LeaseGoes /\ Goto(p, "end")
    /\ UNCHANGED <<told, work, seized>>

(* A minute passes.  Without stalls no live preparer is between two system *)
(* calls that long.                                                        *)
Age ==
    /\ lease.taken /\ lease.fresh
    /\ ~stalls => \A p \in Preparers : at[p] \notin {"write", "reclaim", "rmdir"}
    /\ lease' = [lease EXCEPT !.fresh = FALSE]
    /\ UNCHANGED <<at, told, work, History>>

-----------------------------------------------------------------------------
(* The work                                                                *)

Working == {"clean", "look", "stage", "compare", "adopt", "backup", "publish", "freeze"}

(* finally: the own stage is removed and the lease given up.               *)
Ends(p, t) == Goto(p, "release") /\ Tell(p, t) /\ stage' = stage \ {p}

On(p, s, next) == at[p] = s /\ Goto(p, next) /\ UNCHANGED <<told, lease, History>>

(* Stages and backups of preparers that died; the names do not say whose.  *)
Clean(p) ==
    /\ On(p, "clean", "look")
    /\ stage' = {} /\ backup' = [q \in Preparers |-> Absent] /\ UNCHANGED out

Look(p) ==
    /\ out.marker => out.content = "official"
    /\ On(p, "look", IF out.marker THEN "freeze" ELSE "stage") /\ UNCHANGED work

(* Rewrite the solutions, prove the result, write its marker.              *)
Stage(p) ==
    /\ On(p, "stage", "compare") /\ stage' = stage \cup {p} /\ UNCHANGED <<out, backup>>

(* What is there already is adopted only if it has the same bytes.         *)
Compare(p) ==
    /\ On(p, "compare", CASE out.content = "none" -> "publish"
                          [] out.content = "official" -> "adopt"
                          [] OTHER -> "backup")
    /\ UNCHANGED work

Adopt(p) ==
    /\ out.content # "none" /\ On(p, "adopt", "freeze")
    /\ out' = [out EXCEPT !.marker = TRUE] /\ UNCHANGED <<stage, backup>>

Backup(p) ==
    /\ out.content # "none" /\ On(p, "backup", "publish")
    /\ backup' = [backup EXCEPT ![p] = out] /\ out' = Absent /\ UNCHANGED stage

Publish(p) ==
    /\ p \in stage /\ out.content = "none" /\ On(p, "publish", "freeze")
    /\ out' = Official /\ stage' = stage \ {p}
    /\ backup' = [backup EXCEPT ![p] = Absent]

(* If the stage cannot be moved there, the backup is moved back.           *)
Restore(p) ==
    /\ at[p] = "publish" /\ Ends(p, "failed")
    /\ IF out.content = "none"
       THEN out' = backup[p] /\ backup' = [backup EXCEPT ![p] = Absent]
       ELSE UNCHANGED <<out, backup>>
    /\ UNCHANGED <<lease, History>>

(* Every file of the official set and the marker, then the directory.      *)
Freeze(p) ==
    /\ at[p] = "freeze" /\ out.content = "official" /\ out.marker
    /\ out' = [out EXCEPT !.frozen = TRUE] /\ Ends(p, "ready")
    /\ UNCHANGED <<backup, lease, History>>

(* A check, a copy, the rewriting or a rename fails.                       *)
Fail(p) ==
    /\ at[p] \in Working \ {"publish"} /\ Ends(p, "failed")
    /\ UNCHANGED <<out, backup, lease, History>>

Kill(p) ==
    /\ at[p] \notin {"idle", "end", "dead"} /\ Goto(p, "dead")
    /\ UNCHANGED <<told, lease, work, History>>

Step(p) ==
    \/ MakeLease(p) \/ WriteOwner(p) \/ Examine(p) \/ Reclaim(p)
    \/ CheckNonce(p) \/ Unlink(p) \/ RemoveLease(p)
    \/ Clean(p) \/ Look(p) \/ Stage(p) \/ Compare(p) \/ Adopt(p) \/ Backup(p)
    \/ Publish(p) \/ Restore(p) \/ Freeze(p) \/ Fail(p)

Next == (Age \/ \E p \in Preparers : Step(p) \/ Kill(p)) /\ UNCHANGED stalls
Spec == Init /\ [][Next]_prepVars

-----------------------------------------------------------------------------
Ready(p) == at[p] = "end" /\ told[p] = "ready"

(* Whoever was told that the dataset is ready evaluates official, proved   *)
(* and frozen solutions.                                                   *)
ReadyStaysWhole == (\E p \in Preparers : Ready(p)) => out = Whole

(* ... whatever other preparers do, die of and take over meanwhile, as     *)
(* long as none of them stalls and none moves away another lease than the  *)
(* one it found stale: the rename of a lease is not tied to the owner read *)
(* before, and with two preparers at work a ready output can be moved to a *)
(* backup.                                                                 *)
ReadyIsFrozen == ~stalls /\ ~seized => ReadyStaysWhole
=============================================================================
