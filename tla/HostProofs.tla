----------------------------- MODULE HostProofs -----------------------------
(***************************************************************************)
(* What is proved of the systems of one host, each for every value of its  *)
(* constants:                                                              *)
(*   OneHolder            any number of processes, one holds a campaign    *)
(*   PermitsStayBounded   no more permits than the limit, kills included   *)
(*   CompletedStaysTrue   a run shown as completed has completed           *)
(* Each has an inductive invariant of its own, kept by the steps of its    *)
(* system; the others leave its variables alone (HostStep).                *)
(***************************************************************************)
EXTENDS MCHost, FiniteSetTheorems, TLAPS

LEMMA Assumptions ==
    /\ Lock!LockAssumption /\ Permits!SlotsAssumption
    /\ Server!ServerAssumption /\ Watch!SampleAssumption
  BY HostAssumption DEF HostAssumption

(* A step of the host is a step of one system, which the others do not see.*)
LEMMA HostStep ==
    ASSUME [Next]_host
    PROVE  /\ Lock!Next \/ UNCHANGED lockVars
           /\ Permits!Next \/ UNCHANGED slotVars
           /\ Server!Next \/ UNCHANGED serverVars
           /\ Watch!Next \/ UNCHANGED watchVars
  BY DEF Next, host

-----------------------------------------------------------------------------
(* The campaign lock                                                       *)

Owning(p) == pc[p] \in {"write", "holding", "unlink", "rmdir"}

LockTypes ==
    /\ pc \in [Procs -> {"idle", "mkdir", "write", "examine", "reclaim", "cleanup",
                         "holding", "unlink", "rmdir", "released", "dead"}]
    /\ owner \in Procs \cup {Nobody} /\ stalls \in BOOLEAN /\ judged \subseteq Procs

(* A process inside the critical section finds its own directory.          *)
OwnDirectory ==
    \A p \in Procs :
       /\ Owning(p) => locked
       /\ pc[p] \in {"write", "rmdir"} => owner = Nobody /\ fresh
       /\ pc[p] \in {"holding", "unlink"} => owner = p
       /\ pc[p] # "cleanup"

OneOwning == \A p, q \in Procs : Owning(p) /\ Owning(q) => p = q

(* The directory somebody found stale is still there, and nobody is inside.*)
JudgedIsStale ==
    judged # {} => locked /\ IF owner = Nobody THEN ~fresh ELSE pc[owner] = "dead"

LockInv ==
    LockTypes /\ (~stalls /\ ~snatched => OwnDirectory /\ OneOwning /\ JudgedIsStale)

LEMMA LockInit == ASSUME Lock!Init PROVE LockInv
  BY DEF Lock!Init, LockInv, LockTypes, OwnDirectory, OneOwning, JudgedIsStale, Owning

(* What was moved away wrongly is not undone.                              *)
LEMMA LockTypesKeep ==
    ASSUME LockTypes, Lock!Next PROVE LockTypes' /\ stalls' = stalls /\ (snatched => snatched')
<1> DEFINE Kept == LockTypes' /\ stalls' = stalls /\ (snatched => snatched')
<1> USE DEF LockTypes, Lock!Goto, Lock!Refuse, Lock!Dir, Lock!History, Lock!DirectoryGoes
<1>1. CASE Lock!Age
  BY <1>1 DEF Lock!Age
<1>2. ASSUME NEW p \in Procs, Lock!Go(p) PROVE Kept
  <2>1. CASE Lock!Begin(p) \/ Lock!GiveUp(p) \/ Lock!MakeDirectory(p)
    BY <1>2, <2>1 DEF Lock!Go, Lock!Begin, Lock!GiveUp, Lock!MakeDirectory
  <2>2. CASE Lock!WriteOwner(p) \/ Lock!CleanUp(p) \/ Lock!Examine(p)
    BY <1>2, <2>2 DEF Lock!Go, Lock!WriteOwner, Lock!CleanUp, Lock!Examine
  <2>3. CASE Lock!Reclaim(p)
    BY <1>2, <2>3 DEF Lock!Go, Lock!Reclaim
  <2>4. CASE Lock!CheckNonce(p) \/ Lock!Unlink(p) \/ Lock!RemoveDirectory(p)
    BY <1>2, <2>4 DEF Lock!Go, Lock!CheckNonce, Lock!Unlink, Lock!RemoveDirectory
  <2> QED
    BY <1>2, <2>1, <2>2, <2>3, <2>4 DEF Lock!Go, Lock!Step
<1>3. ASSUME NEW p \in Procs, Lock!Die(p), UNCHANGED stalls PROVE Kept
  BY <1>3 DEF Lock!Die
<1> QED
  BY <1>1, <1>2, <1>3 DEF Lock!Next

LEMMA LockKeeps == ASSUME LockInv, Lock!Next \/ UNCHANGED lockVars PROVE LockInv'
<1>t. LockTypes /\ LockTypes' /\ stalls' = stalls /\ (snatched => snatched')
  BY LockTypesKeep DEF LockInv, lockVars, LockTypes
<1>n. Nobody \notin Procs
  BY Assumptions DEF Lock!LockAssumption
<1> SUFFICES ASSUME ~stalls, ~snatched, ~snatched'
             PROVE  (OwnDirectory /\ OneOwning /\ JudgedIsStale)'
  BY <1>t DEF LockInv
<1>i. OwnDirectory /\ OneOwning /\ JudgedIsStale
  BY DEF LockInv
<1> USE DEF OwnDirectory, OneOwning, JudgedIsStale, Owning, Lock!Goto, Lock!Refuse,
            Lock!Dir, Lock!History, Lock!DirectoryGoes
<1>1. CASE Lock!Age
  (* somebody inside without an owner.json keeps the directory fresh *)
  BY <1>1, <1>i, <1>t DEF Lock!Age, LockTypes
<1>2. ASSUME NEW p \in Procs, Lock!Step(p)
      PROVE  (OwnDirectory /\ OneOwning /\ JudgedIsStale)'
  <2>f. ASSUME NEW s, pc' = [pc EXCEPT ![p] = s]
        PROVE  pc'[p] = s /\ \A q \in Procs : q # p => pc'[q] = pc[q]
    BY <1>t, <2>f DEF LockTypes
  (* a process that is inside goes on there: nobody can have judged it *)
  <2>w. ASSUME NEW s \in {"holding", "unlink", "rmdir"}, Owning(p), UNCHANGED <<locked, judged>>,
               pc' = [pc EXCEPT ![p] = s],
               s = "rmdir" => owner' = Nobody /\ fresh', s # "rmdir" => owner' = p
        PROVE  (OwnDirectory /\ OneOwning /\ JudgedIsStale)'
    <3>1. pc'[p] = s /\ \A q \in Procs : q # p => pc'[q] = pc[q] /\ ~Owning(q)
      BY <2>w, <2>f, <1>i
    <3>2. judged = {}
      BY <2>w, <1>i, <1>n
    <3> QED
      BY <2>w, <3>1, <3>2, <1>i
  (* the directory goes, and nobody else was inside *)
  <2>g. ASSUME NEW s \in {"mkdir", "released"}, pc' = [pc EXCEPT ![p] = s], Lock!DirectoryGoes,
               \A q \in Procs : q # p => ~Owning(q)
        PROVE  (OwnDirectory /\ OneOwning /\ JudgedIsStale)'
    BY <2>g, <2>f, <1>i
  <2>1. CASE Lock!Begin(p)
    BY <2>1, <2>f, <1>i, <1>n, <1>t DEF Lock!Begin, LockTypes
  <2>2. CASE Lock!GiveUp(p)
    BY <2>2, <2>f, <1>i, <1>n, <1>t DEF Lock!GiveUp, LockTypes
  <2>3. CASE Lock!MakeDirectory(p) /\ locked
    BY <2>3, <2>f, <1>i, <1>n, <1>t DEF Lock!MakeDirectory, LockTypes
  <2>4. CASE Lock!MakeDirectory(p) /\ ~locked
    <3>1. pc[p] = "mkdir" /\ pc' = [pc EXCEPT ![p] = "write"] /\ judged' = judged
          /\ locked' = TRUE /\ owner' = Nobody /\ fresh' = TRUE
      BY <2>4 DEF Lock!MakeDirectory
    <3>2. judged = {} /\ \A q \in Procs : ~Owning(q)
      BY <2>4, <1>i
    <3> QED
      BY <3>1, <3>2, <2>f, <1>i
  <2>5. CASE Lock!WriteOwner(p)
    <3>1. pc[p] = "write" /\ locked /\ owner = Nobody
      BY <2>5, <1>i DEF Lock!WriteOwner
    <3>2. pc' = [pc EXCEPT ![p] = "holding"] /\ owner' = p /\ UNCHANGED <<locked, judged>>
      BY <3>1, <2>5 DEF Lock!WriteOwner
    <3> QED
      BY <3>1, <3>2, <2>w
  <2>6. CASE Lock!CleanUp(p)
    BY <2>6, <1>i DEF Lock!CleanUp
  <2>7. CASE Lock!Examine(p)
    <3>1. pc[p] = "examine" /\ UNCHANGED <<locked, owner, fresh>>
      BY <2>7 DEF Lock!Examine
    <3>2. CASE Lock!Active
      <4>1. pc' = [pc EXCEPT ![p] = "idle"] /\ judged' = judged
        BY <2>7, <3>2 DEF Lock!Examine
      <4> QED
        BY <3>1, <4>1, <2>f, <1>i
    <3>3. CASE ~Lock!Active
      <4>1. /\ pc' = [pc EXCEPT ![p] = "reclaim"]
            /\ judged' = IF locked THEN judged \cup {p} ELSE judged
        BY <2>7, <3>3 DEF Lock!Examine
      <4>2. locked => IF owner = Nobody THEN ~fresh ELSE owner # p /\ pc[owner] = "dead"
        BY <3>1, <3>3 DEF Lock!Active, Lock!Alive
      <4>3. locked => IF owner = Nobody THEN ~fresh ELSE pc'[owner] = "dead"
        BY <4>1, <4>2, <1>t DEF LockTypes
      <4>4. JudgedIsStale'
        BY <3>1, <4>1, <4>3, <1>i
      <4> QED
        BY <3>1, <4>1, <4>4, <2>f, <1>i
    <3> QED
      BY <3>2, <3>3
  <2>8. CASE Lock!Reclaim(p)
    <3>1. pc[p] = "reclaim" /\ pc' = [pc EXCEPT ![p] = "mkdir"] /\ Lock!DirectoryGoes
      BY <2>8 DEF Lock!Reclaim
    <3>2. ~locked \/ p \in judged
      BY <2>8 DEF Lock!Reclaim
    <3>3. \A q \in Procs : ~Owning(q)
      BY <3>2, <1>i, <1>n
    <3> QED
      BY <3>1, <3>3, <2>g
  <2>9. CASE Lock!CheckNonce(p)
    <3>1. pc[p] = "holding" /\ pc' = [pc EXCEPT ![p] = "unlink"]
          /\ UNCHANGED <<locked, owner, fresh, judged>>
      BY <2>9, <1>i DEF Lock!CheckNonce
    <3> QED
      BY <3>1, <2>w, <1>i
  <2>10. CASE Lock!Unlink(p)
    <3>1. pc[p] = "unlink" /\ pc' = [pc EXCEPT ![p] = "rmdir"]
          /\ owner' = Nobody /\ fresh' = TRUE /\ UNCHANGED <<locked, judged>>
      BY <2>10, <1>i DEF Lock!Unlink
    <3> QED
      BY <3>1, <2>w
  <2>11. CASE Lock!RemoveDirectory(p)
    <3>1. pc[p] = "rmdir" /\ pc' = [pc EXCEPT ![p] = "released"] /\ Lock!DirectoryGoes
      BY <2>11 DEF Lock!RemoveDirectory
    <3> QED
      BY <3>1, <2>g, <1>i
  <2> QED
    BY <1>2, <2>1, <2>2, <2>3, <2>4, <2>5, <2>6, <2>7, <2>8, <2>9, <2>10, <2>11 DEF Lock!Step
<1>3. ASSUME NEW p \in Procs, Lock!Die(p)
      PROVE  (OwnDirectory /\ OneOwning /\ JudgedIsStale)'
  <2>1. /\ pc'[p] = "dead" /\ \A q \in Procs : q # p => pc'[q] = pc[q]
        /\ UNCHANGED <<locked, owner, fresh, judged>>
    BY <1>3, <1>t DEF Lock!Die, LockTypes
  <2>2. \A q \in Procs \cup {Nobody} : pc[q] = "dead" => pc'[q] = "dead"
    BY <1>3, <1>t, <1>n DEF Lock!Die, LockTypes
  <2> QED
    BY <2>1, <2>2, <1>i, <1>t DEF LockTypes
<1>4. CASE UNCHANGED lockVars
  BY <1>4, <1>i DEF lockVars
<1> QED
  BY <1>1, <1>2, <1>3, <1>4 DEF Lock!Next, Lock!Go

(* The campaign lock keeps any number of processes apart, whichever die,   *)
(* come back and take over from the dead, as long as none of them stalls   *)
(* for a minute and none moves away another directory than the one it      *)
(* found stale, which is how lock_race lets two of them in.                *)
THEOREM OneHolder == FairSpec => []HoldersApart
<1>1. Init => LockInv
  BY LockInit DEF Init
<1>2. LockInv /\ [Next]_host => LockInv'
  BY LockKeeps, HostStep
<1>3. LockInv => HoldersApart
  BY DEF HoldersApart, Lock!HoldersApart, Lock!OneHolding, LockInv, OneOwning, Owning
<1> QED
  BY <1>1, <1>2, <1>3, PTL DEF FairSpec

-----------------------------------------------------------------------------
(* The permits of the solver slots                                         *)

Steps == {"idle", "mkdir", "examine", "reclaim", "write", "holding",
          "unlink", "rmdir", "failed", "done"}
Dirs == [taken : BOOLEAN, owner : Workers \cup {NoOwner}]

SlotTypes ==
    /\ step \in [Workers -> Steps] /\ index \in [Workers -> Permits!Slots]
    /\ slot \in [Permits!Slots -> Dirs] /\ dead \subseteq Processes
    /\ found \subseteq Workers /\ swept \in BOOLEAN

(* Who made a directory, lives and has not removed it.                     *)
Inside(w) == Permits!Live(w) /\ step[w] \in {"write", "holding", "unlink", "rmdir"}

(* The directory of a worker is there and names it, or nobody before it is *)
(* written and after it was unlinked.                                      *)
DirectoryIsMine ==
    \A w \in Workers :
       /\ Inside(w) /\ step[w] \in {"write", "rmdir"} => Permits!Mine(w) = Permits!OwnedBy(NoOwner)
       /\ Inside(w) /\ step[w] \in {"holding", "unlink"} => Permits!Mine(w) = Permits!OwnedBy(w)

OneInside ==
    \A v, w \in Workers : Inside(v) /\ Inside(w) /\ index[v] = index[w] => v = w

(* The directory somebody found left by the dead is still theirs.          *)
FoundIsStale == \A w \in found : Permits!Stale(Permits!Mine(w))

SlotInv == /\ SlotTypes
           /\ ~swept => DirectoryIsMine /\ OneInside /\ FoundIsStale

LEMMA SlotInit == ASSUME Permits!SlotsAssumption, Permits!Init PROVE SlotInv
<1>1. SlotTypes
  <2>1. 1 \in Permits!Slots
    BY DEF Permits!SlotsAssumption, Permits!Slots
  <2>2. Permits!Free \in Dirs
    BY DEF Permits!Free, Dirs
  <2> QED
    BY <2>1, <2>2 DEF Permits!Init, SlotTypes, Steps
<1>2. found = {} /\ \A w \in Workers : ~Inside(w)
  BY DEF Permits!Init, Inside
<1> QED
  BY <1>1, <1>2 DEF SlotInv, DirectoryIsMine, OneInside, FoundIsStale

LEMMA NextSlotType ==
    ASSUME Permits!SlotsAssumption, NEW i \in Permits!Slots PROVE Permits!NextSlot(i) \in Permits!Slots
  BY DEF Permits!SlotsAssumption, Permits!Slots, Permits!NextSlot

LEMMA OwnedType ==
    ASSUME NEW w \in Workers \cup {NoOwner} PROVE Permits!OwnedBy(w) \in Dirs /\ Permits!Free \in Dirs
  BY DEF Permits!OwnedBy, Permits!Free, Dirs

LEMMA SlotTypesKeep ==
    ASSUME Permits!SlotsAssumption, SlotTypes, [Permits!Next]_slotVars
    PROVE  SlotTypes' /\ (swept => swept')
<1> USE DEF SlotTypes, Permits!Goto, Permits!Stay, Permits!SetMine, Permits!Mine, Permits!TryNext, Steps,
            Permits!History, Permits!MineGoes
<1> DEFINE Kept == SlotTypes' /\ (swept => swept')
<1>1. ASSUME NEW w \in Workers, Permits!Want(w) \/ Permits!Proceed(w) PROVE Kept
  <2>1. CASE Permits!Want(w)
    BY <2>1 DEF Permits!Want
  <2>2. CASE Permits!MakeSlot(w)
    BY <2>2, OwnedType DEF Permits!MakeSlot
  <2>3. CASE Permits!WriteOwner(w)
    BY <2>3, OwnedType DEF Permits!WriteOwner
  <2>4. CASE Permits!WriteRefused(w)
    BY <2>4, OwnedType DEF Permits!WriteRefused
  <2>5. CASE Permits!ReadOwner(w)
    BY <2>5, NextSlotType DEF Permits!ReadOwner
  <2>6. CASE Permits!Reclaim(w)
    BY <2>6, NextSlotType, OwnedType DEF Permits!Reclaim
  <2>7. CASE Permits!CheckOwner(w)
    BY <2>7 DEF Permits!CheckOwner
  <2>8. CASE Permits!UnlinkOwner(w)
    BY <2>8, OwnedType DEF Permits!UnlinkOwner
  <2>9. CASE Permits!RemoveSlot(w)
    BY <2>9, OwnedType DEF Permits!RemoveSlot
  <2> QED
    BY <1>1, <2>1, <2>2, <2>3, <2>4, <2>5, <2>6, <2>7, <2>8, <2>9 DEF Permits!Proceed
<1>2. ASSUME NEW p \in Processes, Permits!Kill(p) PROVE Kept
  BY <1>2 DEF Permits!Kill
<1>3. CASE UNCHANGED slotVars
  BY <1>3 DEF slotVars
<1> QED
  BY <1>1, <1>2, <1>3 DEF Permits!Next

LEMMA SlotKeeps == ASSUME Permits!SlotsAssumption, SlotInv, [Permits!Next]_slotVars PROVE SlotInv'
<1>t. SlotTypes /\ SlotTypes' /\ (swept => swept')
  BY SlotTypesKeep DEF SlotInv
<1> SUFFICES ASSUME ~swept, ~swept'
             PROVE  (DirectoryIsMine /\ OneInside /\ FoundIsStale)'
  BY <1>t DEF SlotInv
<1>i. DirectoryIsMine /\ OneInside /\ FoundIsStale
  BY DEF SlotInv
<1>o. /\ Permits!Free.taken = FALSE /\ NoOwner \notin Workers
      /\ \A v : Permits!OwnedBy(v).taken = TRUE /\ Permits!OwnedBy(v).owner = v
  BY DEF Permits!Free, Permits!OwnedBy, Permits!SlotsAssumption
<1> USE DEF DirectoryIsMine, OneInside, FoundIsStale, Inside, Permits!Mine, Permits!Goto, Permits!Stay,
            Permits!At, Permits!Stale, Permits!Live, Permits!History
<1>1. ASSUME NEW w \in Workers, Permits!Want(w) \/ Permits!Proceed(w)
      PROVE  (DirectoryIsMine /\ OneInside /\ FoundIsStale)'
  <2>d. dead' = dead
    BY <1>1 DEF Permits!Want, Permits!Proceed, Permits!MakeSlot, Permits!WriteOwner, Permits!WriteRefused,
                Permits!ReadOwner, Permits!Reclaim, Permits!CheckOwner, Permits!UnlinkOwner, Permits!RemoveSlot
  <2>f. ASSUME NEW s, step' = [step EXCEPT ![w] = s]
        PROVE  step'[w] = s /\ \A v \in Workers : v # w => step'[v] = step[v]
    BY <2>f, <1>t DEF SlotTypes
  <2>m. ASSUME NEW d, Permits!SetMine(w, d)
        PROVE  /\ slot'[index[w]] = d
               /\ \A v \in Workers : index[v] # index[w] => slot'[index[v]] = slot[index[v]]
    BY <2>m, <1>t DEF SlotTypes, Permits!SetMine
  <2>x. ASSUME Permits!TryNext(w)
        PROVE  /\ step'[w] = "mkdir" /\ index' = [index EXCEPT ![w] = index'[w]]
               /\ \A v \in Workers : v # w => step'[v] = step[v] /\ index'[v] = index[v]
    BY <2>x, <1>t DEF SlotTypes, Permits!TryNext
  <2>1. CASE Permits!Want(w)
    BY <2>1, <2>d, <2>f, <1>i DEF Permits!Want
  <2>2. CASE Permits!MakeSlot(w)
    <3>1. CASE Permits!Mine(w).taken
      <4>1. step' = [step EXCEPT ![w] = "examine"] /\ UNCHANGED <<slot, index, found>>
        BY <2>2, <3>1 DEF Permits!MakeSlot
      <4> QED
        BY <4>1, <2>d, <2>f, <1>i
    <3>2. CASE ~Permits!Mine(w).taken
      <4>1. /\ step' = [step EXCEPT ![w] = "write"] /\ UNCHANGED <<index, found>>
            /\ Permits!SetMine(w, Permits!OwnedBy(NoOwner))
        BY <2>2, <3>2 DEF Permits!MakeSlot
      <4>2. /\ \A v \in Workers : Inside(v) => index[v] # index[w]
            /\ \A v \in found : index[v] # index[w]
        BY <3>2, <1>i, <1>o
      <4> QED
        BY <4>1, <4>2, <2>d, <2>f, <2>m, <1>i, <1>t DEF SlotTypes
    <3> QED
      BY <3>1, <3>2
  <2>3. CASE Permits!WriteOwner(w)
    <3>1. /\ step' = [step EXCEPT ![w] = "holding"] /\ UNCHANGED <<index, found>>
          /\ Permits!SetMine(w, Permits!OwnedBy(w)) /\ Inside(w)
          /\ Permits!Mine(w) = Permits!OwnedBy(NoOwner)
      BY <2>3 DEF Permits!WriteOwner
    <3>2. /\ \A v \in Workers : v # w /\ Inside(v) => index[v] # index[w]
          /\ \A v \in found : index[v] # index[w]
      BY <3>1, <1>i, <1>o
    <3> QED
      BY <3>1, <3>2, <2>d, <2>f, <2>m, <1>i, <1>t DEF SlotTypes
  <2>4. CASE Permits!WriteRefused(w)
    BY <2>4, <1>i DEF Permits!WriteRefused
  <2>5. CASE Permits!ReadOwner(w)
    <3>1. CASE Permits!Stale(Permits!Mine(w))
      <4>1. /\ step' = [step EXCEPT ![w] = "reclaim"] /\ UNCHANGED <<slot, index>>
            /\ found' = found \cup {w}
        BY <2>5, <3>1 DEF Permits!ReadOwner
      <4> QED
        BY <4>1, <3>1, <2>d, <2>f, <1>i
    <3>2. CASE ~Permits!Stale(Permits!Mine(w))
      <4>1. Permits!TryNext(w) /\ UNCHANGED <<slot, found>> /\ step[w] = "examine"
        BY <2>5, <3>2 DEF Permits!ReadOwner
      <4>2. w \notin found
        BY <3>2, <1>i
      <4> QED
        BY <4>1, <4>2, <2>d, <2>x, <1>i, <1>t DEF SlotTypes
    <3> QED
      BY <3>1, <3>2
  <2>6. CASE Permits!Reclaim(w)
    <3>1. /\ Permits!SetMine(w, Permits!Free) /\ Permits!TryNext(w)
          /\ found' = {v \in found : index[v] # index[w]}
          /\ ~Permits!Mine(w).taken \/ w \in found
      BY <2>6 DEF Permits!Reclaim, Permits!MineGoes
    <3>2. \A v \in Workers : Inside(v) => index[v] # index[w]
      BY <3>1, <1>i, <1>o
    <3>3. \A v \in found' : v # w /\ v \in Workers
      BY <3>1, <1>t DEF SlotTypes
    <3> QED
      BY <3>1, <3>2, <3>3, <2>d, <2>m, <2>x, <1>i
  <2>7. CASE Permits!CheckOwner(w)
    <3>1. step[w] = "holding" /\ Inside(w) /\ Permits!Mine(w) = Permits!OwnedBy(w)
      BY <2>7, <1>i DEF Permits!CheckOwner
    <3>2. step' = [step EXCEPT ![w] = "unlink"] /\ UNCHANGED <<slot, index, found>>
      BY <2>7, <3>1 DEF Permits!CheckOwner
    <3> QED
      BY <3>1, <3>2, <2>d, <2>f, <1>i
  <2>8. CASE Permits!UnlinkOwner(w)
    <3>1. step[w] = "unlink" /\ Inside(w) /\ Permits!Mine(w) = Permits!OwnedBy(w)
      BY <2>8, <1>i DEF Permits!UnlinkOwner
    <3>2. /\ step' = [step EXCEPT ![w] = "rmdir"] /\ UNCHANGED <<index, found>>
          /\ Permits!SetMine(w, Permits!OwnedBy(NoOwner))
      BY <2>8, <3>1, <1>o DEF Permits!UnlinkOwner
    <3>3. /\ \A v \in Workers : v # w /\ Inside(v) => index[v] # index[w]
          /\ \A v \in found : index[v] # index[w]
      BY <3>1, <1>i, <1>o
    <3> QED
      BY <3>1, <3>2, <3>3, <2>d, <2>f, <2>m, <1>i, <1>t DEF SlotTypes
  <2>9. CASE Permits!RemoveSlot(w)
    <3>1. step[w] = "rmdir" /\ Inside(w) /\ Permits!Mine(w) = Permits!OwnedBy(NoOwner)
      BY <2>9, <1>i DEF Permits!RemoveSlot
    <3>2. /\ step' = [step EXCEPT ![w] = "done"] /\ index' = index
          /\ Permits!SetMine(w, Permits!Free) /\ found' \subseteq found
      BY <2>9, <3>1 DEF Permits!RemoveSlot, Permits!MineGoes
    <3>3. /\ \A v \in Workers : v # w /\ Inside(v) => index[v] # index[w]
          /\ \A v \in found : index[v] # index[w]
      BY <3>1, <1>i, <1>o
    <3> QED
      BY <3>1, <3>2, <3>3, <2>d, <2>f, <2>m, <1>i, <1>t DEF SlotTypes
  <2> QED
    BY <1>1, <2>1, <2>2, <2>3, <2>4, <2>5, <2>6, <2>7, <2>8, <2>9 DEF Permits!Proceed
<1>2. ASSUME NEW p \in Processes, Permits!Kill(p)
      PROVE  (DirectoryIsMine /\ OneInside /\ FoundIsStale)'
  BY <1>2, <1>i DEF Permits!Kill
<1>3. CASE UNCHANGED slotVars
  BY <1>3, <1>i DEF slotVars
<1> QED
  BY <1>1, <1>2, <1>3 DEF Permits!Next

(* Holders stand in different slots, so there are no more of them.         *)
LEMMA HoldersFit == ASSUME Permits!SlotsAssumption, SlotInv PROVE Permits!PermitsBounded
<1> SUFFICES ASSUME ~swept PROVE Permits!AlwaysBounded
  BY DEF Permits!PermitsBounded
<1> DEFINE holders == {w \in Workers : Permits!At(w, "holding")}
           f == [w \in holders |-> index[w]]
<1>1. f \in Injection(holders, Permits!Slots)
  BY DEF SlotInv, SlotTypes, OneInside, Inside, Permits!At, Injection, IsInjective
<1>2. IsFiniteSet(Permits!Slots) /\ Cardinality(Permits!Slots) = Limit
  BY FS_Interval DEF Permits!SlotsAssumption, Permits!Slots
<1>3. Cardinality(holders) <= Limit
  BY <1>1, <1>2, FS_Injection
<1> QED
  BY <1>3 DEF Permits!AlwaysBounded, Permits!Cardinality, Cardinality

(* No more operations run at once than the limit says, for any number of   *)
(* slots, workers and processes, whichever are killed and whoever takes    *)
(* over their slots, as long as nobody moves away another directory than   *)
(* the one it found left by the dead.                                      *)
THEOREM PermitsStayBounded == FairSpec => []PermitsBounded
<1>1. Init => SlotInv
  BY SlotInit, Assumptions DEF Init
<1>2. SlotInv /\ [Next]_host => SlotInv'
  BY SlotKeeps, HostStep, Assumptions
<1>3. SlotInv => PermitsBounded
  BY HoldersFit, Assumptions DEF PermitsBounded
<1> QED
  BY <1>1, <1>2, <1>3, PTL DEF FairSpec

-----------------------------------------------------------------------------
(* The server and its CLI process                                          *)

(* Who has read or is about to save "completed" has it from the state file,*)
(* which stays completed: the process that completed it gave up the lock.  *)
ServerInv ==
    /\ kid \in [Kids -> {"new", "alive", "ok", "failed", "gone"}]
    /\ lock \in Kids \cup {NoKid}
    /\ handler \in [Kids -> {"off", "wait", "drop", "cancelled"} \cup Server!Terminal]
    /\ reader \in [Readers -> {Server!Free, "running", "none"} \cup Server!Terminal]
    /\ core \in {"none", "running"} \cup Server!Terminal
    /\ core = "completed" => lock = NoKid
    /\ status = "completed" => core = "completed"
    /\ \A k \in Kids : handler[k] = "completed" => core = "completed"
    /\ \A r \in Readers : reader[r] = "completed" => core = "completed"

LEMMA ServerInit == ASSUME Server!Init PROVE ServerInv
  BY DEF Server!Init, ServerInv, Server!Free, Server!Terminal

LEMMA ServerKeeps ==
    ASSUME ServerInv, Server!Next \/ UNCHANGED serverVars PROVE ServerInv'
<1> USE DEF ServerInv, Server!Terminal, Server!Free, Server!core_
<1>n. NoKid \notin Kids
  BY Assumptions DEF Server!ServerAssumption
<1>1. CASE Server!Create \/ Server!CancelRead \/ Server!ResumeRead \/ Server!Up
  BY <1>1 DEF Server!Create, Server!CancelRead, Server!ResumeRead, Server!Up
<1>2. CASE Server!Spawn
  BY <1>2 DEF Server!Spawn
<1>3. CASE Server!Ready \/ Server!CancelSave \/ Server!ResumeSave
  BY <1>3 DEF Server!Ready, Server!CancelSave, Server!ResumeSave
<1>4. CASE Server!Down
  BY <1>4 DEF Server!Down
<1>5. ASSUME NEW k \in Kids, Server!KidWorks(k) PROVE ServerInv'
  BY <1>5 DEF Server!KidWorks
<1>6. ASSUME NEW k \in Kids, Server!KidEnds(k) PROVE ServerInv'
  <2>1. /\ UNCHANGED <<status, handler, reader>> /\ lock' \in Kids \cup {NoKid}
        /\ kid' \in [Kids -> {"new", "alive", "ok", "failed", "gone"}]
    BY <1>6 DEF Server!KidEnds
  <2>2. \/ lock = k /\ lock' = NoKid /\ core' \in Server!Terminal
        \/ lock' = (IF lock = k THEN NoKid ELSE lock) /\ core' = core
    BY <1>6 DEF Server!KidEnds
  <2>3. core = "completed" => core' = "completed"
    BY <2>2, <1>n
  <2> QED
    BY <2>1, <2>2, <2>3
<1>7. ASSUME NEW k \in Kids, Server!Close(k) PROVE ServerInv'
  <2>1. CASE Server!Closed(k)
    <3>1. /\ handler' = [handler EXCEPT ![k] = Server!TerminalFromCore(k)]
          /\ UNCHANGED <<status, kid, lock, core, reader>>
      BY <2>1 DEF Server!Closed
    <3>2. /\ Server!TerminalFromCore(k) \in {"cancelled", "failed"} \cup Server!Terminal
          /\ Server!TerminalFromCore(k) = "completed" => core = "completed"
      BY DEF Server!TerminalFromCore
    <3> QED
      BY <3>1, <3>2
  <2>2. CASE Server!CloseSaved(k)
    BY <2>2 DEF Server!CloseSaved
  <2>3. CASE Server!CloseDropped(k)
    BY <2>3 DEF Server!CloseDropped
  <2> QED
    BY <1>7, <2>1, <2>2, <2>3 DEF Server!Close
<1>8. ASSUME NEW r \in Readers, Server!Refresh(r) PROVE ServerInv'
  <2>1. CASE Server!RefreshRead(r)
    <3>1. /\ reader' = [reader EXCEPT ![r] = Server!Mapped]
          /\ UNCHANGED <<status, kid, lock, core, handler>>
      BY <2>1 DEF Server!RefreshRead
    <3>2. Server!Mapped \in Server!Terminal
          /\ (Server!Mapped = "completed" => core = "completed")
      BY DEF Server!Mapped
    <3> QED
      BY <3>1, <3>2
  <2>2. CASE Server!RefreshSave(r)
    BY <2>2 DEF Server!RefreshSave
  <2> QED
    BY <1>8, <2>1, <2>2 DEF Server!Refresh
<1>9. CASE UNCHANGED serverVars
  BY <1>9 DEF serverVars
<1> QED
  BY <1>1, <1>2, <1>3, <1>4, <1>5, <1>6, <1>7, <1>8, <1>9 DEF Server!Next, Server!Serve

(* However many reads, cancels, resumes and restarts of the server cross   *)
(* the exits of its processes, a run is never shown as completed that has  *)
(* not completed.                                                          *)
THEOREM CompletedStaysTrue == FairSpec => []CompletedIsTrue
<1>1. Init => ServerInv
  BY ServerInit DEF Init
<1>2. ServerInv /\ [Next]_host => ServerInv'
  BY ServerKeeps, HostStep
<1>3. ServerInv => CompletedIsTrue
  BY DEF ServerInv, CompletedIsTrue, Server!CompletedIsTrue
<1> QED
  BY <1>1, <1>2, <1>3, PTL DEF FairSpec
=============================================================================
