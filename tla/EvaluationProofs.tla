-------------------------- MODULE EvaluationProofs --------------------------
(***************************************************************************)
(* What is proved of the measuring of candidates, each for every value of  *)
(* its constants:                                                          *)
(*   PreparedStaysWhole   dataset and runtimes are used whole and as named *)
(*   SamplesStayBounded   a strict final samples a task within its budget  *)
(*   SummariesAreComplete a summary has the score of every task            *)
(*   VerdictsStayEarned   verdicts and promotions are the candidate's own  *)
(*   CompleteStaysMeasured a complete session measured what it names       *)
(*   FinalStaysSound      a final is unsealed once and recorded as measured*)
(*   CommittedIsNeverLost what was committed stays                         *)
(* Each has an inductive invariant of its own, kept by the steps of its    *)
(* system; the others leave its variables alone (EvaluationStep).          *)
(***************************************************************************)
EXTENDS MCEvaluation, FiniteSetTheorems, WellFoundedInduction, TLAPS

LEMMA Assumptions ==
    /\ Dataset!PreparationAssumption /\ Cache!CacheAssumption /\ Trials!TrialAssumption
    /\ Partition!PartitionAssumption /\ Hle!TaskAssumption /\ Decision!DecisionAssumption
    /\ Session!SessionAssumption /\ Final!FinalAssumption /\ Generic!GenericAssumption
  BY EvaluationAssumption DEF EvaluationAssumption

(* A step is one of a single system, which the others do not see.          *)
LEMMA EvaluationStep ==
    ASSUME [Next]_evaluation
    PROVE  /\ Dataset!Next \/ UNCHANGED prepVars
           /\ Cache!Next \/ UNCHANGED cacheVars
           /\ Trials!Next \/ UNCHANGED trialVars
           /\ Partition!Next \/ UNCHANGED partitionVars
           /\ Hle!Next \/ UNCHANGED taskVars
           /\ Decision!Next \/ UNCHANGED decisionVars
           /\ Session!Next \/ UNCHANGED sessionVars
           /\ Final!Next \/ UNCHANGED finalVars
           /\ Generic!Next \/ UNCHANGED runVars
  BY DEF Next, evaluation

(* A set of natural numbers that is not empty has a least one.             *)
LEMMA LeastNumber ==
    ASSUME NEW S \in SUBSET Nat, S # {}
    PROVE  \E k \in S : \A j \in S : ~(j < k)
<1> DEFINE Order == OpToRel(<, Nat)
<1>1. IsWellFoundedOn(Order, Nat)
  BY NatLessThanWellFounded
<1>2. PICK k \in S : \A j \in S : ~(<<j, k>> \in Order)
  <2> HIDE DEF Order
  <2> QED
    BY <1>1, WFMin
<1>3. \A j \in S : j < k => <<j, k>> \in Order
  BY DEF OpToRel
<1> QED
  BY <1>2, <1>3


-----------------------------------------------------------------------------
(* The dataset of a machine                                                *)

Inside(p) == prepAt[p] \in Dataset!Working \cup {"write", "release", "unlink", "rmdir"}
Outputs == [content : {"none", "official", "partial"}, marker : BOOLEAN, frozen : BOOLEAN]

PrepTypes ==
    /\ prepAt \in [Preparers -> Dataset!Working \cup {"idle", "examine", "reclaim", "write", "release",
                                                      "unlink", "rmdir", "end", "dead"}]
    /\ told \in [Preparers -> {"none", "ready", "failed"}]
    /\ lease \in [taken : BOOLEAN, owner : Preparers \cup {Nobody}, fresh : BOOLEAN]
    /\ out \in Outputs /\ backup \in [Preparers -> Outputs]
    /\ stalls \in BOOLEAN /\ judged \subseteq Preparers

(* Who works finds its own lease, which nobody can have found stale.       *)
OwnLease ==
    \A p \in Preparers :
       /\ Inside(p) => lease.taken
       /\ prepAt[p] \in {"write", "rmdir"} => lease.owner = Nobody /\ lease.fresh
       /\ prepAt[p] \in Dataset!Working \cup {"release", "unlink"} => lease.owner = p
OneInside == \A p, q \in Preparers : Inside(p) /\ Inside(q) => p = q
JudgedIsStale ==
    judged # {} => /\ lease.taken
                   /\ IF lease.owner = Nobody THEN ~lease.fresh ELSE prepAt[lease.owner] = "dead"
LeaseHeld == OwnLease /\ OneInside /\ JudgedIsStale

(* So only one preparer touches the files; once one has succeeded, the     *)
(* others leave them as they are.                                          *)
SolutionsProved ==
    \A p \in Preparers :
       /\ prepAt[p] = "adopt" => out.content = "official"
       /\ prepAt[p] = "freeze" => out.content = "official" /\ out.marker
Changing == {"stage", "compare", "adopt", "backup", "publish"}
ReadyKept ==
    (\E p \in Preparers : told[p] = "ready") =>
        out = Dataset!Whole /\ \A p \in Preparers : prepAt[p] \notin Changing
FilesKept == SolutionsProved /\ ReadyKept

PrepInv == PrepTypes /\ (~stalls /\ ~seized => LeaseHeld /\ FilesKept)

LEMMA PrepInit == ASSUME Dataset!Init PROVE PrepInv
<1>1. \A c \in {"none", "official", "partial"} : Dataset!Solutions(c) \in Outputs
  BY DEF Dataset!Solutions, Outputs
<1>2. PrepTypes
  BY <1>1 DEF Dataset!Init, Dataset!Absent, Dataset!NoLease, PrepTypes
<1>3. \A p \in Preparers : prepAt[p] = "idle" /\ told[p] = "none"
  BY DEF Dataset!Init
<1>4. LeaseHeld
  BY <1>3 DEF Dataset!Init, LeaseHeld, OwnLease, OneInside, JudgedIsStale, Inside, Dataset!Working
<1>5. FilesKept
  BY <1>3 DEF FilesKept, SolutionsProved, ReadyKept
<1> QED
  BY <1>2, <1>4, <1>5 DEF PrepInv

(* What the work under the lease leaves alone.                             *)
Prepares(p) == \/ Dataset!Clean(p) \/ Dataset!Look(p) \/ Dataset!Stage(p) \/ Dataset!Compare(p)
            \/ Dataset!Adopt(p) \/ Dataset!Backup(p) \/ Dataset!Publish(p) \/ Dataset!Restore(p)
            \/ Dataset!Freeze(p) \/ Dataset!Fail(p)

LEMMA WorkIsInside ==
    ASSUME NEW p \in Preparers, Prepares(p)
    PROVE  /\ prepAt[p] \in Dataset!Working /\ UNCHANGED <<lease, judged, seized>>
           /\ \E s \in Dataset!Working \cup {"release"} : prepAt' = [prepAt EXCEPT ![p] = s]
<1> USE DEF Dataset!Working, Dataset!On, Dataset!Goto, Dataset!History, Dataset!Ends
<1>1. CASE Dataset!Clean(p) \/ Dataset!Look(p) \/ Dataset!Stage(p)
  BY <1>1 DEF Dataset!Clean, Dataset!Look, Dataset!Stage
<1>2. CASE Dataset!Compare(p)
  BY <1>2 DEF Dataset!Compare
<1>3. CASE Dataset!Adopt(p) \/ Dataset!Backup(p) \/ Dataset!Publish(p)
  BY <1>3 DEF Dataset!Adopt, Dataset!Backup, Dataset!Publish
<1>4. CASE Dataset!Restore(p)
  BY <1>4 DEF Dataset!Restore
<1>5. CASE Dataset!Freeze(p) \/ Dataset!Fail(p)
  BY <1>5 DEF Dataset!Freeze, Dataset!Fail
<1> QED
  BY <1>1, <1>2, <1>3, <1>4, <1>5 DEF Prepares

LEMMA PrepTypesKeep ==
    ASSUME PrepTypes, Dataset!Next
    PROVE  PrepTypes' /\ stalls' = stalls /\ (seized => seized')
<1> DEFINE Kept == PrepTypes' /\ (seized => seized')
<1> SUFFICES Kept
  BY DEF Dataset!Next
<1> USE DEF PrepTypes, Dataset!Working, Dataset!Goto, Dataset!Tell, Dataset!LeaseGoes,
            Dataset!History, Dataset!work, Dataset!On, Dataset!Ends
<1>s. stalls' = stalls
  BY DEF Dataset!Next
<1>o. Dataset!Absent \in Outputs /\ Dataset!Official \in Outputs
  BY DEF Dataset!Absent, Dataset!Solutions, Dataset!Official, Outputs
<1>l. Dataset!NoLease \in [taken : BOOLEAN, owner : Preparers \cup {Nobody}, fresh : BOOLEAN]
  BY DEF Dataset!NoLease
<1>m. \A q \in Preparers \cup {Nobody} :
        Dataset!LeaseOf(q) \in [taken : BOOLEAN, owner : Preparers \cup {Nobody}, fresh : BOOLEAN]
  BY DEF Dataset!LeaseOf
<1>1. CASE Dataset!Age
  BY <1>1, <1>s DEF Dataset!Age
<1>2. ASSUME NEW p \in Preparers, Dataset!Step(p) PROVE Kept
  <2>1. CASE Dataset!MakeLease(p)
    BY <2>1, <1>s, <1>m DEF Dataset!MakeLease
  <2>2. CASE Dataset!WriteOwner(p)
    BY <2>2, <1>s, <1>l, <1>m DEF Dataset!WriteOwner
  <2>3. CASE Dataset!Examine(p)
    BY <2>3, <1>s DEF Dataset!Examine
  <2>4. CASE Dataset!Reclaim(p)
    BY <2>4, <1>s, <1>l DEF Dataset!Reclaim
  <2>5. CASE Dataset!CheckNonce(p) \/ Dataset!Unlink(p) \/ Dataset!RemoveLease(p)
    BY <2>5, <1>s, <1>l, <1>m DEF Dataset!CheckNonce, Dataset!Unlink, Dataset!RemoveLease
  <2>6. CASE Dataset!Clean(p) \/ Dataset!Look(p) \/ Dataset!Stage(p)
    BY <2>6, <1>s, <1>o DEF Dataset!Clean, Dataset!Look, Dataset!Stage
  <2>7. CASE Dataset!Compare(p)
    BY <2>7, <1>s DEF Dataset!Compare
  <2>8. CASE Dataset!Adopt(p)
    BY <2>8, <1>s DEF Dataset!Adopt, Outputs
  <2>9. CASE Dataset!Backup(p)
    BY <2>9, <1>s, <1>o DEF Dataset!Backup
  <2>10. CASE Dataset!Publish(p)
    BY <2>10, <1>s, <1>o DEF Dataset!Publish
  <2>11. CASE Dataset!Restore(p)
    BY <2>11, <1>s, <1>o DEF Dataset!Restore
  <2>12. CASE Dataset!Freeze(p)
    BY <2>12, <1>s DEF Dataset!Freeze, Outputs
  <2>13. CASE Dataset!Fail(p)
    BY <2>13, <1>s DEF Dataset!Fail
  <2> QED
    BY <1>2, <2>1, <2>2, <2>3, <2>4, <2>5, <2>6, <2>7, <2>8, <2>9, <2>10, <2>11, <2>12, <2>13
       DEF Dataset!Step
<1>3. ASSUME NEW p \in Preparers, Dataset!Kill(p) PROVE Kept
  BY <1>3, <1>s DEF Dataset!Kill
<1> QED
  BY <1>1, <1>2, <1>3 DEF Dataset!Next

(* The lease keeps the preparers apart.                                    *)
LEMMA LeaseKeeps ==
    ASSUME PrepTypes, PrepTypes', LeaseHeld, ~stalls, ~seized, ~seized', Dataset!Next
    PROVE  LeaseHeld'
<1>n. Nobody \notin Preparers
  BY Assumptions DEF Dataset!PreparationAssumption
<1> USE DEF LeaseHeld, OwnLease, OneInside, JudgedIsStale, Inside, Dataset!Goto,
            Dataset!LeaseGoes, Dataset!History
<1>l. /\ ~Dataset!NoLease.taken
      /\ \A q : /\ Dataset!LeaseOf(q).taken /\ Dataset!LeaseOf(q).fresh
                /\ Dataset!LeaseOf(q).owner = q
  BY DEF Dataset!NoLease, Dataset!LeaseOf
<1>1. CASE Dataset!Age
  <2>1. /\ lease'.taken = lease.taken /\ lease'.owner = lease.owner /\ ~lease'.fresh
        /\ \A p \in Preparers : prepAt[p] \notin {"write", "rmdir"}
        /\ UNCHANGED <<prepAt, judged>>
    BY <1>1 DEF Dataset!Age, PrepTypes
  <2> QED
    BY <2>1
<1>2. ASSUME NEW p \in Preparers, Dataset!Step(p) PROVE LeaseHeld'
  <2>f. ASSUME NEW s, prepAt' = [prepAt EXCEPT ![p] = s]
        PROVE  prepAt'[p] = s /\ \A q \in Preparers : q # p => prepAt'[q] = prepAt[q]
    BY <2>f DEF PrepTypes
  (* a preparer that is inside goes on there *)
  <2>w. ASSUME NEW s \in Dataset!Working \cup {"release", "unlink", "rmdir"}, Inside(p),
               prepAt' = [prepAt EXCEPT ![p] = s], judged' = judged, lease'.taken,
               s = "rmdir" => lease'.owner = Nobody /\ lease'.fresh,
               s # "rmdir" => lease'.owner = p
        PROVE  LeaseHeld'
    <3>1. prepAt'[p] = s /\ \A q \in Preparers : q # p => prepAt'[q] = prepAt[q] /\ ~Inside(q)
      BY <2>w, <2>f
    <3>2. judged = {}
      BY <2>w, <1>n DEF Dataset!Working
    <3> QED
      BY <2>w, <3>1, <3>2 DEF Dataset!Working
  (* the lease goes, and nobody else was inside *)
  <2>g. ASSUME NEW s \in {"idle", "end"}, prepAt' = [prepAt EXCEPT ![p] = s], Dataset!LeaseGoes,
               \A q \in Preparers : q # p => ~Inside(q)
        PROVE  LeaseHeld'
    <3>1. prepAt'[p] = s /\ \A q \in Preparers : q # p => prepAt'[q] = prepAt[q]
      BY <2>g, <2>f
    <3>2. \A q \in Preparers : ~Inside(q)'
      BY <2>g, <3>1 DEF Dataset!Working
    <3> QED
      BY <2>g, <3>2
  (* a preparer that is outside stays there *)
  <2>h. ASSUME NEW s \in {"idle", "examine", "end"}, prepAt' = [prepAt EXCEPT ![p] = s],
               UNCHANGED <<lease, judged>>, prepAt[p] \in {"idle", "examine"}
        PROVE  LeaseHeld'
    <3>1. judged # {} /\ lease.owner # Nobody => prepAt'[lease.owner] = "dead"
      BY <2>h DEF PrepTypes
    <3> QED
      BY <2>h, <2>f, <3>1 DEF Dataset!Working
  <2>1. CASE Dataset!MakeLease(p) /\ lease.taken
    BY <2>1, <2>h DEF Dataset!MakeLease
  <2>2. CASE Dataset!MakeLease(p) /\ ~lease.taken
    <3>1. /\ prepAt' = [prepAt EXCEPT ![p] = "write"] /\ judged' = judged
          /\ lease'.taken /\ lease'.fresh /\ lease'.owner = Nobody
      BY <2>2, <1>l DEF Dataset!MakeLease
    <3>2. judged = {} /\ \A q \in Preparers : ~Inside(q)
      BY <2>2
    <3> QED
      BY <3>1, <3>2, <2>f DEF Dataset!Working
  <2>3. CASE Dataset!WriteOwner(p)
    <3>1. prepAt[p] = "write" /\ lease.taken /\ lease.owner = Nobody
      BY <2>3 DEF Dataset!WriteOwner
    <3>2. /\ prepAt' = [prepAt EXCEPT ![p] = "clean"] /\ judged' = judged
          /\ lease'.taken /\ lease'.owner = p
      BY <2>3, <3>1, <1>l DEF Dataset!WriteOwner
    <3> QED
      BY <3>1, <3>2, <2>w DEF Dataset!Working
  <2>4. CASE Dataset!Examine(p) /\ ~(lease.taken /\ ~Dataset!Active)
    BY <2>4, <2>h DEF Dataset!Examine
  <2>5. CASE Dataset!Examine(p) /\ lease.taken /\ ~Dataset!Active
    <3>1. /\ prepAt[p] = "examine" /\ prepAt' = [prepAt EXCEPT ![p] = "reclaim"]
          /\ lease.taken /\ ~Dataset!Active /\ lease' = lease
      BY <2>5 DEF Dataset!Examine
    <3>2. IF lease.owner = Nobody THEN ~lease.fresh ELSE prepAt'[lease.owner] = "dead"
      BY <3>1 DEF Dataset!Active, PrepTypes
    <3> QED
      BY <3>1, <3>2, <2>f DEF Dataset!Working
  <2>6. CASE Dataset!Reclaim(p)
    <3>1. prepAt' = [prepAt EXCEPT ![p] = "idle"] /\ Dataset!LeaseGoes
          /\ (~lease.taken \/ p \in judged)
      BY <2>6 DEF Dataset!Reclaim
    <3>2. \A q \in Preparers : ~Inside(q)
      BY <3>1, <1>n DEF Dataset!Working
    <3> QED
      BY <3>1, <3>2, <2>g
  <2>7. CASE Dataset!CheckNonce(p)
    <3>1. prepAt[p] = "release" /\ prepAt' = [prepAt EXCEPT ![p] = "unlink"]
          /\ UNCHANGED <<lease, judged>>
      BY <2>7 DEF Dataset!CheckNonce
    <3> QED
      BY <3>1, <2>w
  <2>8. CASE Dataset!Unlink(p)
    <3>1. prepAt[p] = "unlink" /\ prepAt' = [prepAt EXCEPT ![p] = "rmdir"] /\ judged' = judged
          /\ lease'.taken /\ lease'.fresh /\ lease'.owner = Nobody
      BY <2>8, <1>l DEF Dataset!Unlink
    <3> QED
      BY <3>1, <2>w
  <2>9. CASE Dataset!RemoveLease(p)
    <3>1. prepAt[p] = "rmdir" /\ prepAt' = [prepAt EXCEPT ![p] = "end"] /\ Dataset!LeaseGoes
      BY <2>9 DEF Dataset!RemoveLease
    <3> QED
      BY <3>1, <2>g
  <2>10. CASE Prepares(p)
    <3>1. /\ prepAt[p] \in Dataset!Working /\ UNCHANGED <<lease, judged>>
          /\ \E s \in Dataset!Working \cup {"release"} : prepAt' = [prepAt EXCEPT ![p] = s]
      BY <2>10, WorkIsInside
    <3>2. "rmdir" \notin Dataset!Working \cup {"release"}
      BY DEF Dataset!Working
    <3> QED
      BY <3>1, <3>2, <2>w
  <2> QED
    BY <1>2, <2>1, <2>2, <2>3, <2>4, <2>5, <2>6, <2>7, <2>8, <2>9, <2>10 DEF Dataset!Step, Prepares
<1>3. ASSUME NEW p \in Preparers, Dataset!Kill(p) PROVE LeaseHeld'
  <2>1. /\ prepAt'[p] = "dead" /\ \A q \in Preparers : q # p => prepAt'[q] = prepAt[q]
        /\ UNCHANGED <<lease, judged>>
    BY <1>3 DEF Dataset!Kill, PrepTypes
  <2>2. lease.owner # Nobody => lease.owner \in Preparers
    BY DEF PrepTypes
  <2> QED
    BY <2>1, <2>2 DEF Dataset!Working
<1> QED
  BY <1>1, <1>2, <1>3 DEF Dataset!Next

(* The files, given that only one preparer is inside.                      *)
LEMMA FilesKeep ==
    ASSUME PrepTypes, PrepTypes', LeaseHeld, FilesKept, Dataset!Next
    PROVE  FilesKept'
<1> USE DEF FilesKept, SolutionsProved, ReadyKept, Changing
<1>a. ASSUME UNCHANGED out,
             \A q \in Preparers :
                /\ prepAt'[q] \in {"adopt", "freeze"} \cup Changing => prepAt'[q] = prepAt[q]
                /\ told'[q] = "ready" => told[q] = "ready"
      PROVE  FilesKept'
  BY <1>a
<1>1. CASE Dataset!Age
  BY <1>1, <1>a DEF Dataset!Age, Dataset!work
<1>2. ASSUME NEW p \in Preparers, Dataset!Step(p) PROVE FilesKept'
  <2>f. ASSUME NEW s, prepAt' = [prepAt EXCEPT ![p] = s]
        PROVE  prepAt'[p] = s /\ \A q \in Preparers : q # p => prepAt'[q] = prepAt[q]
    BY <2>f DEF PrepTypes
  <2>t. ASSUME NEW s, Dataset!Tell(p, s)
        PROVE  told'[p] = s /\ \A q \in Preparers : q # p => told'[q] = told[q]
    BY <2>t DEF PrepTypes, Dataset!Tell
  <2>o. ASSUME prepAt[p] \in Dataset!Working
        PROVE  \A q \in Preparers : q # p => prepAt[q] \notin Dataset!Working
    BY <2>o DEF LeaseHeld, OneInside, Inside
  <2> USE DEF Dataset!Goto, Dataset!work, Dataset!Working
  <2>1. CASE Dataset!MakeLease(p)
    BY <2>1, <2>f, <1>a DEF Dataset!MakeLease
  <2>2. CASE Dataset!WriteOwner(p)
    BY <2>2, <2>f, <2>t, <1>a DEF Dataset!WriteOwner
  <2>3. CASE Dataset!Examine(p)
    BY <2>3, <2>f, <2>t, <1>a DEF Dataset!Examine
  <2>4. CASE Dataset!Reclaim(p)
    BY <2>4, <2>f, <1>a DEF Dataset!Reclaim
  <2>5. CASE Dataset!CheckNonce(p)
    BY <2>5, <2>f, <2>t, <1>a DEF Dataset!CheckNonce
  <2>6. CASE Dataset!Unlink(p) \/ Dataset!RemoveLease(p)
    BY <2>6, <2>f, <1>a DEF Dataset!Unlink, Dataset!RemoveLease
  <2>7. CASE Dataset!Clean(p)
    BY <2>7, <2>f, <1>a DEF Dataset!Clean, Dataset!On
  <2>8. CASE Dataset!Look(p)
    <3>1. CASE out.marker
      <4>1. out.content = "official" /\ prepAt' = [prepAt EXCEPT ![p] = "freeze"]
            /\ UNCHANGED <<told, out>>
        BY <2>8, <3>1 DEF Dataset!Look, Dataset!On
      <4> QED
        BY <4>1, <3>1, <2>f
    <3>2. CASE ~out.marker
      <4>1. prepAt' = [prepAt EXCEPT ![p] = "stage"] /\ UNCHANGED <<told, out>>
        BY <2>8, <3>2 DEF Dataset!Look, Dataset!On
      <4>2. out # Dataset!Whole
        BY <3>2 DEF Dataset!Whole
      <4> QED
        BY <4>1, <4>2, <2>f
    <3> QED
      BY <3>1, <3>2
  <2>c. ASSUME prepAt[p] \in Changing, told' = told
        PROVE  \A q \in Preparers : told'[q] # "ready"
    BY <2>c
  <2>9. CASE Dataset!Stage(p)
    BY <2>9, <2>f, <2>c DEF Dataset!Stage, Dataset!On
  <2>10. CASE Dataset!Compare(p)
    <3>1. /\ prepAt[p] = "compare" /\ UNCHANGED <<told, out>>
          /\ prepAt' = [prepAt EXCEPT ![p] = CASE out.content = "none" -> "publish"
                                               [] out.content = "official" -> "adopt"
                                               [] OTHER -> "backup"]
      BY <2>10 DEF Dataset!Compare, Dataset!On
    <3>2. prepAt'[p] \notin {"freeze"} /\ (prepAt'[p] = "adopt" => out.content = "official")
      BY <3>1, <2>f
    <3> QED
      BY <3>1, <3>2, <2>f, <2>c
  <2>11. CASE Dataset!Adopt(p)
    <3>1. /\ prepAt[p] = "adopt" /\ told' = told /\ prepAt' = [prepAt EXCEPT ![p] = "freeze"]
          /\ out'.content = "official" /\ out'.marker
      BY <2>11 DEF Dataset!Adopt, Dataset!On, PrepTypes, Outputs
    <3> QED
      BY <3>1, <2>f, <2>o, <2>c
  <2>12. CASE Dataset!Backup(p)
    <3>1. prepAt[p] = "backup" /\ told' = told /\ prepAt' = [prepAt EXCEPT ![p] = "publish"]
      BY <2>12 DEF Dataset!Backup, Dataset!On
    <3> QED
      BY <3>1, <2>f, <2>o, <2>c
  <2>13. CASE Dataset!Publish(p)
    <3>1. /\ prepAt[p] = "publish" /\ told' = told /\ prepAt' = [prepAt EXCEPT ![p] = "freeze"]
          /\ out'.content = "official" /\ out'.marker
      BY <2>13 DEF Dataset!Publish, Dataset!On, Dataset!Official
    <3> QED
      BY <3>1, <2>f, <2>o, <2>c
  <2>14. CASE Dataset!Restore(p)
    <3>1. /\ prepAt[p] = "publish" /\ Dataset!Tell(p, "failed")
          /\ prepAt' = [prepAt EXCEPT ![p] = "release"]
      BY <2>14 DEF Dataset!Restore, Dataset!Ends
    <3>2. \A q \in Preparers : told'[q] # "ready"
      BY <3>1, <2>t
    <3> QED
      BY <3>1, <3>2, <2>f, <2>o
  <2>15. CASE Dataset!Freeze(p)
    <3>1. /\ prepAt[p] = "freeze" /\ prepAt' = [prepAt EXCEPT ![p] = "release"]
          /\ out.content = "official" /\ out.marker /\ out' = [out EXCEPT !.frozen = TRUE]
      BY <2>15 DEF Dataset!Freeze, Dataset!Ends
    <3>2. out' = Dataset!Whole
      BY <3>1 DEF PrepTypes, Outputs, Dataset!Whole
    <3>3. \A q \in Preparers : prepAt'[q] \notin Dataset!Working
      BY <3>1, <2>f, <2>o
    <3> QED
      BY <3>2, <3>3
  <2>16. CASE Dataset!Fail(p)
    BY <2>16, <2>f, <2>t, <1>a DEF Dataset!Fail, Dataset!Ends
  <2> QED
    BY <1>2, <2>1, <2>2, <2>3, <2>4, <2>5, <2>6, <2>7, <2>8, <2>9, <2>10, <2>11, <2>12, <2>13,
       <2>14, <2>15, <2>16 DEF Dataset!Step
<1>3. ASSUME NEW p \in Preparers, Dataset!Kill(p) PROVE FilesKept'
  <2>1. /\ prepAt'[p] = "dead" /\ \A q \in Preparers : q # p => prepAt'[q] = prepAt[q]
        /\ UNCHANGED <<told, out>>
    BY <1>3 DEF Dataset!Kill, Dataset!Goto, Dataset!work, PrepTypes
  <2> QED
    BY <2>1, <1>a
<1> QED
  BY <1>1, <1>2, <1>3 DEF Dataset!Next

LEMMA PrepKeeps == ASSUME PrepInv, Dataset!Next \/ UNCHANGED prepVars PROVE PrepInv'
<1>1. CASE Dataset!Next
  <2>1. PrepTypes /\ PrepTypes' /\ stalls' = stalls /\ (seized => seized')
    BY <1>1, PrepTypesKeep DEF PrepInv
  <2> SUFFICES ASSUME ~stalls, ~seized, ~seized' PROVE (LeaseHeld /\ FilesKept)'
    BY <2>1 DEF PrepInv
  <2>2. LeaseHeld /\ FilesKept
    BY DEF PrepInv
  <2> QED
    BY <1>1, <2>1, <2>2, LeaseKeeps, FilesKeep
<1>2. CASE UNCHANGED prepVars
  BY <1>2 DEF prepVars, PrepInv, PrepTypes, LeaseHeld, OwnLease, OneInside, JudgedIsStale, Inside,
     FilesKept, SolutionsProved, ReadyKept
<1> QED
  BY <1>1, <1>2

-----------------------------------------------------------------------------
(* The runtimes of candidates                                              *)

(* An entry of the cache is absent or what its digest says, and a runtime  *)
(* is the candidate's own copy or a link to an entry that is there.        *)
EntriesAreDigests == \A d \in Cache!Digests : entry[d] \in {Cache!None, d}
RuntimesFollow ==
    \A c \in Campaigns, x \in Programs :
       \/ runtime[c][x] \in {Cache!Absent, Cache!Own(DigestOf[x])}
       \/ runtime[c][x] = Cache!Link(DigestOf[x]) /\ entry[DigestOf[x]] = DigestOf[x]
LinksReady ==
    \A c \in Campaigns :
       cacheAt[c].step \in {"unlink", "link"} => entry[Cache!Digest(c)] = Cache!Digest(c)

RuntimesOf(x) == {Cache!Absent, Cache!Own(DigestOf[x]), Cache!Link(DigestOf[x])}
Runtimes == UNION {RuntimesOf(x) : x \in Programs}
Doings == [step : {"idle", "look", "clone", "compile", "publish", "unlink", "link"},
           candidate : Programs]
CacheTypes ==
    /\ cacheAt \in [Campaigns -> Doings]
    /\ entry \in [Cache!Digests -> Cache!Digests \cup {Cache!None}]
    /\ runtime \in [Campaigns -> [Programs -> Runtimes]]

CacheInv == CacheTypes /\ EntriesAreDigests /\ RuntimesFollow /\ LinksReady

LEMMA CacheInit == ASSUME Cache!Init PROVE CacheInv
<1> USE Assumptions DEF Cache!CacheAssumption, Cache!Init, Cache!Doing
<1>1. ASSUME Programs # {} PROVE Cache!Absent \in Runtimes
  BY <1>1 DEF Runtimes, RuntimesOf
<1>2. CacheTypes
  BY <1>1 DEF CacheTypes, Doings
<1>3. EntriesAreDigests /\ RuntimesFollow /\ LinksReady
  BY DEF EntriesAreDigests, RuntimesFollow, LinksReady
<1> QED
  BY <1>2, <1>3 DEF CacheInv

(* What a step of a campaign does to the three, in general.                *)
LEMMA CacheStep ==
    ASSUME CacheInv, NEW c \in Campaigns, NEW s \in Doings,
           cacheAt' = [cacheAt EXCEPT ![c] = s],
           entry' \in [Cache!Digests -> Cache!Digests \cup {Cache!None}],
           \A d \in Cache!Digests : entry'[d] = entry[d] \/ (entry[d] = Cache!None /\ entry'[d] = d),
           NEW x \in Programs,
           NEW r \in RuntimesOf(x),
           runtime' = [runtime EXCEPT ![c][x] = r],
           r = Cache!Link(DigestOf[x]) => entry'[DigestOf[x]] = DigestOf[x],
           s.step \in {"unlink", "link"} => entry'[DigestOf[s.candidate]] = DigestOf[s.candidate]
    PROVE  CacheInv'
<1> USE DEF CacheInv, CacheTypes
<1>d. \A y \in Programs : DigestOf[y] \in Cache!Digests
  BY DEF Cache!Digests
<1>1. runtime' \in [Campaigns -> [Programs -> Runtimes]]
  <2>1. r \in Runtimes
    BY DEF Runtimes
  <2> QED
    BY <2>1
<1>2. EntriesAreDigests'
  BY DEF EntriesAreDigests
<1>m. \A d \in Cache!Digests : entry[d] = d => entry'[d] = d
  OBVIOUS
<1>3. RuntimesFollow'
  <2> SUFFICES ASSUME NEW b \in Campaigns, NEW y \in Programs
               PROVE  \/ runtime'[b][y] \in {Cache!Absent, Cache!Own(DigestOf[y])}
                      \/ runtime'[b][y] = Cache!Link(DigestOf[y]) /\ entry'[DigestOf[y]] = DigestOf[y]
    BY DEF RuntimesFollow
  <2>1. CASE runtime'[b][y] = runtime[b][y]
    BY <2>1, <1>d, <1>m DEF RuntimesFollow
  <2>2. CASE runtime'[b][y] # runtime[b][y]
    BY <2>2 DEF RuntimesOf
  <2> QED
    BY <2>1, <2>2
<1>4. LinksReady'
  <2> SUFFICES ASSUME NEW b \in Campaigns, cacheAt'[b].step \in {"unlink", "link"}
               PROVE  entry'[DigestOf[cacheAt'[b].candidate]] = DigestOf[cacheAt'[b].candidate]
    BY DEF LinksReady, Cache!Digest, Cache!Candidate
  <2>1. CASE b = c
    BY <2>1
  <2>2. CASE b # c
    BY <2>2, <1>d, <1>m DEF LinksReady, Cache!Digest, Cache!Candidate, Doings
  <2> QED
    BY <2>1, <2>2
<1> QED
  BY <1>1, <1>2, <1>3, <1>4

LEMMA CacheKeeps == ASSUME CacheInv, Cache!Next \/ UNCHANGED cacheVars PROVE CacheInv'
<1>1. CASE UNCHANGED cacheVars
  BY <1>1 DEF cacheVars, CacheInv, CacheTypes, EntriesAreDigests, RuntimesFollow, LinksReady,
              Cache!Digest, Cache!Candidate
<1>2. ASSUME NEW c \in Campaigns,
             \/ \E x \in Programs : Cache!Build(c, x)
             \/ Cache!Look(c) \/ Cache!Clone(c) \/ Cache!Compile(c) \/ Cache!Publish(c)
             \/ Cache!Unlink(c) \/ Cache!Activate(c) \/ Cache!Kill(c) \/ Cache!Inspect(c)
      PROVE  CacheInv'
  <2> DEFINE x == cacheAt[c].candidate
  <2>t. /\ cacheAt \in [Campaigns -> Doings] /\ cacheAt[c] \in Doings /\ x \in Programs
        /\ entry \in [Cache!Digests -> Cache!Digests \cup {Cache!None}]
        /\ DigestOf[x] \in Cache!Digests /\ Cache!Digest(c) = DigestOf[x]
    BY DEF CacheInv, CacheTypes, Doings, Cache!Digests, Cache!Digest, Cache!Candidate
  <2> DEFINE r0 == runtime[c][x]
  <2>r. /\ r0 \in RuntimesOf(x)
        /\ r0 = Cache!Link(DigestOf[x]) => entry[DigestOf[x]] = DigestOf[x]
        /\ runtime = [runtime EXCEPT ![c][x] = r0]
    <3>1. r0 = Cache!Link(DigestOf[x]) =>
            r0 # Cache!Absent /\ r0 # Cache!Own(DigestOf[x])
      BY DEF Cache!Link, Cache!Absent, Cache!Own
    <3>2. runtime = [runtime EXCEPT ![c][x] = r0]
      BY <2>t DEF CacheInv, CacheTypes
    <3> QED
      BY <3>1, <3>2, <2>t DEF CacheInv, RuntimesFollow, RuntimesOf
  <2>g. ASSUME NEW s \in {"idle", "look", "clone", "compile", "publish", "unlink", "link"},
               Cache!Goto(c, s)
        PROVE  /\ [cacheAt[c] EXCEPT !.step = s] \in Doings
               /\ cacheAt' = [cacheAt EXCEPT ![c] = [cacheAt[c] EXCEPT !.step = s]]
               /\ [cacheAt[c] EXCEPT !.step = s].step = s
               /\ [cacheAt[c] EXCEPT !.step = s].candidate = x
    BY <2>t, <2>g DEF Cache!Goto, Doings
  <2>d. ASSUME NEW s, NEW y \in Programs
        PROVE  /\ Cache!Doing(s, y) = [step |-> s, candidate |-> y]
               /\ Cache!Doing(s, y).step = s
               /\ s \in {"idle", "look"} => Cache!Doing(s, y) \in Doings
    BY DEF Cache!Doing, Doings
  <2>1. ASSUME NEW y \in Programs, Cache!Build(c, y) PROVE CacheInv'
    <3>1. UNCHANGED <<entry, runtime>> /\ cacheAt' = [cacheAt EXCEPT ![c] = Cache!Doing("look", y)]
      BY <2>1 DEF Cache!Build
    <3>2. Cache!Doing("look", y) \in Doings /\ Cache!Doing("look", y).step = "look"
      BY <2>d
    <3> QED
      BY <3>1, <3>2, <2>t, <2>r, CacheStep
  <2>2. CASE Cache!Look(c)
    <3>1. UNCHANGED <<entry, runtime>>
      BY <2>2 DEF Cache!Look
    <3>2. PICK s \in {"unlink", "clone", "compile"} :
            Cache!Goto(c, s) /\ (s = "unlink" => entry[DigestOf[x]] # Cache!None)
      BY <2>2, <2>t DEF Cache!Look
    <3>3. s = "unlink" => entry[DigestOf[x]] = DigestOf[x]
      BY <3>2, <2>t DEF CacheInv, EntriesAreDigests
    <3> QED
      BY <3>1, <3>2, <3>3, <2>t, <2>r, <2>g, CacheStep
  <2>3. CASE Cache!Clone(c)
    <3>1. entry' = entry /\ Cache!Goto(c, "idle")
      BY <2>3 DEF Cache!Clone, Cache!Patched
    <3>2. PICK r \in {Cache!Own(DigestOf[x]), Cache!Absent} : runtime' = [runtime EXCEPT ![c][x] = r]
      BY <2>3, <2>t DEF Cache!Clone, Cache!Set, Cache!Candidate
    <3>3. /\ r # Cache!Link(DigestOf[x])
          /\ r \in RuntimesOf(x)
      BY DEF RuntimesOf, Cache!Own, Cache!Absent, Cache!Link
    <3> QED
      BY <3>1, <3>2, <3>3, <2>t, <2>g, CacheStep
  <2>4. CASE Cache!Compile(c)
    <3>1. PICK s \in {"publish", "idle"} : Cache!Goto(c, s)
      BY <2>4 DEF Cache!Compile
    <3>2. entry' = entry /\ runtime' = [runtime EXCEPT ![c][x] = Cache!Absent]
      BY <2>4 DEF Cache!Compile, Cache!Set, Cache!Candidate
    <3>3. Cache!Absent # Cache!Link(DigestOf[x]) /\ Cache!Absent \in RuntimesOf(x)
      BY DEF Cache!Absent, Cache!Link, RuntimesOf
    <3> QED
      BY <3>1, <3>2, <3>3, <2>t, <2>g, CacheStep
  <2>5. CASE Cache!Publish(c)
    <3>1. entry[DigestOf[x]] \in {Cache!None, DigestOf[x]}
      BY <2>t DEF CacheInv, EntriesAreDigests
    <3>2. entry' = [entry EXCEPT ![DigestOf[x]] = DigestOf[x]]
      BY <2>5, <3>1, <2>t DEF Cache!Publish, Cache!Published
    <3>3. Cache!Goto(c, "unlink") /\ runtime' = runtime
      BY <2>5 DEF Cache!Publish
    <3>4. \A d \in Cache!Digests : entry'[d] = entry[d] \/ (entry[d] = Cache!None /\ entry'[d] = d)
      BY <3>1, <3>2, <2>t
    <3>5. /\ entry' \in [Cache!Digests -> Cache!Digests \cup {Cache!None}]
          /\ entry'[DigestOf[x]] = DigestOf[x]
      BY <3>2, <2>t
    <3> QED
      BY <3>3, <3>4, <3>5, <2>t, <2>r, <2>g, CacheStep
  <2>6. CASE Cache!Unlink(c)
    <3>1. Cache!Goto(c, "link") /\ entry' = entry /\ runtime' = [runtime EXCEPT ![c][x] = Cache!Absent]
      BY <2>6 DEF Cache!Unlink, Cache!Set, Cache!Candidate
    <3>2. entry[DigestOf[x]] = DigestOf[x]
      BY <2>6, <2>t DEF Cache!Unlink, Cache!Now, CacheInv, LinksReady
    <3>3. Cache!Absent # Cache!Link(DigestOf[x]) /\ Cache!Absent \in RuntimesOf(x)
      BY DEF Cache!Absent, Cache!Link, RuntimesOf
    <3> QED
      BY <3>1, <3>2, <3>3, <2>t, <2>g, CacheStep
  <2>7. CASE Cache!Activate(c)
    <3>1. /\ Cache!Goto(c, "idle") /\ entry' = entry
          /\ runtime' = [runtime EXCEPT ![c][x] = Cache!Link(DigestOf[x])]
      BY <2>7, <2>t DEF Cache!Activate, Cache!Set, Cache!Candidate
    <3>2. entry[DigestOf[x]] = DigestOf[x]
      BY <2>7, <2>t DEF Cache!Activate, Cache!Now, CacheInv, LinksReady
    <3>3. Cache!Link(DigestOf[x]) \in RuntimesOf(x)
      BY DEF RuntimesOf
    <3> QED
      BY <3>1, <3>2, <3>3, <2>t, <2>g, CacheStep
  <2>8. CASE Cache!Kill(c)
    <3>1. Baseline \in Programs
      BY Assumptions DEF Cache!CacheAssumption
    <3> QED
      <4>1. /\ UNCHANGED <<entry, runtime>>
            /\ cacheAt' = [cacheAt EXCEPT ![c] = Cache!Doing("idle", Baseline)]
        BY <2>8 DEF Cache!Kill
      <4>2. /\ Cache!Doing("idle", Baseline) \in Doings
            /\ Cache!Doing("idle", Baseline).step = "idle"
        BY <3>1, <2>d
      <4> QED
        BY <4>1, <4>2, <2>t, <2>r, CacheStep
  <2>9. CASE Cache!Inspect(c)
    BY <2>9, <1>1 DEF Cache!Inspect, cacheVars, CacheInv, CacheTypes, EntriesAreDigests,
        RuntimesFollow, LinksReady, Cache!Digest, Cache!Candidate
  <2> QED
    BY <1>2, <2>1, <2>2, <2>3, <2>4, <2>5, <2>6, <2>7, <2>8, <2>9
<1> QED
  BY <1>1, <1>2 DEF Cache!Next

(* Whoever was told that the dataset is ready uses official, proved and    *)
(* frozen solutions, and the runtime under a candidate's name has its      *)
(* files, for any number of preparers and campaigns, whoever is killed and *)
(* whoever takes over the lease of the dead - as long as no preparer       *)
(* stalls or moves away another lease than the one it found stale.         *)
THEOREM PreparedStaysWhole == Spec => []PreparedIsWhole
<1>1. Init => PrepInv /\ CacheInv
  BY PrepInit, CacheInit DEF Init
<1>2. PrepInv /\ CacheInv /\ [Next]_evaluation => PrepInv' /\ CacheInv'
  BY PrepKeeps, CacheKeeps, EvaluationStep
<1>3. PrepInv => Dataset!ReadyIsFrozen
  BY DEF PrepInv, FilesKept, ReadyKept, Dataset!ReadyIsFrozen, Dataset!ReadyStaysWhole, Dataset!Ready
<1>4. CacheInv => Cache!RuntimeIsCandidate
  <2> SUFFICES ASSUME CacheInv, NEW c \in Campaigns, NEW x \in Programs,
                      runtime[c][x] # Cache!Absent
               PROVE  Cache!Files(runtime[c][x]) = DigestOf[x]
    BY DEF Cache!RuntimeIsCandidate
  <2>1. CASE runtime[c][x] = Cache!Own(DigestOf[x])
    BY <2>1 DEF Cache!Files, Cache!Own
  <2>2. CASE runtime[c][x] = Cache!Link(DigestOf[x])
    BY <2>2 DEF CacheInv, RuntimesFollow, Cache!Files, Cache!Link, Cache!Own, Cache!Absent
  <2> QED
    BY <2>1, <2>2 DEF CacheInv, RuntimesFollow
<1> QED
  BY <1>1, <1>2, <1>3, <1>4, PTL DEF Spec, PreparedIsWhole


-----------------------------------------------------------------------------
(* Trials of a partition                                                   *)

TrialSteps == {"idle", "queued", "reserve", "solve", "verify", "commit", "done", "failed"}
TrialDirs == {"missing", "incomplete"} \cup Identities

TrialTypes ==
    /\ strict \in BOOLEAN /\ identity \in Identities
    /\ trialStep \in [Tasks -> TrialSteps] /\ dir \in [Tasks -> TrialDirs]
    /\ budget \in [Tasks -> [identity : {"missing"} \cup Identities, started : Nat]]
    /\ sampled \in [Tasks -> Nat]

(* Each sample was reserved in the budget file before it was taken, the one*)
(* that is under way included.                                             *)
UnderWay(t) == IF trialStep[t] = "solve" THEN 1 ELSE 0
SamplesReserved ==
    strict => \A t \in Tasks : /\ sampled[t] + UnderWay(t) <= budget[t].started
                               /\ budget[t].started <= Retries + 1

(* Where a task is says what its directory may hold: only a queued task of *)
(* an evaluation that is not strict finds a result, of another identity.   *)
DirectoriesFollow ==
    \A t \in Tasks :
       /\ trialStep[t] \in {"reserve", "solve", "verify", "commit", "failed"} => dir[t] \notin Identities
       /\ trialStep[t] = "queued" => dir[t] # identity /\ (strict => dir[t] \notin Identities)
       /\ trialStep[t] = "done" => dir[t] = identity

TrialInv == TrialTypes /\ SamplesReserved /\ DirectoriesFollow

LEMMA TrialInit == ASSUME Trials!TrialAssumption, Trials!Init PROVE TrialInv
  BY DEF Trials!TrialAssumption, Trials!Init, TrialInv, TrialTypes, SamplesReserved,
         DirectoriesFollow, UnderWay, Trials!Idle, Trials!NoBudget, TrialSteps, TrialDirs

LEMMA TrialWorkKeeps ==
    ASSUME Trials!TrialAssumption, TrialInv, NEW t \in Tasks, Trials!Work(t)
    PROVE  TrialInv'
<1> USE DEF Trials!TrialAssumption, TrialInv, TrialTypes, SamplesReserved, DirectoriesFollow,
        UnderWay, TrialSteps, TrialDirs, Trials!Goto, Trials!Dir
<1>1. CASE Trials!Begin(t)
  BY <1>1 DEF Trials!Begin
<1>2. CASE Trials!Reserve(t)
  BY <1>2 DEF Trials!Reserve, Trials!Reservable, Trials!Reserved
<1>3. CASE Trials!Solve(t)
  <2>1. CASE /\ dir' = [dir EXCEPT ![t] = "missing"] /\ trialStep' = [trialStep EXCEPT ![t] = "reserve"]
    BY <1>3, <2>1 DEF Trials!Solve
  <2>2. CASE /\ dir' = [dir EXCEPT ![t] = "incomplete"]
             /\ \E r \in {"verify", "failed", "commit"} : trialStep' = [trialStep EXCEPT ![t] = r]
    BY <1>3, <2>2 DEF Trials!Solve
  <2> QED
    BY <1>3, <2>1, <2>2 DEF Trials!Solve, Trials!Solved
<1>4. CASE Trials!Verify(t)
  BY <1>4 DEF Trials!Verify, Trials!disk
<1>5. CASE Trials!Commit(t)
  BY <1>5 DEF Trials!Commit
<1> QED
  BY <1>1, <1>2, <1>3, <1>4, <1>5 DEF Trials!Work

LEMMA TrialKeeps ==
    ASSUME Trials!TrialAssumption, TrialInv, Trials!Next \/ UNCHANGED trialVars
    PROVE  TrialInv'
<1> USE DEF Trials!TrialAssumption, TrialInv, TrialTypes, SamplesReserved, DirectoriesFollow,
        UnderWay, TrialSteps, TrialDirs
<1>1. ASSUME NEW i \in Identities, Trials!Start(i) PROVE TrialInv'
  BY <1>1 DEF Trials!Start, Trials!Committed, Trials!Stale, Trials!disk
<1>2. ASSUME NEW t \in Tasks, Trials!Work(t) PROVE TrialInv'
  BY <1>2, TrialWorkKeeps
<1>3. CASE Trials!Conclude
  BY <1>3 DEF Trials!Conclude, Trials!Idle
<1>4. CASE Trials!Crash
  BY <1>4 DEF Trials!Crash, Trials!Idle
<1>5. CASE UNCHANGED trialVars
  BY <1>5 DEF trialVars
<1> QED
  BY <1>1, <1>2, <1>3, <1>4, <1>5 DEF Trials!Next

(* No task of a strict final is solved more than once plus its retries,    *)
(* for any number of tasks, workers, retries, identities and restarts.     *)
THEOREM SamplesStayBounded == Spec => []SamplesBounded
<1>1. Init => TrialInv
  BY TrialInit, Assumptions DEF Init
<1>2. TrialInv /\ [Next]_evaluation => TrialInv'
  BY TrialKeeps, Assumptions, EvaluationStep
<1>3. TrialInv => SamplesBounded
  BY Assumptions DEF Trials!TrialAssumption, TrialInv, TrialTypes, SamplesReserved,
     SamplesBounded, Trials!SamplesBounded, UnderWay
<1> QED
  BY <1>1, <1>2, <1>3, PTL DEF Spec

(* A step measures a committed task again only in an evaluation that is    *)
(* not strict and of another identity; a results file is of one identity.  *)
LEMMA TrialsCommitted ==
    ASSUME TrialInv, Trials!Next \/ UNCHANGED trialVars
    PROVE  Trials!MeasuredOnce /\ Trials!OfOneIdentity
<1> USE Assumptions DEF Trials!TrialAssumption, TrialInv, TrialTypes, DirectoriesFollow,
        TrialDirs, Trials!MeasuredOnce, Trials!OfOneIdentity, Trials!Goto, Trials!Dir, Trials!disk
<1>1. ASSUME NEW i \in Identities, Trials!Start(i) PROVE Trials!MeasuredOnce /\ Trials!OfOneIdentity
  BY <1>1 DEF Trials!Start
<1>2. ASSUME NEW t \in Tasks, Trials!Begin(t) PROVE Trials!MeasuredOnce /\ Trials!OfOneIdentity
  BY <1>2 DEF Trials!Begin
<1>3. ASSUME NEW t \in Tasks, Trials!Reserve(t) PROVE Trials!MeasuredOnce /\ Trials!OfOneIdentity
  BY <1>3 DEF Trials!Reserve
<1>4. ASSUME NEW t \in Tasks, Trials!Solve(t) PROVE Trials!MeasuredOnce /\ Trials!OfOneIdentity
  BY <1>4 DEF Trials!Solve
<1>5. ASSUME NEW t \in Tasks, Trials!Verify(t) PROVE Trials!MeasuredOnce /\ Trials!OfOneIdentity
  BY <1>5 DEF Trials!Verify
<1>6. ASSUME NEW t \in Tasks, Trials!Commit(t) PROVE Trials!MeasuredOnce /\ Trials!OfOneIdentity
  BY <1>6 DEF Trials!Commit
<1>7. CASE Trials!Conclude
  BY <1>7 DEF Trials!Conclude, Trials!Written
<1>8. CASE Trials!Crash
  BY <1>8 DEF Trials!Crash
<1>9. CASE UNCHANGED trialVars
  BY <1>9 DEF trialVars
<1> QED
  BY <1>1, <1>2, <1>3, <1>4, <1>5, <1>6, <1>7, <1>8, <1>9 DEF Trials!Next, Trials!Work

-----------------------------------------------------------------------------
(* The validation of a candidate                                           *)

PartitionTypes ==
    /\ taskStep \in [Tasks -> {"none", "queued", "kept", "solve", "wait", "verify", "rewait",
                               "emit", "write", "ended", "threw"}]
    /\ record \in [Tasks -> Partition!Scored \cup {"none", "error", "cancelled"}]
    /\ kept \in [Tasks -> Partition!Scored \cup {"none"}]
    /\ ending \in {"none", "aborted", "deadline"}

(* Between evaluations no task is anywhere; in one, a task has a kept score*)
(* where it says so, has none before it is written, and ends without one   *)
(* only by an error or with the evaluation.                                *)
StepsFollowScores ==
    \A t \in Tasks :
       /\ ~Partition!Running => taskStep[t] = "none"
       /\ taskStep[t] = "kept" => kept[t] # "none"
       /\ taskStep[t] \in {"queued", "solve", "wait", "verify", "rewait", "emit", "write"}
            => kept[t] = "none"
       /\ taskStep[t] = "emit" =>
            record[t] \in Partition!Scored \cup {"error"} \/ ending # "none"
       /\ taskStep[t] = "write" => record[t] \in Partition!Scored
       /\ taskStep[t] = "ended" => kept[t] # "none" \/ record[t] = "error" \/ ending # "none"
       /\ taskStep[t] = "threw" => ending # "none"

PartitionInv == PartitionTypes /\ StepsFollowScores /\ Partition!SummaryIsComplete

LEMMA PartitionInit == ASSUME Partition!Init PROVE PartitionInv
  BY DEF Partition!Init, Partition!None, Partition!Running, PartitionInv, PartitionTypes,
         StepsFollowScores, Partition!SummaryIsComplete

(* A task that works takes a step of its own, and its score is kept once.  *)
LEMMA PartitionWorkKeeps ==
    ASSUME PartitionInv, NEW t \in Tasks, Partition!Work(t)
    PROVE  PartitionInv' /\ Partition!ScoresStay
<1> USE DEF PartitionInv, PartitionTypes, StepsFollowScores, Partition!SummaryIsComplete,
        Partition!ScoresStay, Partition!Running, Partition!Goto, Partition!Quiet, Partition!Scored
<1>1. CASE Partition!Take(t)
  BY <1>1 DEF Partition!Take
<1>2. CASE Partition!Solve(t)
  BY <1>2 DEF Partition!Solve, Partition!SolverEnds, Partition!Recorded
<1>3. CASE Partition!Verify(t)
  BY <1>3 DEF Partition!Verify, Partition!VerifierEnds, Partition!Recorded
<1>4. CASE Partition!Wait(t)
  BY <1>4 DEF Partition!Wait
<1>5. CASE Partition!Emit(t)
  BY <1>5 DEF Partition!Emit
<1>6. CASE Partition!Write(t)
  BY <1>6 DEF Partition!Write
<1> QED
  BY <1>1, <1>2, <1>3, <1>4, <1>5, <1>6 DEF Partition!Work

LEMMA PartitionKeeps ==
    ASSUME PartitionInv, Partition!Next \/ UNCHANGED partitionVars
    PROVE  PartitionInv' /\ Partition!ScoresStay
<1> USE DEF PartitionInv, PartitionTypes, StepsFollowScores, Partition!SummaryIsComplete,
        Partition!ScoresStay, Partition!Running
<1>1. CASE Partition!Start
  BY <1>1 DEF Partition!Start, Partition!None, Partition!Remaining
<1>2. CASE Partition!Conclude
  <2>1. result' = "summary" => \A t \in Tasks : kept[t] # "none"
    <3> SUFFICES ASSUME result' = "summary", NEW t \in Tasks PROVE kept[t] # "none"
      OBVIOUS
    <3>1. ending = "none" /\ record[t] # "error"
      BY <1>2 DEF Partition!Conclude, Partition!Outcome
    <3> QED
      BY <1>2, <3>1 DEF Partition!Conclude, Partition!Over
  <2> QED
    BY <1>2, <2>1 DEF Partition!Conclude, Partition!None, Partition!Outcome
<1>3. CASE Partition!Crash
  BY <1>3 DEF Partition!Crash, Partition!None
<1>4. ASSUME NEW why \in {"aborted", "deadline"}, Partition!End(why)
      PROVE  PartitionInv' /\ Partition!ScoresStay
  BY <1>4 DEF Partition!End
<1>5. CASE UNCHANGED partitionVars
  BY <1>5 DEF partitionVars
<1> QED
  BY <1>1, <1>2, <1>3, <1>4, <1>5, PartitionWorkKeeps DEF Partition!Next

(* A validation is summarized only when every task has a kept score, for   *)
(* any number of tasks, workers, retries and restarts.                     *)
THEOREM SummariesAreComplete == Spec => []SummaryIsComplete
<1>1. Init => PartitionInv
  BY PartitionInit DEF Init
<1>2. PartitionInv /\ [Next]_evaluation => PartitionInv'
  BY PartitionKeeps, EvaluationStep
<1>3. PartitionInv => SummaryIsComplete
  BY DEF PartitionInv, SummaryIsComplete
<1> QED
  BY <1>1, <1>2, <1>3, PTL DEF Spec

-----------------------------------------------------------------------------
(* Checkpoints of a generic algorithm                                      *)

(* A checkpoint that the launch has still to write.                        *)
Pending(s) == at # "idle" /\ (s > steps \/ (s = steps /\ at \in {"save", "checkpoint"}))

RunTypes ==
    /\ at \in {"idle", "create", "begin", "step", "save", "checkpoint", "event"}
    /\ steps \in 0 .. MaxSteps /\ launched \in 0 .. MaxRuns
    /\ at # "idle" => launched > 0
    /\ at \in {"save", "checkpoint"} => steps > 0
    /\ \E T : files \in [Generic!Names -> T]

(* Every launch takes one suffix of a name at most, the least that is free,*)
(* so that there is one left for a checkpoint that is not written yet.     *)
SuffixesLeft ==
    \A s \in 1 .. MaxSteps, k \in 0 .. MaxRuns :
       files[<<s, k>>] # Generic!Missing =>
          k < launched /\ (Pending(s) => k + 1 < launched)

RunInv == RunTypes /\ SuffixesLeft

LEMMA RunInit == ASSUME Generic!Init PROVE RunInv
<1>1. 0 \in 0 .. MaxSteps /\ 0 \in 0 .. MaxRuns
  BY Assumptions DEF Generic!GenericAssumption
<1>2. files \in [Generic!Names -> {Generic!Missing}]
  BY DEF Generic!Init
<1>3. RunTypes
  BY <1>1, <1>2 DEF Generic!Init, RunTypes
<1>4. SuffixesLeft
  BY DEF Generic!Init, SuffixesLeft, Generic!Names
<1> QED
  BY <1>3, <1>4 DEF RunInv

(* The name of the checkpoint: one of the step, which fits, at or below the*)
(* suffix that is known to be free.                                        *)
LEMMA NameFound ==
    ASSUME RunInv, at = "checkpoint"
    PROVE  \E k \in 0 .. MaxRuns :
              Generic!FreeName = <<steps, k>> /\ Generic!Fits(<<steps, k>>) /\ k < launched
<1> DEFINE Fit == {k \in Nat : k <= MaxRuns /\ Generic!Fits(<<steps, k>>)}
           free == launched - 1
<1>0. MaxSteps \in Nat /\ MaxRuns \in Nat
  BY Assumptions DEF Generic!GenericAssumption
<1>1. steps \in 1 .. MaxSteps /\ free \in 0 .. MaxRuns /\ free < launched /\ launched \in Nat
  BY <1>0 DEF RunInv, RunTypes
<1>2. free \in Fit
  <2>1. Pending(steps) /\ ~(free + 1 < launched)
    BY <1>1 DEF Pending
  <2>2. files[<<steps, free>>] = Generic!Missing
    BY <1>1, <2>1 DEF RunInv, SuffixesLeft
  <2> QED
    BY <1>0, <1>1, <2>2 DEF Generic!Fits
<1>3. PICK k \in Fit : \A j \in Fit : ~(j < k)
  BY <1>2, LeastNumber
<1>4. k \in 0 .. MaxRuns /\ Generic!Fits(<<steps, k>>) /\ k <= free /\ k < launched
  BY <1>0, <1>1, <1>2, <1>3
<1> HIDE DEF Fit, free
<1> DEFINE Least(n) == /\ n[1] = steps /\ Generic!Fits(n)
                       /\ \A m \in Generic!Names :
                             m[1] = steps /\ m[2] < n[2] => ~Generic!Fits(m)
           name == CHOOSE n \in Generic!Names : Least(n)
<1>5. \A m \in Generic!Names :
         m[1] = steps /\ Generic!Fits(m) => m[2] \in Fit /\ m = <<steps, m[2]>>
  BY <1>0 DEF Generic!Names, Fit
<1>6. <<steps, k>> \in Generic!Names /\ Least(<<steps, k>>)
  BY <1>0, <1>1, <1>3, <1>4, <1>5 DEF Generic!Names
<1>7. name \in Generic!Names /\ Least(name)
  BY <1>6
<1>8. name = <<steps, k>>
  <2>1. name[2] \in Fit /\ name = <<steps, name[2]>>
    BY <1>5, <1>7
  <2>2. ~(name[2] < k) /\ ~(k < name[2])
    BY <1>3, <1>4, <1>6, <1>7, <2>1
  <2>3. name[2] \in Nat /\ k \in Nat
    BY <2>1 DEF Fit
  <2> HIDE DEF name, Least
  <2>4. name[2] = k
    BY <2>2, <2>3
  <2> QED
    BY <2>1, <2>4, Zenon
<1>9. Generic!FreeName = name
  BY DEF Generic!FreeName
<1> QED
  BY <1>4, <1>8, <1>9

LEMMA RunKeeps ==
    ASSUME RunInv, Generic!Next \/ UNCHANGED runVars
    PROVE  RunInv' /\ Generic!CheckpointsStay
<1>0. MaxSteps \in Nat /\ MaxRuns \in Nat
  BY Assumptions DEF Generic!GenericAssumption
<1> USE <1>0 DEF RunInv, RunTypes, SuffixesLeft, Pending, Generic!CheckpointsStay
<1>1. CASE Generic!Launch
  <2>1. /\ at = "idle" /\ launched' = launched + 1 /\ launched' \in 0 .. MaxRuns /\ steps' = 0
        /\ at' \in {"create", "begin"} /\ files' = files
    BY <1>1 DEF Generic!Launch
  <2> QED
    BY <2>1
<1>2. CASE Generic!Create \/ Generic!Begin
  BY <1>2 DEF Generic!Create, Generic!Begin
<1>3. CASE Generic!Step
  <2>1. UNCHANGED <<files, launched>> /\ at = "step"
    BY <1>3 DEF Generic!Step
  <2>2. \/ at' = "idle" /\ steps' = steps
        \/ at' = "save" /\ steps' = steps + 1 /\ steps # MaxSteps
    BY <1>3 DEF Generic!Step
  <2> QED
    BY <2>1, <2>2
<1>4. CASE Generic!Save
  BY <1>4 DEF Generic!Save, Generic!AfterSave
<1>5. CASE Generic!WriteCheckpoint
  <2>1. at = "checkpoint" /\ UNCHANGED <<steps, launched>>
    BY <1>5 DEF Generic!WriteCheckpoint
  <2>2. PICK k \in 0 .. MaxRuns :
           Generic!FreeName = <<steps, k>> /\ Generic!Fits(<<steps, k>>) /\ k < launched
    BY <2>1, NameFound
  <2>3. PICK x : /\ files' = [files EXCEPT ![<<steps, k>>] = x] /\ at' \in {"event", "idle"}
                 /\ x = state \/ files[<<steps, k>>] = Generic!Missing
    BY <1>5, <2>2 DEF Generic!WriteCheckpoint, Generic!AfterSave
  <2>4. <<steps, k>> \in Generic!Names
    BY <2>1 DEF Generic!Names
  <2>5. PICK T : files \in [Generic!Names -> T]
    OBVIOUS
  <2>6. /\ files'[<<steps, k>>] = x
        /\ \A n \in Generic!Names : n # <<steps, k>> => files'[n] = files[n]
        /\ files' \in [Generic!Names -> T \cup {x}]
    BY <2>3, <2>4, <2>5
  <2>7. Generic!CheckpointsStay
    BY <2>2, <2>3, <2>6 DEF Generic!Fits
  <2>8. RunTypes'
    BY <2>1, <2>3, <2>6
  <2>9. SuffixesLeft'
    <3> SUFFICES ASSUME NEW s \in 1 .. MaxSteps, NEW j \in 0 .. MaxRuns,
                        files'[<<s, j>>] # Generic!Missing
                 PROVE  j < launched' /\ (Pending(s)' => j + 1 < launched')
      OBVIOUS
    <3>1. CASE s = steps /\ j = k
      BY <3>1, <2>1, <2>2, <2>3
    <3>2. CASE ~(s = steps /\ j = k)
      <4>1. files'[<<s, j>>] = files[<<s, j>>]
        BY <3>2, <2>6 DEF Generic!Names
      <4> QED
        BY <4>1, <2>1, <2>3
    <3> QED
      BY <3>1, <3>2
  <2> QED
    BY <2>7, <2>8, <2>9
<1>6. CASE Generic!AppendEvent
  BY <1>6 DEF Generic!AppendEvent, Generic!AfterSave
<1>7. CASE Generic!Crash
  BY <1>7 DEF Generic!Crash
<1>8. CASE UNCHANGED runVars
  BY <1>8 DEF runVars
<1> QED
  BY <1>1, <1>2, <1>3, <1>4, <1>5, <1>6, <1>7, <1>8 DEF Generic!Next


-----------------------------------------------------------------------------
(* The verdict on an HLE task                                              *)

(* What is judged is the final answer of the attempt the solver completed, *)
(* and a record ends the task.                                             *)
HleInv ==
    /\ hleStep \in {"verify", "judge", "rewait"} => solver = "completed" /\ answer = Hle!Final
    /\ hleRecord # "none" => hleStep = "done"
    /\ Hle!VerdictIsEarned

LEMMA HleInit == ASSUME Hle!Init PROVE HleInv
  BY DEF Hle!Init, HleInv, Hle!VerdictIsEarned

LEMMA OwnIsFinal == Hle!OwnLast = Hle!Final
  BY DEF Hle!OwnLast, Hle!Final, Hle!Roots

LEMMA FinalStays == ASSUME sessions' = sessions PROVE (Hle!Final)' = Hle!Final
  BY DEF Hle!Final, Hle!Roots

(* The record of a task that ends is earned.                               *)
LEMMA RecordIsEarned ==
    ASSUME NEW s, NEW v,
           hleRecord' = Hle!RecordOf(s, v), solver' = s,
           v = "verified" => (Hle!Final)' = "right",
           \/ s = "completed" /\ (v = "candidate" => (Hle!Final)' # "right")
              /\ v \in {"verified", "candidate", "infrastructure", "cancelled"} /\ verifier' = v
           \/ /\ s \in {"candidate", "timeout", "infrastructure", "cancelled"} /\ v = "none"
              /\ s \in {"candidate", "timeout"} => lastCall' # "failed"
    PROVE  (Hle!VerdictIsEarned)'
<1>1. (Hle!OwnLast)' = (Hle!Final)'
  BY OwnIsFinal DEF Hle!OwnLast, Hle!Final, Hle!Roots
<1> QED
  BY <1>1 DEF Hle!VerdictIsEarned, Hle!RecordOf

LEMMA VerifierKeeps ==
    ASSUME HleInv, NEW v, Hle!VerifierEnds(v), solver = "completed", answer = Hle!Final,
           v \in {"verified", "candidate", "infrastructure", "cancelled"},
           v = "verified" => answer = "right", v = "candidate" => answer # "right",
           hleRecord = "none"
    PROVE  HleInv'
<1>1. /\ UNCHANGED <<sessions, lastCall, answer, solver>> /\ verifier' = v
      /\ \/ hleStep' = "rewait" /\ hleRecord' = hleRecord
         \/ hleStep' = "done" /\ hleRecord' = Hle!RecordOf(solver, v)
  BY DEF Hle!VerifierEnds, Hle!Close
<1>2. (Hle!Final)' = Hle!Final
  BY <1>1, FinalStays
<1>3. CASE hleStep' = "rewait" /\ hleRecord' = hleRecord
  BY <1>1, <1>2, <1>3 DEF HleInv, Hle!VerdictIsEarned
<1>4. CASE hleStep' = "done" /\ hleRecord' = Hle!RecordOf(solver, v)
  <2>1. (Hle!VerdictIsEarned)'
    BY <1>1, <1>2, <1>4, RecordIsEarned
  <2> QED
    BY <1>4, <2>1 DEF HleInv
<1> QED
  BY <1>1, <1>3, <1>4

LEMMA SolverKeeps == ASSUME HleInv, Hle!SolverEnds PROVE HleInv'
<1>1. PICK exit \in Hle!FromExit : 
         LET end == Hle!Classified(Hle!Extracted(exit)) IN
         /\ solver' = end
         /\ IF end = "completed"
            THEN answer' = Hle!Final /\ hleStep' = "verify" /\ UNCHANGED hleRecord
            ELSE \/ hleStep' = "wait" /\ UNCHANGED hleRecord
                 \/ Hle!Close(end, "none")
  BY DEF Hle!SolverEnds, Hle!tries
<1>2. UNCHANGED <<sessions, lastCall>> /\ hleStep = "solve" /\ hleRecord = "none"
  BY DEF Hle!SolverEnds, Hle!Solving, HleInv
<1>3. (Hle!Final)' = Hle!Final
  BY <1>2, FinalStays
<1> DEFINE end == Hle!Classified(Hle!Extracted(exit))
<1>4. /\ end \in {"completed", "candidate", "timeout", "infrastructure", "cancelled"}
      /\ end \in {"candidate", "timeout"} => lastCall # "failed"
  BY DEF Hle!FromExit, Hle!Extracted, Hle!Classified
<1> HIDE DEF end
<1>5. CASE end = "completed"
  BY <1>1, <1>2, <1>3, <1>5 DEF end, HleInv, Hle!VerdictIsEarned
<1>6. CASE end # "completed" /\ hleStep' = "wait" /\ UNCHANGED hleRecord
  BY <1>2, <1>6 DEF HleInv, Hle!VerdictIsEarned
<1>7. CASE end # "completed" /\ Hle!Close(end, "none")
  <2>1. hleStep' = "done" /\ hleRecord' = Hle!RecordOf(end, "none") /\ solver' = end
    BY <1>1, <1>7 DEF Hle!Close, end
  <2>2. (Hle!VerdictIsEarned)'
    BY <1>2, <1>4, <1>7, <2>1, RecordIsEarned
  <2> QED
    BY <2>1, <2>2 DEF HleInv
<1> QED
  BY <1>1, <1>5, <1>6, <1>7 DEF end

LEMMA HleKeeps ==
    ASSUME HleInv, Hle!Next \/ UNCHANGED taskVars
    PROVE  HleInv'
<1>1. CASE Hle!Prepare
  BY <1>1 DEF Hle!Prepare, HleInv, Hle!VerdictIsEarned
<1>2. CASE Hle!Retry
  <2>1. /\ UNCHANGED <<sessions, answer, solver, hleRecord>> /\ hleStep \in {"wait", "rewait"}
        /\ hleStep' \in {"prepare", "verify", "threw"}
        /\ hleStep' = "verify" => hleStep = "rewait"
    BY <1>2 DEF Hle!Retry
  <2> QED
    BY <2>1, FinalStays DEF HleInv, Hle!VerdictIsEarned
<1>3. CASE Hle!Verify
  <2>1. UNCHANGED <<sessions, answer, solver, hleRecord>> /\ hleStep = "verify" /\ hleStep' = "judge"
    BY <1>3 DEF Hle!Verify
  <2> QED
    BY <2>1, FinalStays DEF HleInv, Hle!VerdictIsEarned
<1>4. CASE Hle!Unreadable
  <2>1. PICK v \in {"cancelled", "infrastructure"} : Hle!VerifierEnds(v)
    BY <1>4 DEF Hle!Unreadable
  <2> QED
    BY <1>4, <2>1, VerifierKeeps DEF Hle!Unreadable, HleInv
<1>5. CASE Hle!JudgeReplies
  <2>1. PICK reply \in {"decision", "malformed", "failed"} : Hle!VerifierEnds(Hle!Judged(reply))
    BY <1>5 DEF Hle!JudgeReplies
  <2> DEFINE v == Hle!Judged(reply)
  <2>2. /\ v \in {"verified", "candidate", "infrastructure", "cancelled"}
        /\ v = "verified" => answer = "right"
        /\ v = "candidate" => answer # "right"
    BY DEF Hle!Judged
  <2> HIDE DEF v
  <2> QED
    BY <1>5, <2>1, <2>2, VerifierKeeps DEF Hle!JudgeReplies, HleInv, v
<1>6. CASE Hle!Abort
  <2>1. UNCHANGED <<sessions, answer, solver, hleRecord, hleStep>> /\ hleStep # "done"
    BY <1>6 DEF Hle!Abort
  <2> QED
    BY <2>1, FinalStays DEF HleInv, Hle!VerdictIsEarned
<1>7. ASSUME Hle!Unscored, Hle!Solving PROVE HleInv'
  BY <1>7 DEF Hle!Unscored, Hle!Solving, HleInv, Hle!VerdictIsEarned
<1>8. CASE UNCHANGED taskVars
  <2>1. UNCHANGED <<sessions, lastCall, answer, solver, verifier, hleRecord, hleStep>>
    BY <1>8 DEF taskVars
  <2>2. (Hle!OwnLast)' = Hle!OwnLast
    BY <2>1 DEF Hle!OwnLast
  <2> QED
    BY <2>1, <2>2, FinalStays DEF HleInv, Hle!VerdictIsEarned
<1> QED
  BY <1>1, <1>2, <1>3, <1>4, <1>5, <1>6, <1>7, <1>8, SolverKeeps
     DEF Hle!Next, Hle!ProviderFails, Hle!OpenSession, Hle!Say


-----------------------------------------------------------------------------
(* The decision on a promotion                                             *)

(* The recursive function of a sum: an element is picked, the rest summed. *)
Pick(s) == CHOOSE x \in s : TRUE
Less(s) == s \ {Pick(s)}
IsSum(f, h, D) == f = [s \in D |-> IF s = {} THEN 0 ELSE h[Pick(s)] + f[Less(s)]]
UpTo(S, n) == {s \in SUBSET S : Cardinality(s) <= n}

LEMMA LessIsSmaller ==
    ASSUME NEW S, IsFiniteSet(S), NEW s \in SUBSET S, s # {}
    PROVE  /\ Pick(s) \in S /\ Less(s) \in SUBSET S
           /\ Cardinality(s) \in Nat /\ Cardinality(s) # 0 /\ Cardinality(Less(s)) = Cardinality(s) - 1
<1>1. Pick(s) \in s
  BY DEF Pick
<1>2. IsFiniteSet(s) /\ Cardinality(s) \in Nat /\ Cardinality(s) # 0
  BY FS_Subset, FS_CardinalityType, FS_EmptySet
<1>3. Cardinality(s \ {Pick(s)}) = Cardinality(s) - 1
  BY <1>1, <1>2, FS_RemoveElement
<1> QED
  BY <1>1, <1>2, <1>3 DEF Less

(* There is such a function for every finite set: by induction on the size *)
(* of the subsets it is defined on.                                        *)
LEMMA SumToExists ==
    ASSUME NEW S, IsFiniteSet(S), NEW h, NEW n \in Nat
    PROVE  \E f : IsSum(f, h, UpTo(S, n))
<1> DEFINE Bad == {k \in Nat : ~\E f : IsSum(f, h, UpTo(S, k))}
<1> SUFFICES ASSUME Bad # {} PROVE FALSE
  OBVIOUS
<1>1. PICK k \in Bad : \A j \in Bad : ~(j < k)
  BY LeastNumber
<1>2. CASE k = 0
  <2> DEFINE f == [s \in UpTo(S, 0) |-> 0]
  <2>1. \A s \in UpTo(S, 0) : s = {}
    <3> SUFFICES ASSUME NEW s \in UpTo(S, 0), s # {} PROVE FALSE
      OBVIOUS
    <3>1. s \in SUBSET S /\ Cardinality(s) <= 0
      BY DEF UpTo
    <3> QED
      BY <3>1, LessIsSmaller
  <2>2. IsSum(f, h, UpTo(S, 0))
    BY <2>1 DEF IsSum
  <2> HIDE DEF f
  <2> QED
    BY <1>2, <2>2
<1>3. CASE k # 0
  <2>1. k - 1 \in Nat /\ k - 1 < k /\ k \in Nat
    BY <1>3
  <2>2. k - 1 \notin Bad
    BY <1>1, <2>1
  <2>3. PICK f : IsSum(f, h, UpTo(S, k - 1))
    BY <2>1, <2>2
  <2> DEFINE g == [s \in UpTo(S, k) |-> IF s = {} THEN 0 ELSE h[Pick(s)] + f[Less(s)]]
  <2>4. \A t \in UpTo(S, k - 1) : t \in UpTo(S, k) /\ g[t] = f[t]
    <3> SUFFICES ASSUME NEW t \in UpTo(S, k - 1) PROVE t \in UpTo(S, k) /\ g[t] = f[t]
      OBVIOUS
    <3>1. Cardinality(t) \in Nat
      BY FS_Subset, FS_CardinalityType DEF UpTo
    <3>2. t \in UpTo(S, k)
      BY <2>1, <3>1 DEF UpTo
    <3>3. f[t] = IF t = {} THEN 0 ELSE h[Pick(t)] + f[Less(t)]
      BY <2>3, Zenon DEF IsSum
    <3> QED
      BY <3>2, <3>3
  <2>5. \A s \in UpTo(S, k) : s # {} => Less(s) \in UpTo(S, k - 1)
    <3> SUFFICES ASSUME NEW s \in UpTo(S, k), s # {} PROVE Less(s) \in UpTo(S, k - 1)
      OBVIOUS
    <3>1. s \in SUBSET S /\ Cardinality(s) <= k
      BY DEF UpTo
    <3>2. Less(s) \in SUBSET S /\ Cardinality(Less(s)) <= k - 1
      BY <2>1, <3>1, LessIsSmaller
    <3> QED
      BY <3>2 DEF UpTo
  <2>6. \A s \in UpTo(S, k) : s # {} => g[Less(s)] = f[Less(s)]
    BY <2>4, <2>5
  <2>7. g = [s \in UpTo(S, k) |-> IF s = {} THEN 0 ELSE h[Pick(s)] + g[Less(s)]]
    BY <2>6
  <2> HIDE DEF g
  <2>8. IsSum(g, h, UpTo(S, k))
    BY <2>7 DEF IsSum
  <2> QED
    BY <2>8
<1> QED
  BY <1>2, <1>3

LEMMA SumExists ==
    ASSUME NEW S, IsFiniteSet(S), NEW h
    PROVE  \E f : IsSum(f, h, SUBSET S)
<1>1. Cardinality(S) \in Nat
  BY FS_CardinalityType
<1>2. \A s \in SUBSET S : Cardinality(s) <= Cardinality(S)
  BY FS_Subset
<1>3. UpTo(S, Cardinality(S)) = SUBSET S
  BY <1>2 DEF UpTo
<1> QED
  BY <1>1, <1>3, SumToExists

(* Sums of opposite numbers are opposite, whichever way they are picked.   *)
LEMMA SumsAreOpposite ==
    ASSUME NEW S, IsFiniteSet(S), NEW h, NEW e, \A x \in S : h[x] \in Int /\ e[x] = 0 - h[x],
           NEW f, IsSum(f, h, SUBSET S), NEW g, IsSum(g, e, SUBSET S)
    PROVE  f[S] \in Int /\ g[S] = 0 - f[S]
<1> DEFINE Good(s) == f[s] \in Int /\ g[s] = 0 - f[s]
           Bad == {n \in Nat : \E s \in SUBSET S : Cardinality(s) = n /\ ~Good(s)}
<1>1. ASSUME NEW s \in SUBSET S PROVE
         /\ f[s] = IF s = {} THEN 0 ELSE h[Pick(s)] + f[Less(s)]
         /\ g[s] = IF s = {} THEN 0 ELSE e[Pick(s)] + g[Less(s)]
  BY Zenon DEF IsSum
<1>2. Bad = {}
  <2> SUFFICES ASSUME Bad # {} PROVE FALSE
    OBVIOUS
  <2>1. PICK k \in Bad : \A j \in Bad : ~(j < k)
    BY LeastNumber
  <2>2. PICK s \in SUBSET S : Cardinality(s) = k /\ ~Good(s)
    OBVIOUS
  <2>3. s # {}
    <3> SUFFICES ASSUME s = {} PROVE FALSE
      OBVIOUS
    <3>1. f[s] = 0 /\ g[s] = 0
      BY <1>1
    <3> QED
      BY <2>2, <3>1
  <2>4. /\ Pick(s) \in S /\ Less(s) \in SUBSET S /\ Cardinality(s) \in Nat
        /\ Cardinality(s) # 0 /\ Cardinality(Less(s)) = Cardinality(s) - 1
    BY <2>3, LessIsSmaller
  <2>5. Good(Less(s))
    <3>1. Cardinality(Less(s)) \in Nat /\ Cardinality(Less(s)) < k
      BY <2>2, <2>4
    <3>2. Cardinality(Less(s)) \notin Bad
      BY <2>1, <3>1
    <3> QED
      BY <2>4, <3>1, <3>2
  <2>6. f[s] = h[Pick(s)] + f[Less(s)] /\ g[s] = e[Pick(s)] + g[Less(s)]
    BY <1>1, <2>3
  <2>7. h[Pick(s)] \in Int /\ e[Pick(s)] = 0 - h[Pick(s)]
    BY <2>4
  <2> QED
    BY <2>2, <2>5, <2>6, <2>7
<1>3. Cardinality(S) \in Nat /\ S \in SUBSET S
  BY FS_CardinalityType
<1> QED
  BY <1>2, <1>3

(* What the rewards differ by is the sum of what the pairs differ by.      *)
Deltas(b, c) == [i \in Instances |-> Decision!Of(c, i).reward - Decision!Of(b, i).reward]

LEMMA DeltaIsSum ==
    ASSUME NEW b, NEW c, IsFiniteSet(Instances)
    PROVE  \E g : IsSum(g, Deltas(b, c), SUBSET Instances) /\ Decision!RewardDelta(b, c) = g[Instances]
<1> DEFINE Iter(f) == f = [s \in SUBSET Instances |->
                        IF s = {} THEN 0
                        ELSE (Decision!Of(c, CHOOSE x \in s : TRUE).reward
                                - Decision!Of(b, CHOOSE x \in s : TRUE).reward)
                             + f[s \ {CHOOSE x \in s : TRUE}]]
           g == CHOOSE f : Iter(f)
<1>1. Decision!RewardDelta(b, c) = g[Instances]
  BY Zenon DEF Decision!RewardDelta, Decision!MapThenSumSet, Decision!MapThenFoldSet
<1>2. ASSUME NEW f PROVE Iter(f) <=> IsSum(f, Deltas(b, c), SUBSET Instances)
  <2>1. ASSUME NEW s \in SUBSET Instances, s # {}
        PROVE Deltas(b, c)[Pick(s)] = Decision!Of(c, Pick(s)).reward - Decision!Of(b, Pick(s)).reward
    BY <2>1 DEF Deltas, Pick
  <2> DEFINE body(s) == IF s = {} THEN 0
                        ELSE (Decision!Of(c, Pick(s)).reward - Decision!Of(b, Pick(s)).reward) + f[Less(s)]
             sum(s) == IF s = {} THEN 0 ELSE Deltas(b, c)[Pick(s)] + f[Less(s)]
  <2>2. \A s \in SUBSET Instances : body(s) = sum(s)
    BY <2>1
  <2>3. Iter(f) <=> f = [s \in SUBSET Instances |-> body(s)]
    BY Zenon DEF Pick, Less
  <2>4. IsSum(f, Deltas(b, c), SUBSET Instances) <=> f = [s \in SUBSET Instances |-> sum(s)]
    BY Zenon DEF IsSum
  <2> HIDE DEF body, sum, Iter
  <2>5. [s \in SUBSET Instances |-> body(s)] = [s \in SUBSET Instances |-> sum(s)]
    BY <2>2, Zenon
  <2> QED
    BY <2>3, <2>4, <2>5
<1> HIDE DEF Iter
<1>3. \E f : Iter(f)
  <2>1. PICK f : IsSum(f, Deltas(b, c), SUBSET Instances)
    BY SumExists
  <2> QED
    BY <1>2, <2>1
<1>4. Iter(g)
  BY <1>3
<1> HIDE DEF g
<1> QED
  BY <1>1, <1>2, <1>4


(* Wins and losses of the pairs, as numbers.                               *)
Won(run) == {i \in Instances : Decision!Resolved(run, i)}

LEMMA DecisionCounts ==
    ASSUME Decision!DecisionAssumption
    PROVE  /\ IsFiniteSet(Instances)
           /\ \A S : Decision!Cardinality(S) = Cardinality(S)
           /\ \A run : Decision!Wins(run) = Cardinality(Won(run)) /\ Cardinality(Won(run)) \in Nat
           /\ \A b, c : Decision!Net(b, c) = Cardinality(Won(c)) - Cardinality(Won(b))
<1>1. Decision!IsFiniteSet(Instances) /\ \A S : Decision!IsFiniteSet(S) <=> IsFiniteSet(S)
  BY DEF Decision!DecisionAssumption, Decision!IsFiniteSet, IsFiniteSet
<1>2. \A S : Decision!Cardinality(S) = Cardinality(S)
  BY DEF Decision!Cardinality, Cardinality
<1>3. ASSUME NEW run
      PROVE  Decision!Wins(run) = Cardinality(Won(run)) /\ Cardinality(Won(run)) \in Nat
  <2>1. Won(run) = {i \in Instances \cap DOMAIN run : run[i].status = "resolved"}
    BY DEF Won, Decision!Resolved, Decision!Of, Decision!NotAttempted
  <2>2. Won(run) \in SUBSET Instances
    BY DEF Won
  <2> QED
    BY <1>1, <1>2, <2>1, <2>2, FS_Subset, FS_CardinalityType DEF Decision!Wins
<1>4. ASSUME NEW b, NEW c
      PROVE  Decision!Net(b, c) = Cardinality(Won(c)) - Cardinality(Won(b))
  <2> DEFINE B == Won(b)
             C == Won(c)
  <2>1. Decision!NewlyResolved(b, c) = C \ B /\ Decision!Regressed(b, c) = B \ C
    BY DEF Decision!NewlyResolved, Decision!Regressed, Won
  <2>2. B \in SUBSET Instances /\ C \in SUBSET Instances
    BY DEF Won
  <2> HIDE DEF B, C
  <2>3. IsFiniteSet(B) /\ IsFiniteSet(C)
    BY <1>1, <2>2, FS_Subset
  <2>4. /\ Cardinality(C \ B) = Cardinality(C) - Cardinality(C \cap B)
        /\ Cardinality(B \ C) = Cardinality(B) - Cardinality(B \cap C)
    BY <2>3, FS_Difference
  <2>5. C \cap B = B \cap C /\ Cardinality(B) \in Nat /\ Cardinality(C) \in Nat
    BY <2>3, FS_CardinalityType
  <2>6. Cardinality(B \cap C) \in Nat
    BY <2>3, FS_Difference, FS_CardinalityType, FS_Subset
  <2>7. Decision!Net(b, c) = Cardinality(C \ B) - Cardinality(B \ C)
    BY <1>2, <2>1 DEF Decision!Net
  <2> QED
    BY <2>4, <2>5, <2>6, <2>7 DEF B, C
<1> QED
  BY <1>1, <1>2, <1>3, <1>4

(* A run that is compared has a number for the reward of every instance.   *)
Rewarded(run) == \A i \in Instances : Decision!Of(run, i).reward \in Int

LEMMA RewardsAreOpposite ==
    ASSUME Decision!DecisionAssumption, NEW b, NEW c, Rewarded(b), Rewarded(c)
    PROVE  /\ Decision!RewardDelta(b, c) \in Int
           /\ Decision!RewardDelta(c, b) = 0 - Decision!RewardDelta(b, c)
<1>1. IsFiniteSet(Instances)
  BY DecisionCounts
<1>2. PICK f : IsSum(f, Deltas(b, c), SUBSET Instances) /\ Decision!RewardDelta(b, c) = f[Instances]
  BY <1>1, DeltaIsSum
<1>3. PICK g : IsSum(g, Deltas(c, b), SUBSET Instances) /\ Decision!RewardDelta(c, b) = g[Instances]
  BY <1>1, DeltaIsSum
<1>4. \A x \in Instances : Deltas(b, c)[x] \in Int /\ Deltas(c, b)[x] = 0 - Deltas(b, c)[x]
  <2> SUFFICES ASSUME NEW x \in Instances
               PROVE  Deltas(b, c)[x] \in Int /\ Deltas(c, b)[x] = 0 - Deltas(b, c)[x]
    OBVIOUS
  <2>1. Decision!Of(b, x).reward \in Int /\ Decision!Of(c, x).reward \in Int
    BY DEF Rewarded
  <2>2. /\ Deltas(b, c)[x] = Decision!Of(c, x).reward - Decision!Of(b, x).reward
        /\ Deltas(c, b)[x] = Decision!Of(b, x).reward - Decision!Of(c, x).reward
    BY DEF Deltas
  <2> QED
    BY <2>1, <2>2
<1> QED
  BY <1>1, <1>2, <1>3, <1>4, SumsAreOpposite

(* What is eligible passes every gate.                                     *)
LEMMA EligiblePasses ==
    ASSUME NEW b, NEW c, TRUE \in Decision!Eligible(b, c)
    PROVE  /\ Decision!Coverage(b, c) /\ Decision!Net(b, c) >= policy.net
           /\ Decision!RewardDelta(b, c) >= policy.reward
           /\ policy.cost # Decision!Unknown => Decision!IncreaseWithin(b, c, policy.cost)
<1>1. PICK bound \in Decision!PositiveBound(b, c) :
         TRUE = (Decision!Coverage(b, c) /\ Decision!Quality(b, c) /\ (policy.bound => bound)
                 /\ (policy.cost = Decision!Unknown \/ Decision!IncreaseWithin(b, c, policy.cost))
                 /\ Decision!Violations(c) <= policy.violations)
  BY DEF Decision!Eligible
<1> QED
  BY <1>1 DEF Decision!Quality

LEMMA NeverBothWays ==
    ASSUME Decision!DecisionAssumption, policy \in Policies, Rewarded(base), Rewarded(cand),
           TRUE \in Decision!Eligible(base, cand)
    PROVE  Decision!OneWay
<1> SUFFICES ASSUME policy.net > 0 \/ policy.reward > 0, TRUE \in Decision!Eligible(cand, base)
             PROVE  FALSE
  BY DEF Decision!OneWay
<1>1. policy.net \in Int /\ policy.reward \in Int
  BY DEF Decision!DecisionAssumption
<1>2. /\ Decision!Net(base, cand) >= policy.net /\ Decision!Net(cand, base) >= policy.net
      /\ Decision!RewardDelta(base, cand) >= policy.reward
      /\ Decision!RewardDelta(cand, base) >= policy.reward
  BY EligiblePasses
<1>3. /\ Decision!Net(base, cand) = Cardinality(Won(cand)) - Cardinality(Won(base))
      /\ Decision!Net(cand, base) = Cardinality(Won(base)) - Cardinality(Won(cand))
      /\ Cardinality(Won(cand)) \in Nat /\ Cardinality(Won(base)) \in Nat
  BY DecisionCounts
<1>4. /\ Decision!RewardDelta(base, cand) \in Int
      /\ Decision!RewardDelta(cand, base) = 0 - Decision!RewardDelta(base, cand)
  BY RewardsAreOpposite
<1>5. ~(policy.net > 0)
  BY <1>1, <1>2, <1>3
<1>6. ~(policy.reward > 0)
  BY <1>1, <1>2, <1>4
<1> QED
  BY <1>5, <1>6

LEMMA AllIsMeasured ==
    ASSUME Decision!DecisionAssumption, TRUE \in Decision!Eligible(base, cand)
    PROVE  Decision!NothingUnmeasured
<1>1. ASSUME policy.cost # Decision!Unknown, NEW i \in Instances, NEW run \in {base, cand}
      PROVE  i \in DOMAIN run /\ run[i].cost # Decision!Unknown
  <2>1. Decision!Cost(run) # Decision!Unknown
    BY <1>1, EligiblePasses DEF Decision!IncreaseWithin
  <2>2. Decision!Of(run, i).cost # Decision!Unknown
    BY <2>1 DEF Decision!Cost
  <2> QED
    BY <2>2 DEF Decision!Of, Decision!NotAttempted
<1>2. ASSUME policy.records = Decision!Cardinality(Instances), NEW run \in {base, cand}
      PROVE  Instances \subseteq DOMAIN run
  <2> DEFINE T == Instances \cap DOMAIN run
  <2>1. Cardinality(T) >= Cardinality(Instances)
    BY <1>2, EligiblePasses, DecisionCounts DEF Decision!Coverage, Decision!Present
  <2>2. IsFiniteSet(Instances) /\ T \in SUBSET Instances
    BY DecisionCounts
  <2> HIDE DEF T
  <2>3. /\ Cardinality(T) \in Nat /\ Cardinality(Instances) \in Nat
        /\ Cardinality(T) <= Cardinality(Instances)
        /\ Cardinality(Instances) = Cardinality(T) => Instances = T
    BY <2>2, FS_Subset, FS_CardinalityType
  <2>4. Instances = T
    BY <2>1, <2>3
  <2> QED
    BY <2>4 DEF T
<1> QED
  BY <1>1, <1>2 DEF Decision!NothingUnmeasured

(* The policy stays the one that was chosen, the runs have their rewards,  *)
(* and what is promoted was eligible, which says all the rest.             *)
DecisionInv ==
    /\ policy \in Policies /\ Rewarded(base) /\ Rewarded(cand)
    /\ decision = "promoted" => TRUE \in Decision!Eligible(base, cand) /\ ~Decision!Leaked

LEMMA DecisionResult ==
    ASSUME Decision!DecisionAssumption, DecisionInv
    PROVE  Decision!PromotionIsEarned
<1> SUFFICES ASSUME decision = "promoted"
             PROVE  /\ Decision!Wins(cand) - Decision!Wins(base) >= policy.net
                    /\ Sealed \notin DOMAIN base \cup DOMAIN cand
                    /\ Decision!OneWay /\ Decision!NothingUnmeasured
  BY DEF Decision!PromotionIsEarned
<1>1. TRUE \in Decision!Eligible(base, cand) /\ ~Decision!Leaked
  BY DEF DecisionInv
<1>2. Decision!OneWay /\ Decision!NothingUnmeasured
  BY <1>1, NeverBothWays, AllIsMeasured DEF DecisionInv
<1>3. Decision!Wins(cand) - Decision!Wins(base) >= policy.net
  BY <1>1, EligiblePasses, DecisionCounts
<1> QED
  BY <1>1, <1>2, <1>3 DEF Decision!Leaked

LEMMA NothingRewarded ==
    ASSUME NEW run, run = Decision!NoRecords PROVE Rewarded(run)
<1>1. DOMAIN run = {}
  BY DEF Decision!NoRecords
<1> QED
  BY <1>1 DEF Rewarded, Decision!Of, Decision!NotAttempted

LEMMA RecordRewarded ==
    ASSUME NEW run, Rewarded(run), NEW i, NEW r, r.reward \in Int
    PROVE  Rewarded(Decision!With(run, i, r))
<1> SUFFICES ASSUME NEW k \in Instances PROVE Decision!Of(Decision!With(run, i, r), k).reward \in Int
  BY DEF Rewarded
<1>1. /\ DOMAIN Decision!With(run, i, r) = DOMAIN run \cup {i}
      /\ \A j \in DOMAIN run \cup {i} :
           Decision!With(run, i, r)[j] = IF j = i THEN r ELSE run[j]
  BY DEF Decision!With
<1>2. Decision!Of(run, k).reward \in Int
  BY DEF Rewarded
<1>3. CASE k = i
  BY <1>1, <1>3 DEF Decision!Of
<1>4. CASE k # i
  BY <1>1, <1>2, <1>4 DEF Decision!Of
<1> QED
  BY <1>3, <1>4

LEMMA ReportKeeps ==
    ASSUME DecisionInv, NEW i, NEW r, r.reward \in Int, Decision!Report(i, r)
    PROVE  DecisionInv'
<1>1. /\ policy' = policy /\ decision' = "open"
      /\ base' = base \/ base' = Decision!With(base, i, r)
      /\ cand' = cand \/ cand' = Decision!With(cand, i, r)
  BY DEF Decision!Report
<1>2. Rewarded(base') /\ Rewarded(cand')
  BY <1>1, RecordRewarded DEF DecisionInv
<1> QED
  BY <1>1, <1>2 DEF DecisionInv, Rewarded, Decision!Of

LEMMA DecisionKeeps ==
    ASSUME Decision!DecisionAssumption, DecisionInv, Decision!Next \/ UNCHANGED decisionVars
    PROVE  DecisionInv'
<1>1. CASE UNCHANGED <<policy, base, cand>> /\ (decision' = decision \/ Decision!Decide)
  <2>1. Decision!Eligible(base, cand)' = Decision!Eligible(base, cand)
    BY <1>1 DEF Decision!Eligible, Decision!Quality, Decision!Coverage, Decision!Within,
       Decision!PositiveBound, Decision!IncreaseWithin
  <2>2. decision' = "promoted" => TRUE \in Decision!Eligible(base, cand) /\ ~Decision!Leaked
    BY <1>1 DEF DecisionInv, Decision!Decide
  <2> QED
    BY <1>1, <2>1, <2>2 DEF DecisionInv, Decision!Leaked, Rewarded, Decision!Of
<1>2. CASE Decision!NextRound
  <2>1. Rewarded(base') /\ Rewarded(cand') /\ policy' = policy /\ decision' = "open"
    BY <1>2, NothingRewarded DEF Decision!NextRound
  <2> QED
    BY <2>1 DEF DecisionInv, Rewarded, Decision!Of
<1>3. CASE Decision!Report(Sealed, Decision!NotAttempted)
  <2>1. Decision!NotAttempted.reward \in Int
    BY DEF Decision!NotAttempted
  <2> QED
    BY <1>3, <2>1, ReportKeeps
<1>4. ASSUME NEW i \in Instances, NEW r \in Records, Decision!Report(i, r) PROVE DecisionInv'
  BY <1>4, ReportKeeps DEF Decision!DecisionAssumption
<1> QED
  BY <1>1, <1>2, <1>3, <1>4 DEF Decision!Next, Decision!Decide, decisionVars

LEMMA DecisionInit == ASSUME Decision!Init PROVE DecisionInv
  BY NothingRewarded DEF Decision!Init, DecisionInv

(* Verdicts and promotions are the candidate's own doing, for any number   *)
(* of instances, records and policies, of sessions, answers and retries.   *)
THEOREM VerdictsStayEarned == Spec => []VerdictsAreEarned
<1>1. Init => HleInv /\ DecisionInv
  BY HleInit, DecisionInit DEF Init
<1>2. HleInv /\ DecisionInv /\ [Next]_evaluation => (HleInv /\ DecisionInv)'
  BY HleKeeps, DecisionKeeps, Assumptions, EvaluationStep
<1>3. HleInv /\ DecisionInv => VerdictsAreEarned
  BY DecisionResult, Assumptions DEF HleInv, VerdictsAreEarned
<1> QED
  BY <1>1, <1>2, <1>3, PTL DEF Spec

-----------------------------------------------------------------------------
(* Evaluation sessions                                                     *)

SessionIdentities == [digests : [Candidates -> Nat], inputs : Nat]
Phases == {"idle", "preparing", "opening", "naming", "next", "measuring", "checking",
           "saving", "summing"}
SessionJobs ==
    [at : Phases, identity : SessionIdentities, resume : BOOLEAN,
     current : Candidates \cup {"none"}, left : SUBSET Candidates,
     items : [Candidates -> {"incomplete", "complete"}]]

OutputTypes ==
    /\ root \in {"absent", "made", "named"} /\ named \in SessionIdentities
    /\ trials \in [Candidates -> [Tasks -> Nat]]
    /\ results \in [Candidates -> [identity : SessionIdentities, measured : [Tasks -> Nat]]]
    /\ summary \in [complete : BOOLEAN, identity : SessionIdentities]
SessionTypes ==
    /\ workspace \in [Candidates -> Nat]
    /\ inputs \in Nat /\ edits \in Nat /\ inputs <= edits /\ edits <= Edits
    /\ former \in [Candidates -> SUBSET Nat] /\ restored \subseteq Candidates
    /\ OutputTypes /\ job \in [Jobs -> SessionJobs]

(* What a job knows of a workspace is the version it has or one it had.    *)
Known(c, version) == version \in former[c] \cup {workspace[c]}

(* A job works on the output under its lock and, once it has opened it, as *)
(* the identity named there; what it has in its items is on disk, and what *)
(* it saves was measured on the version named, unless that one came back.  *)
Phase(j) == job[j].at
Digests(j) == job[j].identity.digests
Finished(c) == \A t \in Tasks : trials[c][t] # Session!Unmeasured
TrialsAre(c, version) == \A t \in Tasks : trials[c][t] = version
JobFollows(j) ==
    /\ Phase(j) \notin {"idle", "preparing"} => holder = j /\ job[j].identity.inputs <= Edits
    /\ Phase(j) = "naming" => root = "made"
    /\ Phase(j) \in {"preparing", "opening", "naming"} =>
         \A c \in Candidates : job[j].items[c] = "incomplete"
    /\ Phase(j) \notin {"idle", "preparing", "opening", "naming"} =>
         /\ root = "named" /\ named = job[j].identity
         /\ \A c \in Candidates : job[j].items[c] = "complete" => Session!Committed(c)
    /\ Phase(j) # "idle" => \A c \in Candidates : Known(c, Digests(j)[c])
    /\ Phase(j) \in {"measuring", "checking", "saving"} => job[j].current \in Candidates
    /\ Phase(j) = "checking" => Finished(job[j].current)
    /\ Phase(j) = "saving" /\ job[j].current \notin restored =>
         TrialsAre(job[j].current, Digests(j)[job[j].current])

(* A version that did not come back is no former one, and a task measured  *)
(* on another version than the one named was measured after an edit.       *)
SourcesGoOn == \A c \in Candidates : c \notin restored => workspace[c] \notin former[c]
TrialsFollow ==
    \A c \in Candidates, t \in Tasks : trials[c][t] # Session!Unmeasured =>
        /\ root = "named"
        /\ trials[c][t] = named.digests[c] \/ named.digests[c] \in former[c]

(* What is committed was committed under the identity of the output, and a *)
(* complete summary has all of it.                                         *)
ResultsOfNamed ==
    \A c \in Candidates : Session!Committed(c) =>
        /\ root = "named" /\ results[c].identity = named
        /\ c \notin restored => Session!OnNamedSource(c)
SummaryOfResults ==
    summary.complete = TRUE =>
        /\ root = "named" /\ summary.identity = named
        /\ \A c \in Candidates : Session!Committed(c)

OutputIsGood == TrialsFollow /\ ResultsOfNamed /\ SummaryOfResults
SessionInv ==
    /\ SessionTypes /\ SourcesGoOn /\ \A j \in Jobs : JobFollows(j)
    /\ OutputIsGood

LEMMA SessionInit == ASSUME Session!SessionAssumption, Session!Init PROVE SessionInv
<1>1. /\ Session!NoIdentity \in SessionIdentities /\ Session!NoTrials \in [Tasks -> Nat]
      /\ Session!NoResult \in [identity : SessionIdentities, measured : [Tasks -> Nat]]
  BY DEF Session!SessionAssumption, Session!NoIdentity, Session!NoTrials, Session!Unmeasured,
     Session!NoResult, SessionIdentities
<1>2. Session!Idle \in SessionJobs /\ Session!Idle.at = "idle"
  BY <1>1 DEF Session!Idle, SessionJobs, Phases, Session!Incomplete
<1> HIDE DEF Session!Idle, Session!NoIdentity, Session!NoResult
<1>3. SessionTypes
  BY <1>1, <1>2 DEF Session!SessionAssumption, Session!Init, SessionTypes, OutputTypes
<1>4. \A c \in Candidates : ~Session!Committed(c)
  BY DEF Session!Init, Session!Committed
<1>5. SummaryOfResults /\ SourcesGoOn /\ TrialsFollow
  BY DEF Session!Init, SummaryOfResults, SourcesGoOn, TrialsFollow, Session!NoTrials
<1>6. \A j \in Jobs : JobFollows(j)
  BY <1>2 DEF Session!Init, JobFollows, Phase
<1> QED
  BY <1>3, <1>4, <1>5, <1>6 DEF SessionInv, OutputIsGood, ResultsOfNamed

LEMMA SessionResult == SessionInv => CompleteIsMeasured
<1> SUFFICES ASSUME SessionInv, summary.complete PROVE Session!CompleteIsMeasured
  BY DEF CompleteIsMeasured, Session!CompleteIsMeasured
<1>1. summary.complete = TRUE
  BY DEF SessionInv, SessionTypes, OutputTypes
<1> QED
  BY <1>1 DEF SessionInv, OutputIsGood, SummaryOfResults, ResultsOfNamed, Session!CompleteIsMeasured

(* A step of one job leaves the others where they are: one that works on   *)
(* the output holds the lock, and nobody else changes anything there.      *)
LEMMA OtherJobs ==
    ASSUME SessionInv, Session!SessionAssumption, NEW j \in Jobs, NEW k \in Jobs, k # j,
           job'[k] = job[k], UNCHANGED <<workspace, former, restored>>,
           holder \in {j, "nobody"} \/ holder' = holder,
           holder = j \/ UNCHANGED <<root, named, trials, results>>
    PROVE  JobFollows(k)'
<1>1. JobFollows(k)
  BY DEF SessionInv
<1>2. CASE Phase(k) \in {"idle", "preparing"}
  BY <1>1, <1>2 DEF JobFollows, Known, Finished, TrialsAre, Phase, Digests
<1>3. CASE Phase(k) \notin {"idle", "preparing"}
  <2>1. holder = k /\ k # "nobody"
    BY <1>1, <1>3 DEF JobFollows, Session!SessionAssumption
  <2>2. UNCHANGED <<root, named, trials, results>> /\ holder' = holder
    BY <2>1
  <2>3. \A c \in Candidates : Session!Committed(c)' <=> Session!Committed(c)
    BY <2>2 DEF Session!Committed, Session!NoResult, Session!NoIdentity, Session!NoTrials, Session!Unmeasured
  <2> QED
    BY <1>1, <2>1, <2>2, <2>3 DEF JobFollows, Known, Finished, TrialsAre, Phase, Digests
<1> QED
  BY <1>2, <1>3

(* The output and its summary are as good as before if they are as before. *)
LEMMA SameOutput ==
    ASSUME OutputIsGood, UNCHANGED <<former, restored, root, named, trials, results, summary>>
    PROVE  OutputIsGood'
<1>1. \A c \in Candidates : Session!Committed(c)' <=> Session!Committed(c)
  BY DEF Session!Committed, Session!NoResult, Session!NoIdentity, Session!NoTrials, Session!Unmeasured
<1> QED
  BY <1>1 DEF OutputIsGood, TrialsFollow, ResultsOfNamed, SummaryOfResults, Session!OnNamedSource


(* A step of one job keeps the invariant if it keeps what it touches: its  *)
(* own entry, and the output if it holds the lock.                         *)
LEMMA JobMoves ==
    ASSUME SessionInv, Session!SessionAssumption, NEW j \in Jobs, NEW r \in SessionJobs,
           job' = [job EXCEPT ![j] = r], UNCHANGED <<workspace, inputs, edits, former, restored>>,
           holder \in {j, "nobody"} \/ holder' = holder,
           holder = j \/ UNCHANGED <<root, named, trials, results>>,
           OutputTypes', OutputIsGood', JobFollows(j)'
    PROVE  SessionInv'
<1>1. job \in [Jobs -> SessionJobs]
  BY DEF SessionInv, SessionTypes
<1>2. job' \in [Jobs -> SessionJobs] /\ \A k \in Jobs \ {j} : job'[k] = job[k]
  BY <1>1
<1>3. SessionTypes'
  BY <1>2 DEF SessionInv, SessionTypes
<1>4. \A k \in Jobs \ {j} : JobFollows(k)'
  BY <1>2, OtherJobs
<1>5. SourcesGoOn'
  BY DEF SessionInv, SourcesGoOn
<1> QED
  BY <1>3, <1>4, <1>5 DEF SessionInv

LEMMA QuietJob ==
    ASSUME SessionInv, Session!SessionAssumption, NEW j \in Jobs, NEW r \in SessionJobs,
           job' = [job EXCEPT ![j] = r], UNCHANGED <<workspace, inputs, edits, former, restored>>,
           holder \in {j, "nobody"} \/ holder' = holder,
           UNCHANGED <<root, named, trials, results, summary>>, JobFollows(j)'
    PROVE  SessionInv'
<1>1. OutputTypes'
  BY DEF SessionInv, SessionTypes, OutputTypes
<1>2. OutputIsGood'
  BY SameOutput DEF SessionInv
<1> QED
  BY <1>1, <1>2, JobMoves

(* A job that ends is as if it had never run.                              *)
LEMMA IdleJob ==
    /\ Session!SessionAssumption => Session!Idle \in SessionJobs
    /\ \A j \in Jobs : job \in [Jobs -> SessionJobs] /\ job' = [job EXCEPT ![j] = Session!Idle]
         => JobFollows(j)'
<1>1. Session!SessionAssumption => Session!NoIdentity \in SessionIdentities
  BY DEF Session!SessionAssumption, Session!NoIdentity, SessionIdentities
<1>2. Session!SessionAssumption => Session!Idle \in SessionJobs
  BY <1>1 DEF Session!Idle, SessionJobs, Phases, Session!Incomplete
<1>3. Session!Idle.at = "idle"
  BY DEF Session!Idle
<1> QED
  BY <1>2, <1>3 DEF JobFollows, Phase

(* An edit leaves the version it replaces among the former ones.           *)
LEMMA EditKeeps == ASSUME SessionInv, Session!SessionAssumption, Session!Edit PROVE SessionInv'
<1>1. UNCHANGED <<root, named, trials, results, summary, holder, job>>
  BY DEF Session!Edit, Session!disk
<1>2. /\ edits' = edits + 1 /\ edits' <= Edits
      /\ \E version \in 0..edits' :
           Session!EditInputs(version) \/ \E c \in Candidates : Session!EditSource(c, version)
  BY DEF Session!Edit, SessionInv, SessionTypes, Session!SessionAssumption
<1>3. PICK version \in 0..edits' :
         Session!EditInputs(version) \/ \E c \in Candidates : Session!EditSource(c, version)
  BY <1>2
<1>4. version \in Nat /\ version <= edits' /\ edits' \in Nat
  BY <1>2, <1>3 DEF SessionInv, SessionTypes
<1>5. SessionTypes' /\ SourcesGoOn' /\ restored \subseteq restored'
      /\ \A c \in Candidates : /\ former[c] \subseteq former'[c]
                              /\ workspace[c] \in former'[c] \cup {workspace'[c]}
  <2>0. /\ workspace \in [Candidates -> Nat] /\ former \in [Candidates -> SUBSET Nat]
        /\ restored \subseteq Candidates /\ inputs \in Nat /\ inputs <= edits /\ edits \in Nat
        /\ OutputTypes /\ job \in [Jobs -> SessionJobs] /\ SourcesGoOn
    BY DEF SessionInv, SessionTypes
  <2>1. OutputTypes' /\ job' \in [Jobs -> SessionJobs]
    BY <1>1, <2>0 DEF OutputTypes
  <2>2. CASE Session!EditInputs(version)
    BY <1>2, <1>4, <2>0, <2>1, <2>2 DEF Session!EditInputs, SessionTypes, SourcesGoOn
  <2>3. ASSUME NEW c \in Candidates, Session!EditSource(c, version)
        PROVE  /\ SessionTypes' /\ SourcesGoOn' /\ restored \subseteq restored'
               /\ \A d \in Candidates : /\ former[d] \subseteq former'[d]
                                       /\ workspace[d] \in former'[d] \cup {workspace'[d]}
    <3>1. /\ workspace' = [workspace EXCEPT ![c] = version] /\ version # workspace[c]
          /\ former' = [former EXCEPT ![c] = @ \cup {workspace[c]}]
          /\ restored' = IF version \in former[c] THEN restored \cup {c} ELSE restored
          /\ UNCHANGED inputs
      BY <2>3 DEF Session!EditSource
    <3>2. SessionTypes'
      BY <1>2, <1>4, <2>0, <2>1, <3>1 DEF SessionTypes
    <3>3. \A d \in Candidates :
             /\ workspace'[d] = IF d = c THEN version ELSE workspace[d]
             /\ former'[d] = IF d = c THEN former[c] \cup {workspace[c]} ELSE former[d]
      BY <2>0, <3>1
    <3>4. SourcesGoOn'
      BY <2>0, <3>1, <3>3 DEF SourcesGoOn
    <3> QED
      BY <3>1, <3>2, <3>3, <3>4
  <2> QED
    BY <1>3, <2>2, <2>3
<1>6. \A c \in Candidates : Session!Committed(c)' <=> Session!Committed(c)
  BY <1>1 DEF Session!Committed, Session!NoResult, Session!NoIdentity, Session!NoTrials, Session!Unmeasured
<1>7. OutputIsGood'
  BY <1>1, <1>5, <1>6 DEF SessionInv, OutputIsGood, TrialsFollow, ResultsOfNamed, SummaryOfResults,
     Session!OnNamedSource, Session!Unmeasured
<1>8. ASSUME NEW j \in Jobs PROVE JobFollows(j)'
  <2>1. JobFollows(j)
    BY DEF SessionInv
  <2>2. Phase(j) # "idle" => \A c \in Candidates : Known(c, Digests(j)[c])'
    BY <1>1, <1>5, <2>1 DEF JobFollows, Known, Phase, Digests
  <2> QED
    BY <1>1, <1>5, <1>6, <2>1, <2>2
    DEF JobFollows, Known, Finished, TrialsAre, Phase, Digests, Session!Unmeasured
<1> QED
  BY <1>5, <1>7, <1>8 DEF SessionInv

(* What the entry of a job may be turned into.                             *)
Moved(j, phase) == [job[j] EXCEPT !.at = phase]

LEMMA JobMoved ==
    ASSUME SessionInv, NEW j \in Jobs, NEW phase \in Phases
    PROVE  /\ Moved(j, phase) \in SessionJobs
           /\ job' = [job EXCEPT ![j] = Moved(j, phase)] =>
                /\ Phase(j)' = phase /\ Digests(j)' = Digests(j)
                /\ job'[j].identity = job[j].identity /\ job'[j].current = job[j].current
                /\ job'[j].items = job[j].items
<1>1. job[j] \in SessionJobs /\ job \in [Jobs -> SessionJobs]
  BY DEF SessionInv, SessionTypes
<1>2. Moved(j, phase) \in SessionJobs
  BY <1>1 DEF SessionJobs, Moved
<1>3. /\ Moved(j, phase).at = phase /\ Moved(j, phase).identity = job[j].identity
      /\ Moved(j, phase).current = job[j].current /\ Moved(j, phase).items = job[j].items
  BY <1>1 DEF SessionJobs, Moved
<1> HIDE DEF Moved
<1>4. job' = [job EXCEPT ![j] = Moved(j, phase)] => job'[j] = Moved(j, phase)
  BY <1>1
<1> QED
  BY <1>2, <1>3, <1>4 DEF Phase, Digests


LEMMA LaunchKeeps ==
    ASSUME SessionInv, Session!SessionAssumption, NEW j \in Jobs, Session!Launch(j)
    PROVE  SessionInv'
<1>1. PICK resume \in BOOLEAN :
         job' = [job EXCEPT ![j] = [Session!Idle EXCEPT !.at = "preparing", !.resume = resume,
                     !.identity = [digests |-> workspace, inputs |-> 0]]]
  BY Zenon DEF Session!Launch
<1> DEFINE r == [Session!Idle EXCEPT !.at = "preparing", !.resume = resume,
                     !.identity = [digests |-> workspace, inputs |-> 0]]
<1>2. r \in SessionJobs
  BY IdleJob DEF SessionInv, SessionTypes, SessionJobs, SessionIdentities, Phases
<1>3. /\ r.at = "preparing" /\ r.identity.digests = workspace
      /\ \A c \in Candidates : r.items[c] = "incomplete"
  BY IdleJob DEF SessionJobs, Session!Idle, Session!Incomplete
<1> HIDE DEF r
<1>4. job'[j] = r
  BY <1>1 DEF r, SessionInv, SessionTypes
<1>5. workspace' = workspace /\ former' = former
  BY DEF Session!Launch
<1>6. JobFollows(j)'
  BY <1>3, <1>4, <1>5 DEF JobFollows, Known, Finished, TrialsAre, Phase, Digests
<1> QED
  BY <1>1, <1>2, <1>6, QuietJob DEF r, Session!Launch, Session!disk

LEMMA EndKeeps ==
    ASSUME SessionInv, Session!SessionAssumption, NEW j \in Jobs,
           job' = [job EXCEPT ![j] = Session!Idle], UNCHANGED <<workspace, inputs, edits, former, restored>>,
           holder \in {j, "nobody"} \/ holder' = holder,
           UNCHANGED <<root, named, trials, results, summary>>
    PROVE  SessionInv'
  BY IdleJob, QuietJob DEF SessionInv, SessionTypes

LEMMA LockKeeps ==
    ASSUME SessionInv, Session!SessionAssumption, NEW j \in Jobs, Session!Lock(j)
    PROVE  SessionInv'
<1>0. UNCHANGED <<workspace, inputs, edits, former, restored, root, named, trials, results, summary>>
  BY DEF Session!Lock, Session!Outside, Session!disk
<1>1. CASE job' = [job EXCEPT ![j] = Session!Idle] /\ UNCHANGED holder
  BY <1>0, <1>1, EndKeeps
<1>2. CASE /\ holder = "nobody" /\ holder' = j
           /\ job' = [job EXCEPT ![j].identity.inputs = inputs, ![j].at = "opening"]
  <2> DEFINE r == [job[j] EXCEPT !.identity.inputs = inputs, !.at = "opening"]
  <2>1. job[j] \in SessionJobs /\ job \in [Jobs -> SessionJobs] /\ inputs \in Nat /\ inputs <= Edits
    BY DEF SessionInv, SessionTypes, Session!SessionAssumption
  <2>2. r \in SessionJobs
    BY <2>1 DEF SessionJobs, SessionIdentities, Phases
  <2>3. /\ r.at = "opening" /\ r.identity.inputs = inputs
        /\ r.identity.digests = Digests(j) /\ r.items = job[j].items
    BY <2>1 DEF SessionJobs, SessionIdentities, Digests
  <2>4. job' = [job EXCEPT ![j] = r]
    BY <1>2
  <2> HIDE DEF r
  <2>5. job'[j] = r
    BY <2>1, <2>4
  <2>6. \A c \in Candidates : Known(c, Digests(j)[c]) /\ job[j].items[c] = "incomplete"
    BY DEF SessionInv, JobFollows, Session!Lock, Session!At, Phase
  <2>7. JobFollows(j)'
    BY <1>0, <1>2, <2>1, <2>3, <2>5, <2>6 DEF JobFollows, Known, Finished, TrialsAre, Phase, Digests
  <2> QED
    BY <1>0, <1>2, <2>2, <2>4, <2>7, QuietJob
<1> QED
  BY <1>1, <1>2 DEF Session!Lock

LEMMA KillKeeps ==
    ASSUME SessionInv, Session!SessionAssumption, NEW j \in Jobs, Session!Kill(j)
    PROVE  SessionInv'
  BY EndKeeps DEF Session!Kill, Session!Outside, Session!disk

(* The entry of a job that starts on its candidates.                       *)
LEMMA JobBegun ==
    ASSUME SessionInv, NEW j \in Jobs, Session!Begin(j)
    PROVE  \E r \in SessionJobs :
             /\ job' = [job EXCEPT ![j] = r] /\ job'[j] = r
             /\ r.at = "next" /\ r.identity = job[j].identity /\ r.items = job[j].items
<1> DEFINE r == [job[j] EXCEPT !.at = "next", !.left = Candidates]
<1>1. job[j] \in SessionJobs /\ job \in [Jobs -> SessionJobs]
  BY DEF SessionInv, SessionTypes
<1>2. r \in SessionJobs
  BY <1>1 DEF SessionJobs, Phases
<1>3. r.at = "next" /\ r.identity = job[j].identity /\ r.items = job[j].items
  BY <1>1 DEF SessionJobs
<1>4. job' = [job EXCEPT ![j] = r]
  BY DEF Session!Begin
<1> HIDE DEF r
<1>5. job'[j] = r
  BY <1>1, <1>4
<1> QED
  BY <1>2, <1>3, <1>4, <1>5


LEMMA MakeRootKeeps ==
    ASSUME SessionInv, Session!SessionAssumption, NEW j \in Jobs, Session!MakeRoot(j)
    PROVE  SessionInv'
<1>0. /\ UNCHANGED <<workspace, inputs, edits, former, restored, named, trials, results, summary>>
      /\ Phase(j) = "opening"
      /\ holder = j
  BY DEF Session!MakeRoot, Session!Outside, Session!At, Phase, SessionInv, JobFollows
<1>1. CASE root = "absent" /\ root' = "made" /\ Session!Goes(j, "naming") /\ UNCHANGED holder
  <2>1. job' = [job EXCEPT ![j] = Moved(j, "naming")]
    BY <1>1 DEF Session!Goes, Moved
  <2>2. Moved(j, "naming") \in SessionJobs
    BY JobMoved DEF Phases
  <2>3. OutputTypes'
    BY <1>0, <1>1 DEF SessionInv, SessionTypes, OutputTypes
  <2>4. \A c \in Candidates : ~Session!Committed(c)'
    BY <1>0, <1>1 DEF SessionInv, OutputIsGood, ResultsOfNamed, Session!Committed,
       Session!NoResult, Session!NoIdentity, Session!NoTrials, Session!Unmeasured
  <2>5. OutputIsGood'
    BY <1>0, <1>1, <2>4 DEF SessionInv, OutputIsGood, TrialsFollow, ResultsOfNamed, SummaryOfResults,
     Session!OnNamedSource, Session!Unmeasured
  <2>6. /\ Phase(j)' = "naming" /\ Digests(j)' = Digests(j)
        /\ job'[j].identity = job[j].identity /\ job'[j].items = job[j].items
    BY <2>1, JobMoved DEF Phases
  <2>7. JobFollows(j)
    BY DEF SessionInv
  <2>8. JobFollows(j)'
    BY <1>0, <1>1, <2>6, <2>7 DEF JobFollows, Known
  <2> QED
    BY <1>0, <1>1, <2>1, <2>2, <2>3, <2>5, <2>8, JobMoves
<1>2. CASE Session!Release(j) /\ UNCHANGED root
  BY <1>0, <1>2, EndKeeps DEF Session!Release
<1> QED
  BY <1>1, <1>2 DEF Session!MakeRoot

LEMMA NameRootKeeps ==
    ASSUME SessionInv, Session!SessionAssumption, NEW j \in Jobs, Session!NameRoot(j)
    PROVE  SessionInv'
<1>0. /\ UNCHANGED <<workspace, inputs, edits, former, restored, trials, results, summary, holder>> /\ holder = j
      /\ Phase(j) = "naming" /\ root = "made" /\ root' = "named" /\ named' = job[j].identity
  BY DEF Session!NameRoot, Session!Outside, Session!At, Phase, SessionInv, JobFollows
<1>1. PICK r \in SessionJobs :
             /\ job' = [job EXCEPT ![j] = r] /\ job'[j] = r
             /\ r.at = "next" /\ r.identity = job[j].identity /\ r.items = job[j].items
  BY JobBegun DEF Session!NameRoot
<1>2. job[j].identity \in SessionIdentities
  BY DEF SessionInv, SessionTypes, SessionJobs
<1>3. OutputTypes'
  BY <1>0, <1>2 DEF SessionInv, SessionTypes, OutputTypes
<1>4. \A c \in Candidates : ~Session!Committed(c)'
  BY <1>0 DEF SessionInv, OutputIsGood, ResultsOfNamed, Session!Committed, Session!NoResult, Session!NoIdentity, Session!NoTrials, Session!Unmeasured
<1>5. OutputIsGood'
  BY <1>0, <1>4 DEF SessionInv, OutputIsGood, TrialsFollow, ResultsOfNamed, SummaryOfResults,
     Session!OnNamedSource, Session!Unmeasured
<1>6. JobFollows(j)
  BY DEF SessionInv
<1>7. JobFollows(j)'
  BY <1>0, <1>1, <1>6 DEF JobFollows, Known, Finished, TrialsAre, Phase, Digests
<1> QED
  BY <1>0, <1>1, <1>3, <1>5, <1>7, JobMoves

LEMMA OpenRootKeeps ==
    ASSUME SessionInv, Session!SessionAssumption, NEW j \in Jobs, Session!OpenRoot(j)
    PROVE  SessionInv'
<1>0. /\ UNCHANGED <<workspace, inputs, edits, former, restored, root, named, trials, results, summary>> /\ holder = j
      /\ Phase(j) = "opening"
  BY DEF Session!OpenRoot, Session!Outside, Session!disk, Session!At, Phase, SessionInv, JobFollows
<1>1. CASE /\ root = "named" /\ Session!SameIdentity(named, job[j].identity)
           /\ Session!Begin(j) /\ UNCHANGED holder
  <2>1. PICK r \in SessionJobs :
             /\ job' = [job EXCEPT ![j] = r] /\ job'[j] = r
             /\ r.at = "next" /\ r.identity = job[j].identity /\ r.items = job[j].items
    BY <1>1, JobBegun
  <2>2. JobFollows(j)
    BY DEF SessionInv
  <2>3. JobFollows(j)'
    BY <1>0, <1>1, <2>1, <2>2 DEF JobFollows, Known, Finished, TrialsAre, Phase, Digests, Session!SameIdentity
  <2> QED
    BY <1>0, <1>1, <2>1, <2>3, QuietJob
<1>2. CASE Session!Release(j)
  BY <1>0, <1>2, EndKeeps DEF Session!Release
<1> QED
  BY <1>1, <1>2 DEF Session!OpenRoot

(* A step that gives the job another entry of the same identity.           *)
LEMMA JobTurned ==
    ASSUME SessionInv, NEW j \in Jobs, NEW r, r.identity = job[j].identity,
           job' = [job EXCEPT ![j] = r]
    PROVE  /\ Phase(j)' = r.at /\ Digests(j)' = Digests(j) /\ job'[j] = r
           /\ job'[j].identity = job[j].identity /\ job'[j].current = r.current
           /\ job'[j].items = r.items
<1>1. job'[j] = r
  BY DEF SessionInv, SessionTypes
<1> QED
  BY <1>1 DEF Phase, Digests


(* The entries of a job and its candidates, as the leaves below need them. *)
LEMMA EntryOf ==
    ASSUME SessionInv, NEW j \in Jobs
    PROVE  /\ job[j] \in SessionJobs /\ JobFollows(j)
           /\ job[j].items \in [Candidates -> {"incomplete", "complete"}]
           /\ job[j].left \in SUBSET Candidates
           /\ job[j].identity \in SessionIdentities
           /\ \A c \in Candidates : workspace[c] \in Nat /\ Digests(j)[c] \in Nat
  BY DEF SessionInv, SessionTypes, SessionJobs, SessionIdentities, Digests

(* A job that works under the lock goes on without touching the output.    *)
LEMMA WorkGoesOn ==
    ASSUME SessionInv, Session!SessionAssumption, NEW j \in Jobs, NEW r \in SessionJobs,
           r.identity = job[j].identity, job' = [job EXCEPT ![j] = r],
           Session!Outside, UNCHANGED <<root, named, trials, results, summary, holder>>,
           Phase(j) \in {"next", "measuring", "checking", "saving", "summing"},
           \/ r.at \in {"next", "summing"} /\
              \A c \in Candidates : r.items[c] = "complete" => Session!Committed(c)
           \/ r.at = "measuring" /\ r.current \in Candidates /\ r.items = job[j].items
           \/ /\ r.at = "checking" /\ r.current \in Candidates /\ r.items = job[j].items
              /\ Finished(r.current)
           \/ /\ r.at = "saving" /\ r.current \in Candidates /\ r.items = job[j].items
              /\ r.current \notin restored => TrialsAre(r.current, Digests(j)[r.current])
    PROVE  SessionInv'
<1>0. UNCHANGED <<workspace, inputs, edits, former, restored>>
  BY DEF Session!Outside
<1>1. /\ Phase(j)' = r.at /\ Digests(j)' = Digests(j) /\ job'[j].current = r.current
      /\ job'[j].identity = job[j].identity
      /\ job'[j].items = r.items
  BY JobTurned
<1>2. JobFollows(j)
  BY DEF SessionInv
<1>3. \A c \in Candidates : Session!Committed(c)' <=> Session!Committed(c)
  BY DEF Session!Committed, Session!NoResult, Session!NoIdentity, Session!NoTrials, Session!Unmeasured
<1>4. \A c \in Candidates : r.items[c] = "complete" => Session!Committed(c)
  BY <1>2 DEF JobFollows
<1>5. JobFollows(j)'
  BY <1>0, <1>1, <1>2, <1>3, <1>4 DEF JobFollows, Known, Finished, TrialsAre, Session!Unmeasured
<1> QED
  BY <1>0, <1>5, QuietJob

LEMMA TakeKeeps ==
    ASSUME SessionInv, Session!SessionAssumption, NEW j \in Jobs, NEW c \in Candidates,
           Session!Take(j, c)
    PROVE  SessionInv'
<1>0. /\ Session!Outside /\ UNCHANGED <<root, named, trials, results, summary, holder>> /\ Phase(j) = "next"
  BY DEF Session!Take, Session!disk, Session!At, Phase
<1>1. /\ job[j] \in SessionJobs /\ JobFollows(j) /\ job[j].left \in SUBSET Candidates
      /\ job[j].items \in [Candidates -> {"incomplete", "complete"}]
  BY EntryOf
<1>2. \A d \in Candidates : job[j].items[d] = "complete" => Session!Committed(d)
  BY <1>0, <1>1 DEF JobFollows
<1>3. CASE job' = [job EXCEPT ![j].left = @ \ {c}, ![j].at = "summing"]
  <2> DEFINE r == [job[j] EXCEPT !.left = @ \ {c}, !.at = "summing"]
  <2>1. r \in SessionJobs /\ r.identity = job[j].identity /\ r.at = "summing" /\ r.items = job[j].items
    BY <1>1 DEF SessionJobs, Phases
  <2>2. job' = [job EXCEPT ![j] = r]
    BY <1>3
  <2> HIDE DEF r
  <2> QED
    BY <1>0, <1>2, <2>1, <2>2, WorkGoesOn
<1>4. ASSUME NEW status \in {"incomplete", "complete"}, status = "complete" => Session!Committed(c),
             job' = [job EXCEPT ![j].left = @ \ {c}, ![j].at = "summing", ![j].items[c] = status]
      PROVE  SessionInv'
  <2> DEFINE items == [job[j].items EXCEPT ![c] = status]
             r == [job[j] EXCEPT !.left = @ \ {c}, !.at = "summing", !.items = items]
  <2>1. /\ items \in [Candidates -> {"incomplete", "complete"}]
        /\ \A d \in Candidates : items[d] = "complete" => Session!Committed(d)
    BY <1>1, <1>2, <1>4
  <2>2. job' = [job EXCEPT ![j] = r]
    BY <1>4, <1>1 DEF SessionJobs
  <2> HIDE DEF items
  <2>3. r \in SessionJobs /\ r.identity = job[j].identity /\ r.at = "summing" /\ r.items = items
    BY <1>1, <2>1 DEF SessionJobs, Phases
  <2> HIDE DEF r
  <2> QED
    BY <1>0, <2>1, <2>2, <2>3, WorkGoesOn
<1>5. CASE job' = [job EXCEPT ![j].left = @ \ {c}, ![j].current = c, ![j].at = "measuring"]
  <2> DEFINE r == [job[j] EXCEPT !.left = @ \ {c}, !.current = c, !.at = "measuring"]
  <2>1. /\ r \in SessionJobs /\ r.identity = job[j].identity /\ r.at = "measuring"
        /\ r.items = job[j].items /\ r.current = c
    BY <1>1 DEF SessionJobs, Phases
  <2>2. job' = [job EXCEPT ![j] = r]
    BY <1>5
  <2> HIDE DEF r
  <2> QED
    BY <1>0, <2>1, <2>2, WorkGoesOn
<1>6. \/ job' = [job EXCEPT ![j].left = @ \ {c}, ![j].at = "summing"]
      \/ \E status \in {"incomplete", "complete"} :
            /\ status = "complete" => Session!Committed(c)
            /\ job' = [job EXCEPT ![j].left = @ \ {c}, ![j].at = "summing", ![j].items[c] = status]
      \/ job' = [job EXCEPT ![j].left = @ \ {c}, ![j].current = c, ![j].at = "measuring"]
  <2>1. CASE ~Session!Unchanged(j, c)
    BY <2>1 DEF Session!Take
  <2>2. CASE Session!Unchanged(j, c) /\ Session!Committed(c)
    <3> DEFINE status == IF results[c].identity = job[j].identity THEN "complete" ELSE "incomplete"
    <3>1. job' = [job EXCEPT ![j].left = @ \ {c}, ![j].at = "summing", ![j].items[c] = status]
      BY <2>2 DEF Session!Take, Session!Complete, Session!Incomplete
    <3>2. status \in {"incomplete", "complete"}
      OBVIOUS
    <3> QED
      BY <2>2, <3>1, <3>2
  <2>3. CASE Session!Unchanged(j, c) /\ ~Session!Committed(c)
    BY <2>3 DEF Session!Take
  <2> QED
    BY <2>1, <2>2, <2>3
<1> QED
  BY <1>3, <1>4, <1>5, <1>6


(* The entry of a job that settles its candidate.                          *)
LEMMA JobSettled ==
    ASSUME SessionInv, NEW j \in Jobs, NEW c \in Candidates,
           NEW status \in {"incomplete", "complete"}, Session!Settled(j, c, status)
    PROVE  \E r \in SessionJobs :
             /\ job' = [job EXCEPT ![j] = r] /\ r.identity = job[j].identity /\ r.at = "summing"
             /\ r.items = [job[j].items EXCEPT ![c] = status]
<1> DEFINE items == [job[j].items EXCEPT ![c] = status]
           r == [job[j] EXCEPT !.at = "summing", !.items = items]
<1>1. /\ job[j] \in SessionJobs /\ job[j].items \in [Candidates -> {"incomplete", "complete"}]
  BY EntryOf
<1>2. items \in [Candidates -> {"incomplete", "complete"}]
  BY <1>1
<1>3. job' = [job EXCEPT ![j] = r]
  BY <1>1 DEF Session!Settled, SessionJobs
<1> HIDE DEF items
<1>4. r \in SessionJobs /\ r.identity = job[j].identity /\ r.at = "summing" /\ r.items = items
  BY <1>1, <1>2 DEF SessionJobs, Phases
<1> HIDE DEF r
<1> QED
  BY <1>3, <1>4 DEF items

LEMMA GiveUpKeeps ==
    ASSUME SessionInv, Session!SessionAssumption, NEW j \in Jobs,
           Session!Settled(j, job[j].current, "incomplete"),
           Phase(j) \in {"measuring", "checking"},
           Session!Outside, UNCHANGED <<root, named, trials, results, summary, holder>>
    PROVE  SessionInv'
<1>1. /\ job[j] \in SessionJobs /\ JobFollows(j)
      /\ job[j].items \in [Candidates -> {"incomplete", "complete"}]
  BY EntryOf
<1>2. job[j].current \in Candidates
  BY <1>1 DEF JobFollows
<1>3. \A d \in Candidates : job[j].items[d] = "complete" => Session!Committed(d)
  BY <1>1 DEF JobFollows
<1>4. PICK r \in SessionJobs :
             /\ job' = [job EXCEPT ![j] = r] /\ r.identity = job[j].identity /\ r.at = "summing"
             /\ r.items = [job[j].items EXCEPT ![job[j].current] = "incomplete"]
  BY <1>2, JobSettled
<1>5. \A d \in Candidates : r.items[d] = "complete" => Session!Committed(d)
  BY <1>1, <1>2, <1>3, <1>4
<1> QED
  BY <1>4, <1>5, WorkGoesOn

LEMMA MeasureKeeps ==
    ASSUME SessionInv, Session!SessionAssumption, NEW j \in Jobs, NEW t \in Tasks,
           Session!Measure(j, t)
    PROVE  SessionInv'
<1> DEFINE c == job[j].current
<1>0. /\ UNCHANGED <<workspace, inputs, edits, former, restored, root, named, results, summary, holder, job>>
      /\ Phase(j) = "measuring" /\ trials' = [trials EXCEPT ![c][t] = workspace[c]]
  BY DEF Session!Measure, Session!Outside, Session!At, Phase
<1>1. /\ JobFollows(j) /\ c \in Candidates /\ holder = j /\ root = "named"
      /\ Known(c, named.digests[c]) /\ workspace[c] \in Nat /\ trials \in [Candidates -> [Tasks -> Nat]]
  BY <1>0, EntryOf DEF JobFollows, Digests, SessionInv, SessionTypes, OutputTypes
<1> HIDE DEF c
<1>2. /\ trials' \in [Candidates -> [Tasks -> Nat]] /\ trials'[c][t] = workspace[c]
      /\ \A d \in Candidates, u \in Tasks : d # c \/ u # t => trials'[d][u] = trials[d][u]
  BY <1>0, <1>1
<1>3. SessionTypes' /\ SourcesGoOn'
  BY <1>0, <1>2 DEF SessionInv, SessionTypes, OutputTypes, SourcesGoOn
<1>4. \A d \in Candidates : Session!Committed(d)' <=> Session!Committed(d)
  BY <1>0 DEF Session!Committed, Session!NoResult, Session!NoIdentity, Session!NoTrials, Session!Unmeasured
<1>5. OutputIsGood'
  <2>1. TrialsFollow'
    BY <1>0, <1>1, <1>2 DEF SessionInv, OutputIsGood, TrialsFollow, Known, Session!Unmeasured
  <2> QED
    BY <1>0, <1>4, <2>1 DEF SessionInv, OutputIsGood, TrialsFollow, ResultsOfNamed, SummaryOfResults,
     Session!OnNamedSource, Session!Unmeasured
<1>6. ASSUME NEW k \in Jobs PROVE JobFollows(k)'
  <2>1. JobFollows(k)
    BY DEF SessionInv
  <2>2. Phase(k) \notin {"checking", "saving"}
    BY <1>0, <1>1, <2>1 DEF JobFollows
  <2> QED
    BY <1>0, <1>4, <2>1, <2>2 DEF JobFollows, Known, Phase, Digests
<1> QED
  BY <1>3, <1>5, <1>6 DEF SessionInv

LEMMA MeasuredKeeps ==
    ASSUME SessionInv, Session!SessionAssumption, NEW j \in Jobs,
           Session!Measured(j) \/ Session!TaskFails(j)
    PROVE  SessionInv'
<1>0. /\ Session!Outside /\ UNCHANGED <<root, named, trials, results, summary, holder>>
      /\ Phase(j) = "measuring"
  BY DEF Session!Measured, Session!TaskFails, Session!disk, Session!At, Phase
<1>1. job[j] \in SessionJobs /\ JobFollows(j) /\ job[j].current \in Candidates
  BY <1>0, EntryOf DEF JobFollows
<1>2. CASE Session!Measured(j)
  <2> DEFINE r == Moved(j, "checking")
  <2>1. job' = [job EXCEPT ![j] = r]
    BY <1>2 DEF Session!Measured, Session!Goes, Moved
  <2>2. /\ r \in SessionJobs /\ r.at = "checking" /\ r.identity = job[j].identity
        /\ r.items = job[j].items /\ r.current = job[j].current
    BY <1>1 DEF Moved, SessionJobs, Phases
  <2>3. Finished(job[j].current)
    BY <1>2 DEF Session!Measured, Session!Unfinished, Finished
  <2> HIDE DEF r
  <2> QED
    BY <1>0, <1>1, <2>1, <2>2, <2>3, WorkGoesOn
<1>3. CASE Session!TaskFails(j)
  BY <1>0, <1>3, GiveUpKeeps DEF Session!TaskFails, Session!Incomplete
<1> QED
  BY <1>2, <1>3

LEMMA CheckAgainKeeps ==
    ASSUME SessionInv, Session!SessionAssumption, NEW j \in Jobs, Session!CheckAgain(j)
    PROVE  SessionInv'
<1>0. Session!Outside /\ UNCHANGED <<root, named, trials, results, summary, holder>> /\ Phase(j) = "checking"
  BY DEF Session!CheckAgain, Session!disk, Session!At, Phase
<1>1. job[j] \in SessionJobs /\ JobFollows(j) /\ job[j].current \in Candidates
  BY <1>0, EntryOf DEF JobFollows
<1>2. CASE Session!SourceKept(j) /\ Session!Goes(j, "saving")
  <2> DEFINE r == Moved(j, "saving")
  <2>1. job' = [job EXCEPT ![j] = r]
    BY <1>2 DEF Session!Goes, Moved
  <2>2. /\ r \in SessionJobs /\ r.at = "saving" /\ r.identity = job[j].identity
        /\ r.items = job[j].items /\ r.current = job[j].current
    BY <1>1 DEF Moved, SessionJobs, Phases
  <2>3. job[j].current \notin restored => TrialsAre(job[j].current, Digests(j)[job[j].current])
    <3>1. workspace[job[j].current] = named.digests[job[j].current]
      BY <1>0, <1>1, <1>2 DEF Session!SourceKept, Session!Unchanged, JobFollows
    <3>2. Finished(job[j].current) /\ Digests(j) = named.digests
      BY <1>0, <1>1 DEF JobFollows, Digests
    <3>3. ASSUME job[j].current \notin restored
          PROVE  TrialsAre(job[j].current, named.digests[job[j].current])
      <4>1. named.digests[job[j].current] \notin former[job[j].current]
        BY <1>1, <3>1, <3>3 DEF SessionInv, SourcesGoOn
      <4> QED
        BY <1>1, <3>2, <4>1 DEF SessionInv, OutputIsGood, TrialsFollow, Finished, TrialsAre
    <3> QED
      BY <3>2, <3>3
  <2> HIDE DEF r
  <2>4. r.current \notin restored => TrialsAre(r.current, Digests(j)[r.current])
    BY <2>2, <2>3
  <2> QED
    BY <1>0, <1>1, <2>1, <2>2, <2>4, WorkGoesOn
<1>3. CASE Session!Settled(j, job[j].current, "incomplete")
  BY <1>0, <1>3, GiveUpKeeps
<1> QED
  BY <1>2, <1>3 DEF Session!CheckAgain, Session!Incomplete

LEMMA SaveResultKeeps ==
    ASSUME SessionInv, Session!SessionAssumption, NEW j \in Jobs, Session!SaveResult(j)
    PROVE  SessionInv'
<1> DEFINE c == job[j].current
           entered == [identity |-> job[j].identity, measured |-> trials[c]]
<1>0. /\ UNCHANGED <<workspace, inputs, edits, former, restored, root, named, trials, summary, holder>> /\ Phase(j) = "saving"
      /\ results' = [results EXCEPT ![c] = entered] /\ Session!Settled(j, c, "complete")
  BY DEF Session!SaveResult, Session!Outside, Session!At, Phase, Session!Complete
<1>1. /\ JobFollows(j) /\ job[j].items \in [Candidates -> {"incomplete", "complete"}]
      /\ job[j].identity \in SessionIdentities
  BY EntryOf
<1>2. /\ c \in Candidates /\ holder = j /\ root = "named" /\ named = job[j].identity
      /\ job[j].identity.inputs <= Edits /\ trials[c] \in [Tasks -> Nat]
      /\ c \notin restored => TrialsAre(c, named.digests[c])
  BY <1>0, <1>1 DEF JobFollows, Digests, SessionInv, SessionTypes, OutputTypes
<1>3. entered # Session!NoResult
  <2>1. entered.identity.inputs # Edits + 1
    BY <1>1, <1>2 DEF SessionIdentities, Session!SessionAssumption
  <2>2. Session!NoResult.identity.inputs = Edits + 1
    BY DEF Session!NoResult, Session!NoIdentity, Session!NoTrials, Session!Unmeasured
  <2> QED
    BY <2>1, <2>2
<1>4. /\ entered \in [identity : SessionIdentities, measured : [Tasks -> Nat]]
      /\ entered.identity = named
      /\ c \notin restored => \A t \in Tasks : entered.measured[t] = named.digests[c]
  BY <1>1, <1>2 DEF TrialsAre
<1> HIDE DEF entered
<1>5. OutputTypes'
  BY <1>0, <1>4 DEF SessionInv, SessionTypes, OutputTypes
<1>6. /\ results'[c] = entered
      /\ \A d \in Candidates : d # c => results'[d] = results[d]
  BY <1>0, <1>2 DEF SessionInv, SessionTypes, OutputTypes
<1>7. \A d \in Candidates : Session!Committed(d)' <=> d = c \/ Session!Committed(d)
  BY <1>3, <1>6 DEF Session!Committed, Session!NoResult, Session!NoIdentity, Session!NoTrials, Session!Unmeasured
<1>8. ResultsOfNamed'
  BY <1>0, <1>2, <1>4, <1>6, <1>7 DEF SessionInv, OutputIsGood, ResultsOfNamed, Session!OnNamedSource
<1>9. OutputIsGood'
  BY <1>0, <1>7, <1>8 DEF SessionInv, OutputIsGood, SummaryOfResults, TrialsFollow, Session!Unmeasured
<1>10. PICK r \in SessionJobs :
             /\ job' = [job EXCEPT ![j] = r] /\ r.identity = job[j].identity /\ r.at = "summing"
             /\ r.items = [job[j].items EXCEPT ![c] = "complete"]
  BY <1>0, <1>2, JobSettled
<1>11. /\ Phase(j)' = "summing" /\ Digests(j)' = Digests(j) /\ job'[j].items = r.items
       /\ job'[j].identity = job[j].identity
  BY <1>10, JobTurned
<1>12. \A d \in Candidates : r.items[d] = "complete" => d = c \/ job[j].items[d] = "complete"
  BY <1>1, <1>10
<1>13. \A d \in Candidates : r.items[d] = "complete" => Session!Committed(d)'
  BY <1>0, <1>1, <1>7, <1>12 DEF JobFollows
<1> HIDE DEF c
<1>14. JobFollows(j)'
  BY <1>0, <1>1, <1>2, <1>11, <1>13 DEF JobFollows, Known
<1> QED
  BY <1>0, <1>2, <1>5, <1>9, <1>10, <1>14, JobMoves

LEMMA SaveSummaryKeeps ==
    ASSUME SessionInv, Session!SessionAssumption, NEW j \in Jobs, Session!SaveSummary(j)
    PROVE  SessionInv'
<1>0. /\ UNCHANGED <<workspace, inputs, edits, former, restored, root, named, trials, results, holder>> /\ Phase(j) = "summing"
      /\ summary' = [complete |-> FALSE, identity |-> job[j].identity] /\ Session!Goes(j, "next")
  BY DEF Session!SaveSummary, Session!Outside, Session!At, Phase
<1>1. /\ JobFollows(j) /\ job[j].identity \in SessionIdentities
  BY EntryOf
<1>2. OutputTypes'
  BY <1>0, <1>1 DEF SessionInv, SessionTypes, OutputTypes
<1>3. \A d \in Candidates : Session!Committed(d)' <=> Session!Committed(d)
  BY <1>0 DEF Session!Committed, Session!NoResult, Session!NoIdentity, Session!NoTrials, Session!Unmeasured
<1>4. OutputIsGood'
  BY <1>0, <1>3 DEF SessionInv, OutputIsGood, TrialsFollow, ResultsOfNamed, SummaryOfResults,
     Session!OnNamedSource, Session!Unmeasured
<1>5. job' = [job EXCEPT ![j] = Moved(j, "next")]
  BY <1>0 DEF Session!Goes, Moved
<1>6. /\ Moved(j, "next") \in SessionJobs /\ Phase(j)' = "next" /\ Digests(j)' = Digests(j)
      /\ job'[j].identity = job[j].identity /\ job'[j].items = job[j].items
  BY <1>5, JobMoved DEF Phases
<1>7. JobFollows(j)'
  BY <1>0, <1>1, <1>3, <1>6 DEF JobFollows, Known
<1> QED
  BY <1>0, <1>2, <1>4, <1>5, <1>6, <1>7, JobMoves

LEMMA FinishKeeps ==
    ASSUME SessionInv, Session!SessionAssumption, NEW j \in Jobs, Session!Finish(j)
    PROVE  SessionInv'
<1>0. /\ UNCHANGED <<workspace, inputs, edits, former, restored, root, named, trials, results>> /\ Phase(j) = "next"
      /\ job' = [job EXCEPT ![j] = Session!Idle]
  BY DEF Session!Finish, Session!Release, Session!Outside, Session!At, Phase
<1>1. JobFollows(j) /\ job[j].identity \in SessionIdentities
  BY EntryOf
<1>2. /\ holder = j /\ root = "named" /\ named = job[j].identity
      /\ \A c \in Candidates : job[j].items[c] = "complete" => Session!Committed(c)
  BY <1>0, <1>1 DEF JobFollows
<1>3. /\ summary' \in [complete : BOOLEAN, identity : SessionIdentities]
      /\ summary'.identity = job[j].identity
      /\ summary'.complete = TRUE => \A c \in Candidates : job[j].items[c] = "complete"
  BY <1>1 DEF Session!Finish, Session!Complete
<1>4. \A c \in Candidates : Session!Committed(c)' <=> Session!Committed(c)
  BY <1>0 DEF Session!Committed, Session!NoResult, Session!NoIdentity, Session!NoTrials, Session!Unmeasured
<1>5. OutputTypes'
  BY <1>0, <1>3 DEF SessionInv, SessionTypes, OutputTypes
<1>6. OutputIsGood'
  BY <1>0, <1>2, <1>3, <1>4 DEF SessionInv, OutputIsGood, TrialsFollow, ResultsOfNamed, SummaryOfResults,
     Session!OnNamedSource, Session!Unmeasured
<1>7. Session!Idle \in SessionJobs /\ JobFollows(j)'
  BY <1>0, IdleJob DEF SessionInv, SessionTypes
<1> QED
  BY <1>0, <1>2, <1>5, <1>6, <1>7, JobMoves

LEMMA SessionKeeps ==
    ASSUME SessionInv, Session!SessionAssumption, Session!Next \/ UNCHANGED sessionVars
    PROVE  SessionInv'
<1>1. CASE UNCHANGED sessionVars
  <2>1. UNCHANGED <<workspace, inputs, edits, former, restored, root, named, trials, results, summary, holder, job>>
    BY <1>1 DEF sessionVars
  <2>2. SessionTypes' /\ SourcesGoOn'
    BY <2>1 DEF SessionInv, SessionTypes, OutputTypes, SourcesGoOn
  <2>3. OutputIsGood'
    BY <2>1, SameOutput DEF SessionInv
  <2>4. \A c \in Candidates : Session!Committed(c)' <=> Session!Committed(c)
    BY <2>1 DEF Session!Committed, Session!NoResult, Session!NoIdentity, Session!NoTrials, Session!Unmeasured
  <2>5. \A j \in Jobs : JobFollows(j)'
    BY <2>1, <2>4 DEF SessionInv, JobFollows, Known, Finished, TrialsAre, Phase, Digests,
       Session!Unmeasured
  <2> QED
    BY <2>2, <2>3, <2>5 DEF SessionInv
<1> QED
  BY <1>1, EditKeeps, LaunchKeeps, LockKeeps, MakeRootKeeps, NameRootKeeps, OpenRootKeeps,
     TakeKeeps, MeasureKeeps, MeasuredKeeps, CheckAgainKeeps, SaveResultKeeps, SaveSummaryKeeps, FinishKeeps,
     KillKeeps DEF Session!Next

(* A session that calls itself complete measured every candidate as it was *)
(* named, for any number of jobs, candidates, launches, kills and edits.   *)
THEOREM CompleteStaysMeasured == Spec => []CompleteIsMeasured
<1>1. Init => SessionInv
  BY SessionInit, Assumptions DEF Init
<1>2. SessionInv /\ [Next]_evaluation => SessionInv'
  BY SessionKeeps, Assumptions, EvaluationStep
<1> QED
  BY <1>1, <1>2, SessionResult, PTL DEF Spec

-----------------------------------------------------------------------------
(* The sealed final                                                        *)

FinalKinds == {"normal", "recovery"}
FinalSteps == {"claim", "start", "enter", "sealed", "publish", "close", "complete", "fail", "failed"}
Marks == {"started", "completed", "failed"}
FinalRecords == [attempt : {"none"} \cup FinalKinds, at : {"none"} \cup Marks]
FinalProcs == [at : FinalSteps, pop : Pops, kind : FinalKinds, seen : FinalRecords]

FinalTypes ==
    /\ public \in [Pops -> FinalRecords] /\ branch \in [Pops -> FinalRecords]
    /\ claims \in [Pops -> SUBSET FinalKinds] /\ touched \in [Pops -> SUBSET FinalKinds]
    /\ report \in [Pops -> BOOLEAN]
    /\ proc \in [Finalizers -> FinalProcs \cup {Final!Gone}]

(* A process works on a population; it is past its claim once it has the   *)
(* claim file of its kind.                                                 *)
Works(f, p) == ~Final!Idle(f) /\ proc[f].pop = p
Past(f, p) == Works(f, p) /\ proc[f].at # "claim"

(* The normal attempt had its claim and no process works for it any more.  *)
NormalOver(p) ==
    /\ "normal" \in claims[p]
    /\ \A f \in Finalizers : Past(f, p) => proc[f].kind = "recovery"

FailedNormal == [attempt |-> "normal", at |-> "failed"]

(* One process at most is past its claim, and a recovery comes after the   *)
(* normal attempt is over.                                                 *)
OneAtWork(p) ==
    /\ \A f \in Finalizers : Past(f, p) => proc[f].kind \in claims[p]
    /\ \A f, g \in Finalizers : Past(f, p) /\ Past(g, p) => f = g
    /\ "recovery" \in claims[p] => NormalOver(p)
    /\ \A f \in Finalizers : Works(f, p) /\ proc[f].kind = "recovery" => NormalOver(p)
    /\ public[p] = FailedNormal => NormalOver(p)

(* A recovery unseals only what the normal attempt has not.                *)
TouchedIsClaimed(p) ==
    /\ touched[p] \subseteq claims[p]
    /\ "recovery" \in claims[p] => "normal" \notin touched[p]

(* A process completes an attempt that is published and recorded in the    *)
(* branch; after that no process can come past its claim any more.         *)
CompletedLast(p) ==
    /\ \A f \in Finalizers : Works(f, p) /\ proc[f].at \in {"close", "complete"} => report[p]
    /\ \A f \in Finalizers :
          Works(f, p) /\ proc[f].at = "complete" => branch[p] = Final!Record(f, "completed")
    /\ public[p].at = "completed" =>
         /\ report[p] /\ branch[p] = public[p]
         /\ \A f \in Finalizers : ~Past(f, p)
         /\ "normal" \in claims[p]
         /\ "recovery" \in claims[p] \/ \A f \in Finalizers : Works(f, p) => proc[f].kind = "normal"

FinalOf(p) == OneAtWork(p) /\ TouchedIsClaimed(p) /\ CompletedLast(p)
FinalInv == FinalTypes /\ \A p \in Pops : FinalOf(p)

LEMMA FinalInit == ASSUME Final!Init PROVE FinalInv
<1>1. \A f \in Finalizers : Final!Idle(f)
  BY DEF Final!Init, Final!Idle
<1>2. FinalTypes
  BY DEF Final!Init, FinalTypes, FinalRecords, FinalKinds, Marks, Final!None
<1>3. \A p \in Pops : public[p] = Final!None /\ claims[p] = {} /\ touched[p] = {}
  BY DEF Final!Init
<1>4. Final!None.at = "none" /\ FailedNormal.at = "failed"
  BY DEF Final!None, FailedNormal
<1> QED
  BY <1>1, <1>2, <1>3, <1>4 DEF FinalInv, FinalOf, OneAtWork, TouchedIsClaimed, CompletedLast,
     Works, Past

LEMMA FinalResult == FinalInv => FinalIsSound
<1> SUFFICES ASSUME FinalInv PROVE Final!UnsealedOnce /\ Final!CompletedIsReported
  BY DEF FinalIsSound
<1>1. Final!CompletedIsReported
  BY DEF FinalInv, FinalOf, CompletedLast, Final!CompletedIsReported
<1>2. ASSUME NEW p \in Pops PROVE \E k \in FinalKinds : touched[p] \subseteq {k}
  BY DEF FinalInv, FinalOf, TouchedIsClaimed, FinalTypes, FinalKinds
<1>3. ASSUME NEW k, NEW S, S \subseteq {k} PROVE Final!Cardinality(S) <= 1
  <2>1. Final!Cardinality(S) = Cardinality(S)
    BY DEF Final!Cardinality, Cardinality
  <2>2. S = {} \/ S = {k}
    BY <1>3
  <2>3. Cardinality({}) = 0 /\ Cardinality({k}) = 1
    BY FS_EmptySet, FS_Singleton
  <2>4. Cardinality(S) <= 1
    BY <2>2, <2>3
  <2> QED
    BY <2>1, <2>4, Zenon
<1> QED
  BY <1>1, <1>2, <1>3 DEF Final!UnsealedOnce

(* What a process says of itself, and what its moves leave of it.          *)
LEMMA ProcOf ==
    ASSUME FinalTypes, NEW f \in Finalizers, ~Final!Idle(f)
    PROVE  /\ proc[f] \in FinalProcs /\ proc[f].pop \in Pops /\ proc[f].kind \in FinalKinds
           /\ proc[f].at \in FinalSteps /\ proc[f].seen \in FinalRecords
  BY DEF FinalTypes, Final!Idle, FinalProcs

LEMMA BusyProcs ==
    ASSUME NEW r \in FinalProcs PROVE r # Final!Gone
<1>1. r.at # "idle"
  BY DEF FinalProcs, FinalSteps
<1> QED
  BY <1>1 DEF Final!Gone

LEMMA ProcMoves ==
    ASSUME FinalTypes, NEW f \in Finalizers, NEW r \in FinalProcs, proc' = [proc EXCEPT ![f] = r]
    PROVE  /\ proc' \in [Finalizers -> FinalProcs \cup {Final!Gone}]
           /\ ~Final!Idle(f)' /\ proc'[f] = r
           /\ \A g \in Finalizers : g # f =>
                proc'[g] = proc[g] /\ (Final!Idle(g)' <=> Final!Idle(g))
  BY BusyProcs DEF FinalTypes, Final!Idle, Final!Gone

LEMMA ProcGoes ==
    ASSUME FinalTypes, NEW f \in Finalizers, ~Final!Idle(f), NEW step \in FinalSteps,
           Final!Goto(f, step)
    PROVE  /\ proc' \in [Finalizers -> FinalProcs \cup {Final!Gone}]
           /\ ~Final!Idle(f)' /\ proc'[f].at = step
           /\ proc'[f].pop = proc[f].pop /\ proc'[f].kind = proc[f].kind
           /\ \A g \in Finalizers : g # f =>
                proc'[g] = proc[g] /\ (Final!Idle(g)' <=> Final!Idle(g))
<1> DEFINE r == [proc[f] EXCEPT !.at = step]
<1>1. r \in FinalProcs /\ r.at = step /\ r.pop = proc[f].pop /\ r.kind = proc[f].kind
  BY ProcOf DEF FinalProcs
<1>2. proc' = [proc EXCEPT ![f] = r]
  BY DEF Final!Goto
<1> HIDE DEF r
<1> QED
  BY <1>1, <1>2, ProcMoves

LEMMA ProcLeaves ==
    ASSUME FinalTypes, NEW f \in Finalizers, Final!Leave(f)
    PROVE  /\ proc' \in [Finalizers -> FinalProcs \cup {Final!Gone}]
           /\ Final!Idle(f)'
           /\ \A g \in Finalizers : g # f =>
                proc'[g] = proc[g] /\ (Final!Idle(g)' <=> Final!Idle(g))
  BY DEF FinalTypes, Final!Idle, Final!Gone, Final!Leave

(* The populations a step is not about are left as they are.               *)
LEMMA Elsewhere ==
    ASSUME NEW p \in Pops, FinalOf(p), NEW f \in Finalizers,
           Final!Idle(f) \/ proc[f].pop # p, Final!Idle(f)' \/ proc'[f].pop # p,
           \A g \in Finalizers : g # f =>
                proc'[g] = proc[g] /\ (Final!Idle(g)' <=> Final!Idle(g)),
           public'[p] = public[p], branch'[p] = branch[p], claims'[p] = claims[p],
           touched'[p] = touched[p], report'[p] = report[p]
    PROVE  FinalOf(p)'
<1>1. \A g \in Finalizers : /\ (Works(g, p)' <=> Works(g, p)) /\ (Past(g, p)' <=> Past(g, p))
                            /\ Works(g, p) => proc'[g] = proc[g]
  BY DEF Works, Past
<1>2. NormalOver(p)' <=> NormalOver(p)
  BY <1>1 DEF NormalOver, Past
<1>3. OneAtWork(p)'
  BY <1>1, <1>2 DEF FinalOf, OneAtWork, Past, FailedNormal
<1>4. CompletedLast(p)'
  BY <1>1 DEF FinalOf, CompletedLast, Final!Record
<1> QED
  BY <1>3, <1>4 DEF FinalOf, TouchedIsClaimed


(* The steps of a process, each with what it does to its population.       *)
LEMMA LaunchFinalKeeps ==
    ASSUME FinalInv, NEW f \in Finalizers, NEW p \in Pops, NEW kind \in FinalKinds,
           Final!Launch(f, p, kind)
    PROVE  FinalInv'
<1> DEFINE r == [at |-> "claim", pop |-> p, kind |-> kind, seen |-> public[p]]
<1>0. UNCHANGED <<public, branch, claims, report, touched>> /\ Final!Idle(f)
  BY DEF Final!Launch, Final!disk
<1>1. r \in FinalProcs /\ r.at = "claim" /\ r.pop = p /\ r.kind = kind
  BY DEF FinalInv, FinalTypes, FinalProcs, FinalSteps
<1>2. proc' = [proc EXCEPT ![f] = r]
  BY DEF Final!Launch
<1> HIDE DEF r
<1>3. /\ proc' \in [Finalizers -> FinalProcs \cup {Final!Gone}] /\ ~Final!Idle(f)' /\ proc'[f] = r
      /\ \A g \in Finalizers : g # f => proc'[g] = proc[g] /\ (Final!Idle(g)' <=> Final!Idle(g))
  BY <1>1, <1>2, ProcMoves DEF FinalInv
<1>4. FinalTypes'
  BY <1>0, <1>3 DEF FinalInv, FinalTypes
<1>5. \A q \in Pops : q # p => FinalOf(q)'
  BY <1>0, <1>1, <1>3, Elsewhere DEF FinalInv
<1>6. kind = "recovery" => public[p] = FailedNormal
  BY DEF Final!Launch, Final!Authorized, FailedNormal
<1>7. public[p].at # "completed"
  BY DEF Final!Launch, Final!Authorized, Final!None, FinalKinds
<1>8. \A g \in Finalizers :
         /\ Past(g, p)' <=> Past(g, p)
         /\ Works(g, p)' <=> Works(g, p) \/ g = f
         /\ g # f => proc'[g] = proc[g]
         /\ Past(g, p) => g # f
  BY <1>0, <1>1, <1>3 DEF Past, Works
<1>9. FinalOf(p)
  BY DEF FinalInv
<1>10. NormalOver(p)' <=> NormalOver(p)
  BY <1>0, <1>8 DEF NormalOver
<1>11. OneAtWork(p)'
  BY <1>0, <1>1, <1>3, <1>6, <1>8, <1>9, <1>10 DEF FinalOf, OneAtWork, FailedNormal
<1>12. CompletedLast(p)'
  BY <1>0, <1>1, <1>3, <1>7, <1>8, <1>9 DEF FinalOf, CompletedLast, Final!Record
<1> QED
  BY <1>0, <1>4, <1>5, <1>9, <1>11, <1>12 DEF FinalInv, FinalOf, TouchedIsClaimed

(* A process that leaves, by itself or killed, only takes work away.       *)
LEMMA LeaveKeeps ==
    ASSUME FinalInv, NEW f \in Finalizers, Final!Leave(f), ~Final!Idle(f),
           UNCHANGED <<public, branch, claims, report, touched>>
    PROVE  FinalInv'
<1>1. /\ proc' \in [Finalizers -> FinalProcs \cup {Final!Gone}] /\ Final!Idle(f)'
      /\ \A g \in Finalizers : g # f => proc'[g] = proc[g] /\ (Final!Idle(g)' <=> Final!Idle(g))
  BY ProcLeaves DEF FinalInv
<1>2. FinalTypes'
  BY <1>1 DEF FinalInv, FinalTypes
<1>3. ASSUME NEW p \in Pops PROVE FinalOf(p)'
  <2>1. \A g \in Finalizers :
           /\ Works(g, p)' => Works(g, p) /\ proc'[g] = proc[g]
           /\ Past(g, p)' => Past(g, p)
    BY <1>1 DEF Works, Past
  <2>2. FinalOf(p)
    BY DEF FinalInv
  <2>3. NormalOver(p) => NormalOver(p)'
    BY <2>1 DEF NormalOver, Past
  <2>4. OneAtWork(p)'
    BY <2>1, <2>2, <2>3 DEF FinalOf, OneAtWork, FailedNormal, Past
  <2>5. CompletedLast(p)'
    BY <2>1, <2>2 DEF FinalOf, CompletedLast, Final!Record
  <2> QED
    BY <2>2, <2>4, <2>5 DEF FinalOf, TouchedIsClaimed
<1> QED
  BY <1>2, <1>3 DEF FinalInv

LEMMA ClaimKeeps ==
    ASSUME FinalInv, NEW f \in Finalizers, Final!Claim(f)
    PROVE  FinalInv'
<1>0. UNCHANGED <<public, branch, report, touched>> /\ ~Final!Idle(f) /\ proc[f].at = "claim"
  BY DEF Final!Claim, Final!At
<1>p. PICK p \in Pops, kind \in FinalKinds : p = proc[f].pop /\ kind = proc[f].kind
  BY <1>0, ProcOf DEF FinalInv
<1>1. CASE Final!Leave(f) /\ UNCHANGED claims
  BY <1>0, <1>1, LeaveKeeps
<1>2. CASE /\ Final!Inspected(f) /\ kind \notin claims[p] /\ Final!Goto(f, "start")
           /\ claims' = [claims EXCEPT ![p] = @ \cup {kind}]
  <2>1. /\ proc' \in [Finalizers -> FinalProcs \cup {Final!Gone}]
        /\ ~Final!Idle(f)' /\ proc'[f].at = "start" /\ proc'[f].pop = p /\ proc'[f].kind = kind
        /\ \A g \in Finalizers : g # f => proc'[g] = proc[g] /\ (Final!Idle(g)' <=> Final!Idle(g))
    BY <1>0, <1>2, <1>p, ProcGoes DEF FinalSteps, FinalInv
  <2>3. /\ claims' \in [Pops -> SUBSET FinalKinds] /\ claims'[p] = claims[p] \cup {kind}
        /\ \A q \in Pops : q # p => claims'[q] = claims[q]
    BY <1>2 DEF FinalInv, FinalTypes
  <2>4. FinalTypes'
    BY <1>0, <2>1, <2>3 DEF FinalInv, FinalTypes
  <2>5. \A q \in Pops : q # p => FinalOf(q)'
    BY <1>0, <1>p, <2>1, <2>3, Elsewhere DEF FinalInv
  <2>6. FinalOf(p) /\ Works(f, p) /\ kind = proc[f].kind
    BY <1>0, <1>p DEF FinalInv, Works
  <2>7. kind = "recovery" => touched[p] = {}
    BY <1>2, <1>p DEF Final!Inspected, Final!Pop
  <2>8. \A g \in Finalizers : ~Past(g, p)
    <3>1. \A g \in Finalizers : Past(g, p) => proc[g].kind \in claims[p]
      BY <2>6 DEF FinalOf, OneAtWork
    <3>2. CASE kind = "normal"
      <4>1. "normal" \notin claims[p] /\ "recovery" \notin claims[p]
        BY <1>2, <2>6, <3>2 DEF FinalOf, OneAtWork, NormalOver
      <4>2. claims[p] = {}
        BY <4>1 DEF FinalInv, FinalTypes, FinalKinds
      <4> QED
        BY <3>1, <4>2
    <3>3. CASE kind = "recovery"
      <4>1. NormalOver(p)
        BY <2>6, <3>3 DEF FinalOf, OneAtWork
      <4> QED
        BY <1>2, <3>1, <3>3, <4>1 DEF NormalOver
    <3> QED
      BY <3>2, <3>3 DEF FinalKinds
  <2>9. \A g \in Finalizers :
           /\ Past(g, p)' => g = f
           /\ Works(g, p)' => Works(g, p)
           /\ g # f => proc'[g] = proc[g]
    BY <2>1, <2>6, <2>8 DEF Past, Works
  <2>10. NormalOver(p) => NormalOver(p)'
    BY <1>2, <2>1, <2>3, <2>9 DEF NormalOver, FinalKinds
  <2>11. OneAtWork(p)'
    <3>1. kind = "recovery" => NormalOver(p)
      BY <2>6 DEF FinalOf, OneAtWork
    <3>2. \A g \in Finalizers : Works(g, p)' => proc'[g].kind = proc[g].kind
      BY <2>1, <2>6, <2>9
    <3>3. (\A g \in Finalizers : Past(g, p) => proc[g].kind \in claims[p])'
      BY <2>1, <2>3, <2>9
    <3> QED
      BY <1>0, <2>3, <2>6, <2>9, <2>10, <3>1, <3>2, <3>3 DEF FinalOf, OneAtWork, FailedNormal
  <2>12. TouchedIsClaimed(p)'
    BY <1>0, <2>3, <2>6, <2>7 DEF FinalOf, TouchedIsClaimed, FinalKinds
  <2>13. CompletedLast(p)'
    <3>1. public[p].at # "completed"
      BY <1>2, <2>6 DEF FinalOf, CompletedLast, FinalKinds
    <3> QED
      BY <1>0, <2>1, <2>6, <2>9, <3>1 DEF FinalOf, CompletedLast, Final!Record
  <2> QED
    BY <2>4, <2>5, <2>11, <2>12, <2>13 DEF FinalInv, FinalOf
<1> QED
  BY <1>0, <1>1, <1>2, <1>p DEF Final!Claim, Final!Pop


(* A process past its claim is alone with its population: a step of it     *)
(* keeps the invariant if what it writes there fits where it goes next.    *)
LEMMA WorkOn ==
    ASSUME FinalInv, NEW f \in Finalizers, ~Final!Idle(f), proc[f].at # "claim",
           NEW p \in Pops, NEW kind \in FinalKinds, p = proc[f].pop, kind = proc[f].kind,
           FinalTypes', claims' = claims,
           \A q \in Pops : q # p =>
                /\ public'[q] = public[q] /\ branch'[q] = branch[q]
                /\ touched'[q] = touched[q] /\ report'[q] = report[q],
           \A g \in Finalizers : g # f => proc'[g] = proc[g] /\ (Final!Idle(g)' <=> Final!Idle(g)),
           ~Final!Idle(f)' =>
                /\ proc'[f].pop = p /\ proc'[f].kind = kind
                /\ proc'[f].at \in {"close", "complete"} => report'[p]
                /\ proc'[f].at = "complete" => branch'[p] = [attempt |-> kind, at |-> "completed"],
           touched'[p] \subseteq touched[p] \cup {kind},
           public'[p].at = "completed" =>
                Final!Idle(f)' /\ report'[p] /\ branch'[p] = public'[p],
           public'[p] = FailedNormal =>
                public[p] = FailedNormal \/ (Final!Idle(f)' /\ kind = "normal")
    PROVE  FinalInv'
<1>1. \A q \in Pops : q # p => FinalOf(q)'
  <2> SUFFICES ASSUME NEW q \in Pops, q # p PROVE FinalOf(q)'
    OBVIOUS
  <2>1. FinalOf(q) /\ claims'[q] = claims[q]
    BY DEF FinalInv
  <2>2. Final!Idle(f)' \/ proc'[f].pop # q
    OBVIOUS
  <2> QED
    BY <2>1, <2>2, Elsewhere
<1>2. FinalOf(p) /\ Works(f, p) /\ Past(f, p)
  BY DEF FinalInv, Works, Past
<1>3. \A g \in Finalizers :
         /\ Past(g, p) => g = f
         /\ Works(g, p)' => Works(g, p) /\ proc'[g].kind = proc[g].kind
         /\ Past(g, p)' => g = f /\ ~Final!Idle(f)'
  <2>1. \A g \in Finalizers : Past(g, p) => g = f
    BY <1>2 DEF FinalOf, OneAtWork
  <2> QED
    BY <1>2, <2>1 DEF Past, Works
<1>4. /\ kind \in claims[p] /\ (NormalOver(p) => kind = "recovery")
      /\ kind = "recovery" => NormalOver(p)
  BY <1>2 DEF FinalOf, OneAtWork, NormalOver
<1>5. NormalOver(p) => NormalOver(p)'
  BY <1>3, <1>4 DEF NormalOver
<1>6. "normal" \in claims[p]
  BY <1>4 DEF NormalOver, FinalKinds
<1>7. public'[p] = FailedNormal => NormalOver(p)'
  BY <1>2, <1>3, <1>5, <1>6 DEF FinalOf, OneAtWork, NormalOver
<1>8. OneAtWork(p)'
  <2>1. (\A g \in Finalizers : Past(g, p) => proc[g].kind \in claims[p])'
    BY <1>3, <1>4
  <2>2. (\A g \in Finalizers : Works(g, p) /\ proc[g].kind = "recovery" => NormalOver(p))'
    BY <1>2, <1>3, <1>5 DEF FinalOf, OneAtWork
  <2>3. ("recovery" \in claims[p] => NormalOver(p))'
    BY <1>2, <1>5 DEF FinalOf, OneAtWork
  <2> QED
    BY <1>3, <1>7, <2>1, <2>2, <2>3 DEF OneAtWork, FailedNormal
<1>9. TouchedIsClaimed(p)'
  BY <1>2, <1>4 DEF FinalOf, TouchedIsClaimed, OneAtWork
<1>10. CompletedLast(p)'
  <2>1. public'[p].at = "completed" =>
          "recovery" \in claims[p] \/ \A g \in Finalizers : Works(g, p)' => proc'[g].kind = "normal"
    <3>1. CASE kind = "recovery"
      BY <1>4, <3>1
    <3>2. CASE kind = "normal"
      <4>1. \A g \in Finalizers : Works(g, p) => proc[g].kind # "recovery" /\ ~Final!Idle(g)
        BY <1>2, <1>4, <3>2 DEF FinalOf, OneAtWork, Works
      <4>2. \A g \in Finalizers : ~Final!Idle(g) => proc[g].kind \in FinalKinds
        BY ProcOf DEF FinalInv
      <4> QED
        BY <1>3, <4>1, <4>2 DEF FinalKinds
    <3> QED
      BY <3>1, <3>2 DEF FinalKinds
  <2>2. \A g \in Finalizers : Works(g, p)' /\ proc'[g].at \in {"close", "complete"} => g = f /\ ~Final!Idle(f)'
    BY <1>3 DEF Past
  <2>3. (\A g \in Finalizers : Works(g, p) /\ proc[g].at \in {"close", "complete"} => report[p])'
    BY <2>2
  <2>4. (\A g \in Finalizers :
          Works(g, p) /\ proc[g].at = "complete" => branch[p] = Final!Record(g, "completed"))'
    BY <2>2 DEF Final!Record
  <2>5. public'[p].at = "completed" => \A g \in Finalizers : ~Past(g, p)'
    BY <1>3
  <2> QED
    BY <1>6, <2>1, <2>3, <2>4, <2>5 DEF CompletedLast
<1> QED
  BY <1>1, <1>8, <1>9, <1>10 DEF FinalInv, FinalOf

(* Saving the public state, if it is still the one that was seen.          *)
LEMMA Saved ==
    ASSUME FinalTypes, NEW f \in Finalizers, ~Final!Idle(f), NEW p \in Pops, p = proc[f].pop,
           NEW kind \in FinalKinds, kind = proc[f].kind,
           NEW mark \in Marks,
           NEW next \in FinalSteps \cup {"idle"}, NEW otherwise \in FinalSteps \cup {"idle"},
           Final!Save(f, mark, next, otherwise)
    PROVE  /\ public' \in [Pops -> FinalRecords]
           /\ proc' \in [Finalizers -> FinalProcs \cup {Final!Gone}]
           /\ \A q \in Pops : q # p => public'[q] = public[q]
           /\ \A g \in Finalizers : g # f => proc'[g] = proc[g] /\ (Final!Idle(g)' <=> Final!Idle(g))
           /\ \/ public'[p] = [attempt |-> kind, at |-> mark]
                 /\ IF next = "idle" THEN Final!Idle(f)'
                    ELSE ~Final!Idle(f)' /\ proc'[f].at = next /\ proc'[f].pop = p /\ proc'[f].kind = kind
              \/ public' = public
                 /\ IF otherwise = "idle" THEN Final!Idle(f)'
                    ELSE ~Final!Idle(f)' /\ proc'[f].at = otherwise /\ proc'[f].pop = p /\ proc'[f].kind = kind
<1>1. proc[f] \in FinalProcs /\ proc[f].seen \in FinalRecords /\ public[p] \in FinalRecords
  BY ProcOf DEF FinalTypes
<1>2. CASE Final!Current(f)
  <2> DEFINE marked == [attempt |-> kind, at |-> mark]
             r == [proc[f] EXCEPT !.at = next, !.seen = marked]
  <2>1. marked \in FinalRecords
    BY DEF FinalRecords, FinalKinds, Marks
  <2> HIDE DEF marked
  <2>3. /\ public' = [public EXCEPT ![p] = marked]
        /\ proc' = [proc EXCEPT ![f] = IF next = "idle" THEN Final!Gone ELSE r]
    BY <1>2 DEF Final!Save, Final!Pop, Final!Record, marked
  <2>4. /\ public' \in [Pops -> FinalRecords] /\ public'[p] = marked
        /\ \A q \in Pops : q # p => public'[q] = public[q]
    BY <2>1, <2>3 DEF FinalTypes
  <2>5. CASE next = "idle"
    BY <2>3, <2>4, <2>5, ProcLeaves DEF Final!Leave, marked
  <2>6. CASE next # "idle"
    <3>1. r \in FinalProcs /\ r.at = next /\ r.pop = p /\ r.kind = kind
      BY <1>1, <2>1, <2>6 DEF FinalProcs
    <3>2. proc' = [proc EXCEPT ![f] = r]
      BY <2>3, <2>6
    <3> HIDE DEF r
    <3> QED
      BY <2>4, <2>6, <3>1, <3>2, ProcMoves DEF marked
  <2> QED
    BY <2>5, <2>6
<1>3. CASE ~Final!Current(f)
  <2>1. public' = public /\ IF otherwise = "idle" THEN Final!Leave(f) ELSE Final!Goto(f, otherwise)
    BY <1>3 DEF Final!Save
  <2>2. CASE otherwise = "idle"
    BY <2>1, <2>2, ProcLeaves DEF FinalTypes
  <2>3. CASE otherwise # "idle"
    BY <2>1, <2>3, ProcGoes DEF FinalTypes
  <2> QED
    BY <2>2, <2>3
<1> QED
  BY <1>2, <1>3


(* A process that goes on, writing at most the branch of its population.   *)
LEMMA GoOn ==
    ASSUME FinalInv, NEW f \in Finalizers, ~Final!Idle(f), proc[f].at # "claim",
           NEW p \in Pops, NEW kind \in FinalKinds, p = proc[f].pop, kind = proc[f].kind,
           NEW step \in FinalSteps, Final!Goto(f, step), UNCHANGED <<public, claims>>,
           \/ branch' = branch
           \/ \E mark \in Marks :
                branch' = [branch EXCEPT ![p] = [attempt |-> kind, at |-> mark]],
           \/ touched' = touched
           \/ touched' = [touched EXCEPT ![p] = @ \cup {kind}],
           report' = report \/ report' = [report EXCEPT ![p] = TRUE],
           step \in {"close", "complete"} => report'[p],
           step = "complete" => branch'[p] = [attempt |-> kind, at |-> "completed"]
    PROVE  FinalInv'
<1>1. /\ proc' \in [Finalizers -> FinalProcs \cup {Final!Gone}]
      /\ ~Final!Idle(f)' /\ proc'[f].at = step /\ proc'[f].pop = p /\ proc'[f].kind = kind
      /\ \A g \in Finalizers : g # f => proc'[g] = proc[g] /\ (Final!Idle(g)' <=> Final!Idle(g))
  BY ProcGoes DEF FinalInv
<1>2. \A mark \in Marks : [attempt |-> kind, at |-> mark] \in FinalRecords
  BY DEF FinalRecords, Marks
<1>3. branch' \in [Pops -> FinalRecords] /\ \A q \in Pops : q # p => branch'[q] = branch[q]
  <2>1. PICK marked \in FinalRecords : branch' = branch \/ branch' = [branch EXCEPT ![p] = marked]
    BY <1>2 DEF FinalInv, FinalTypes
  <2> QED
    BY <2>1 DEF FinalInv, FinalTypes
<1>4. /\ touched' \in [Pops -> SUBSET FinalKinds] /\ touched'[p] \subseteq touched[p] \cup {kind}
      /\ \A q \in Pops : q # p => touched'[q] = touched[q]
  BY DEF FinalInv, FinalTypes
<1>5. report' \in [Pops -> BOOLEAN] /\ \A q \in Pops : q # p => report'[q] = report[q]
  BY DEF FinalInv, FinalTypes
<1>6. FinalTypes'
  BY <1>1, <1>3, <1>4, <1>5 DEF FinalInv, FinalTypes
<1>7. public[p].at # "completed"
  <2>1. Past(f, p) /\ FinalOf(p)
    BY DEF Past, Works, FinalInv
  <2> QED
    BY <2>1 DEF FinalOf, CompletedLast
<1> QED
  BY <1>1, <1>3, <1>4, <1>5, <1>6, <1>7, WorkOn

LEMMA FinalizeKeeps ==
    ASSUME FinalInv, NEW f \in Finalizers, Final!Finalize(f)
    PROVE  FinalInv'
<1>0. ~Final!Idle(f)
  BY DEF Final!Finalize, Final!Claim, Final!Start, Final!EnterBranch, Final!MeasureSealed, Final!Publish,
     Final!CloseBranch, Final!Complete, Final!Fail, Final!RecordFailure, Final!Crash, Final!At
<1>p. PICK p \in Pops, kind \in FinalKinds : p = proc[f].pop /\ kind = proc[f].kind
  BY <1>0, ProcOf DEF FinalInv
<1>q. FinalOf(p) /\ Works(f, p)
  BY <1>0, <1>p DEF FinalInv, Works
<1>1. CASE Final!Claim(f)
  BY <1>1, ClaimKeeps DEF Final!Claim
<1>2. CASE Final!Crash(f)
  BY <1>0, <1>2, LeaveKeeps DEF Final!Crash, Final!disk
<1>3. CASE Final!EnterBranch(f)
  <2>1. PICK step \in {"sealed", "fail"} : Final!Goto(f, step)
    BY <1>3 DEF Final!EnterBranch
  <2>2. step \in FinalSteps /\ step \notin {"close", "complete"} /\ "started" \in Marks
    BY DEF FinalSteps, Marks
  <2>3. /\ branch' = [branch EXCEPT ![p] = [attempt |-> kind, at |-> "started"]]
        /\ UNCHANGED <<public, claims, report, touched>> /\ proc[f].at # "claim"
    BY <1>3, <1>p DEF Final!EnterBranch, Final!SetBranch, Final!Record, Final!Pop, Final!At
  <2> QED
    BY <1>0, <1>p, <2>1, <2>2, <2>3, GoOn
<1>4. CASE Final!MeasureSealed(f)
  <2>1. PICK step \in {"publish", "fail"} : Final!Goto(f, step)
    BY <1>4 DEF Final!MeasureSealed
  <2>2. step \in FinalSteps /\ step \notin {"close", "complete"} /\ "started" \in Marks
    BY DEF FinalSteps, Marks
  <2>3. /\ touched' = [touched EXCEPT ![p] = @ \cup {kind}]
        /\ UNCHANGED <<public, claims, report, branch>> /\ proc[f].at # "claim"
    BY <1>4, <1>p DEF Final!MeasureSealed, Final!Pop, Final!At
  <2> QED
    BY <1>0, <1>p, <2>1, <2>2, <2>3, GoOn
<1>5. CASE Final!Publish(f)
  <2>1. /\ report' = [report EXCEPT ![p] = TRUE] /\ Final!Goto(f, "close")
        /\ UNCHANGED <<public, claims, touched, branch>> /\ proc[f].at # "claim"
    BY <1>5, <1>p DEF Final!Publish, Final!Pop, Final!At
  <2>2. report'[p]
    BY <2>1 DEF FinalInv, FinalTypes
  <2>3. "close" \in FinalSteps
    BY DEF FinalSteps
  <2> QED
    BY <1>0, <1>p, <2>1, <2>2, <2>3, GoOn
<1>6. CASE Final!CloseBranch(f)
  <2>1. /\ branch' = [branch EXCEPT ![p] = [attempt |-> kind, at |-> "completed"]]
        /\ Final!Goto(f, "complete")
        /\ UNCHANGED <<public, claims, report, touched>> /\ proc[f].at = "close"
    BY <1>6, <1>p DEF Final!CloseBranch, Final!SetBranch, Final!Record, Final!Pop, Final!At
  <2>2. report'[p] /\ branch'[p] = [attempt |-> kind, at |-> "completed"]
    BY <1>q, <2>1 DEF FinalOf, CompletedLast, FinalInv, FinalTypes
  <2>3. "complete" \in FinalSteps /\ "completed" \in Marks
    BY DEF FinalSteps, Marks
  <2> QED
    BY <1>0, <1>p, <2>1, <2>2, <2>3, GoOn
<1>7. CASE Final!Fail(f)
  <2>1. /\ branch' = [branch EXCEPT ![p] = [attempt |-> kind, at |-> "failed"]]
        /\ Final!Goto(f, "failed")
        /\ UNCHANGED <<public, claims, report, touched>> /\ proc[f].at # "claim"
    BY <1>7, <1>p DEF Final!Fail, Final!SetBranch, Final!Record, Final!Pop, Final!At
  <2>2. "failed" \in FinalSteps /\ "failed" \in Marks
    BY DEF FinalSteps, Marks
  <2> QED
    BY <1>0, <1>p, <2>1, <2>2, GoOn
<1>8. ASSUME NEW mark \in Marks,
             NEW next \in {"enter", "idle"}, NEW otherwise \in {"fail", "idle"},
             Final!Save(f, mark, next, otherwise), UNCHANGED <<branch, claims, report, touched>>,
             proc[f].at # "claim", mark # "started" => next = "idle",
             mark = "completed" => proc[f].at = "complete"
      PROVE  FinalInv'
  <2>1. next \in FinalSteps \cup {"idle"} /\ otherwise \in FinalSteps \cup {"idle"}
    BY DEF FinalSteps
  <2>2. /\ public' \in [Pops -> FinalRecords]
        /\ proc' \in [Finalizers -> FinalProcs \cup {Final!Gone}]
        /\ \A q \in Pops : q # p => public'[q] = public[q]
        /\ \A g \in Finalizers : g # f => proc'[g] = proc[g] /\ (Final!Idle(g)' <=> Final!Idle(g))
        /\ \/ public'[p] = [attempt |-> kind, at |-> mark]
              /\ IF next = "idle" THEN Final!Idle(f)'
                 ELSE ~Final!Idle(f)' /\ proc'[f].at = next /\ proc'[f].pop = p /\ proc'[f].kind = kind
           \/ public' = public
              /\ IF otherwise = "idle" THEN Final!Idle(f)'
                 ELSE ~Final!Idle(f)' /\ proc'[f].at = otherwise /\ proc'[f].pop = p /\ proc'[f].kind = kind
    BY <1>0, <1>8, <1>p, <2>1, Saved DEF FinalInv
  <2>3. FinalTypes'
    BY <1>8, <2>2 DEF FinalInv, FinalTypes
  <2>5. public[p].at # "completed"
    BY <1>0, <1>8, <1>p, <1>q DEF FinalOf, CompletedLast, Past
  <2>6. mark = "completed" => report[p] /\ branch[p] = [attempt |-> kind, at |-> "completed"]
    BY <1>8, <1>p, <1>q DEF FinalOf, CompletedLast, Final!Record
  <2>7. ~Final!Idle(f)' =>
            proc'[f].pop = p /\ proc'[f].kind = kind /\ proc'[f].at \notin {"close", "complete"}
    BY <2>2
  <2>8. public'[p].at = "completed" =>
            Final!Idle(f)' /\ report'[p] /\ branch'[p] = public'[p]
    BY <1>8, <2>2, <2>5, <2>6
  <2>9. public'[p] = FailedNormal =>
            public[p] = FailedNormal \/ (Final!Idle(f)' /\ kind = "normal")
    <3>1. [attempt |-> kind, at |-> mark] = FailedNormal => kind = "normal" /\ mark = "failed"
      BY DEF FailedNormal
    <3> QED
      BY <1>8, <2>2, <3>1
  <2>10. /\ claims' = claims /\ touched'[p] \subseteq touched[p] \cup {kind}
         /\ \A q \in Pops : q # p =>
                /\ public'[q] = public[q] /\ branch'[q] = branch[q]
                /\ touched'[q] = touched[q] /\ report'[q] = report[q]
         /\ \A g \in Finalizers : g # f => proc'[g] = proc[g] /\ (Final!Idle(g)' <=> Final!Idle(g))
    BY <1>8, <2>2
  <2>11. ~Final!Idle(f)' =>
                /\ proc'[f].pop = p /\ proc'[f].kind = kind
                /\ proc'[f].at \in {"close", "complete"} => report'[p]
                /\ proc'[f].at = "complete" => branch'[p] = [attempt |-> kind, at |-> "completed"]
    BY <2>7
  <2> QED
    BY <1>0, <1>8, <1>p, <2>3, <2>8, <2>9, <2>10, <2>11, WorkOn
<1>9. CASE Final!Start(f)
  BY <1>8, <1>9 DEF Final!Start, Final!disk, Final!At, Marks
<1>10. CASE Final!Complete(f)
  BY <1>8, <1>10 DEF Final!Complete, Final!disk, Final!At, Marks
<1>11. CASE Final!RecordFailure(f)
  BY <1>8, <1>11 DEF Final!RecordFailure, Final!disk, Final!At, Marks
<1> QED
  BY <1>1, <1>2, <1>3, <1>4, <1>5, <1>6, <1>7, <1>9, <1>10, <1>11 DEF Final!Finalize

(* No process is past its claim for a final recorded as completed, and     *)
(* none that is still before it can come by: the claim is there already.   *)
LEMMA CompletedIsOver ==
    ASSUME FinalInv, NEW f \in Finalizers, Final!Finalize(f)
    PROVE  Final!CompletedStays
<1> SUFFICES ASSUME NEW p \in Pops, public[p].at = "completed"
             PROVE  /\ public'[p] = public[p] /\ branch'[p] = branch[p]
                    /\ claims'[p] = claims[p] /\ touched'[p] = touched[p] /\ report'[p]
  BY DEF Final!CompletedStays
<1>1. report[p] /\ ~Past(f, p)
  BY DEF FinalInv, FinalOf, CompletedLast
<1>2. ~Final!Idle(f)
  BY DEF Final!Finalize, Final!Claim, Final!Start, Final!EnterBranch, Final!MeasureSealed, Final!Publish,
     Final!CloseBranch, Final!Complete, Final!Fail, Final!RecordFailure, Final!Crash, Final!At
<1>3. CASE proc[f].pop # p
  BY <1>1, <1>3 DEF Final!Finalize, Final!Claim, Final!Start, Final!EnterBranch, Final!MeasureSealed,
     Final!Publish, Final!CloseBranch, Final!Complete, Final!Fail, Final!RecordFailure, Final!Crash,
     Final!Save, Final!SetBranch, Final!Pop, Final!disk, FinalInv, FinalTypes
<1>4. CASE proc[f].pop = p
  <2>1. Works(f, p) /\ proc[f].at = "claim" /\ proc[f].kind \in FinalKinds
    BY <1>1, <1>2, <1>4, ProcOf DEF Past, Works, FinalInv
  <2>2. proc[f].kind \in claims[p]
    BY <2>1 DEF FinalInv, FinalOf, CompletedLast, FinalKinds
  <2>3. Final!Claim(f) \/ Final!Crash(f)
    BY <2>1 DEF Final!Finalize, Final!Start, Final!EnterBranch, Final!MeasureSealed, Final!Publish,
       Final!CloseBranch, Final!Complete, Final!Fail, Final!RecordFailure, Final!At
  <2> QED
    BY <1>1, <1>4, <2>2, <2>3 DEF Final!Claim, Final!Crash, Final!Pop, Final!disk
<1> QED
  BY <1>3, <1>4

(* The population controller and the suite leave the attempts alone.       *)
LEMMA SameFinals ==
    ASSUME FinalInv, UNCHANGED <<branch, claims, report, touched, proc>>,
           public' \in [Pops -> FinalRecords],
           \A p \in Pops : public'[p] = public[p]
    PROVE  FinalInv'
<1>1. FinalTypes'
  BY DEF FinalInv, FinalTypes
<1>2. ASSUME NEW p \in Pops PROVE FinalOf(p)'
  <2>1. FinalOf(p)
    BY DEF FinalInv
  <2>2. /\ \A f \in Finalizers : (Works(f, p)' <=> Works(f, p)) /\ (Past(f, p)' <=> Past(f, p))
        /\ NormalOver(p)' <=> NormalOver(p)
    BY DEF Works, Past, NormalOver, Final!Idle
  <2>3. OneAtWork(p)'
    BY <2>1, <2>2 DEF FinalOf, OneAtWork, FailedNormal
  <2>4. CompletedLast(p)'
    BY <2>1, <2>2 DEF FinalOf, CompletedLast, Final!Record
  <2> QED
    BY <2>1, <2>3, <2>4 DEF FinalOf, TouchedIsClaimed
<1> QED
  BY <1>1, <1>2 DEF FinalInv

LEMMA FinalKeeps ==
    ASSUME FinalInv, Final!Next \/ UNCHANGED finalVars
    PROVE  FinalInv' /\ Final!CompletedStays
<1>2. ASSUME UNCHANGED <<public, branch, claims, report, touched, proc>>
      PROVE  FinalInv' /\ Final!CompletedStays
  BY <1>2, SameFinals DEF FinalInv, FinalTypes, FinalOf, CompletedLast, Final!CompletedStays
<1>3. ASSUME NEW p \in Pops, Final!Scan(p) \/ Final!Adopt(p)
      PROVE  FinalInv' /\ Final!CompletedStays
  BY <1>2, <1>3 DEF Final!Scan, Final!Adopt, Final!disk
<1>4. CASE Final!ClaimSuite \/ Final!BeginJobs \/ Final!RunJobs \/ Final!SuiteStops
  BY <1>2, <1>4 DEF Final!ClaimSuite, Final!BeginJobs, Final!RunJobs, Final!SuiteStops, Final!disk
<1>5. ASSUME NEW f \in Finalizers, NEW p \in Pops, NEW kind \in FinalKinds, Final!Launch(f, p, kind)
      PROVE  FinalInv' /\ Final!CompletedStays
  <2>1. UNCHANGED <<public, branch, claims, report, touched>>
    BY <1>5 DEF Final!Launch, Final!disk
  <2>2. Final!CompletedStays
    BY <2>1 DEF FinalInv, FinalOf, CompletedLast, Final!CompletedStays
  <2> QED
    BY <1>5, <2>2, LaunchFinalKeeps
<1>6. CASE UNCHANGED finalVars
  BY <1>2, <1>6 DEF finalVars
<1> QED
  BY <1>3, <1>4, <1>5, <1>6, FinalizeKeeps, CompletedIsOver DEF Final!Next, FinalKinds

(* The final of a population is unsealed once, and recorded as measured    *)
(* with its report, for any number of populations, processes and crashes.  *)
THEOREM FinalStaysSound == Spec => []FinalIsSound
<1>1. Init => FinalInv
  BY FinalInit DEF Init
<1>2. FinalInv /\ [Next]_evaluation => FinalInv'
  BY FinalKeeps, EvaluationStep
<1> QED
  BY <1>1, <1>2, FinalResult, PTL DEF Spec


-----------------------------------------------------------------------------
(* No step of any of the systems loses what was committed: a task is not   *)
(* measured again, a score, a reported population and a checkpoint stay.   *)
THEOREM CommittedIsNeverLost == Spec => CommittedStays
<1> DEFINE CommittedInv == TrialInv /\ PartitionInv /\ FinalInv /\ RunInv
<1>1. Init => CommittedInv
  BY TrialInit, PartitionInit, FinalInit, RunInit, Assumptions DEF Init
<1>2. CommittedInv /\ [Next]_evaluation =>
        /\ CommittedInv'
        /\ Trials!MeasuredOnce /\ Trials!OfOneIdentity /\ Partition!ScoresStay
        /\ Final!CompletedStays /\ Generic!CheckpointsStay
  BY EvaluationStep, TrialKeeps, TrialsCommitted, PartitionKeeps, FinalKeeps, RunKeeps, Assumptions
<1> QED
  BY <1>1, <1>2, PTL DEF Spec, CommittedStays
=============================================================================
