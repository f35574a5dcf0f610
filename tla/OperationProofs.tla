-------------------------- MODULE OperationProofs ---------------------------
(***************************************************************************)
(* What is proved of the systems that keep, watch and serve a run, each    *)
(* for every value of its constants:                                       *)
(*   RunsStayWhole        a failed run on disk leads from H0 to its        *)
(*                        champion, a fork starts from one checkpoint      *)
(*   BaselineStaysCommon  branches start from the pack of the digest       *)
(*   SearchStaysSound     what a search may write, and when it widens      *)
(*   BooksBalance         the counters of two gateways, and who is blamed  *)
(*   AccessStaysGood      who was given a token can use it                 *)
(*   ReportsKeepAgreeing  diagnostics and imported events                  *)
(*   SuiteStaysInCharge   what a suite script starts, stops and reports    *)
(* Each system has an inductive invariant of its own, kept by its steps;   *)
(* the others leave its variables alone (OperationStep).                   *)
(***************************************************************************)
EXTENDS MCOperation, FiniteSetTheorems, TLAPS

LEMMA Assumptions ==
    /\ Single!GenerationsAssumption /\ Fork!ForkAssumption /\ Pack!PackAssumption
    /\ Search!SearchAssumption /\ Updater!GatewayAssumption /\ Usage!GatewayAssumption
    /\ Gateway!LifecycleAssumption /\ Diagnostics!DiagnosticsAssumption
    /\ Feed!FeedAssumption /\ Suite!SuiteAssumption
  BY OperationAssumption DEF OperationAssumption

(* A step is one of a single system, which the others do not see.          *)
LEMMA OperationStep ==
    ASSUME [Next]_operation
    PROVE  /\ Single!Next \/ UNCHANGED runVars
           /\ Fork!Next \/ UNCHANGED forkVars
           /\ Pack!Next \/ UNCHANGED packVars
           /\ Search!Next \/ UNCHANGED searchVars
           /\ Updater!Next \/ UNCHANGED updaterVars
           /\ Usage!Next \/ UNCHANGED usageVars
           /\ Gateway!Next \/ UNCHANGED gatewayVars
           /\ Diagnostics!Next \/ UNCHANGED diagnosticsVars
           /\ Feed!Next \/ UNCHANGED feedVars
           /\ Suite!Next \/ UNCHANGED suiteVars
  BY DEF Next, operation

(* Adding one member to a finite set counts one more.                      *)
LEMMA OneMore ==
    ASSUME NEW S, IsFiniteSet(S), NEW x, x \notin S
    PROVE  /\ IsFiniteSet(S \cup {x}) /\ Cardinality(S) \in Nat
           /\ Cardinality(S \cup {x}) = Cardinality(S) + 1
  BY FS_AddElement, FS_CardinalityType

(* What an append does to a sequence.                                      *)
LEMMA Appended ==
    ASSUME NEW T, NEW s \in Seq(T), NEW x \in T
    PROVE  /\ Append(s, x) \in Seq(T) /\ Len(Append(s, x)) = Len(s) + 1
           /\ \A k \in 1..Len(s) : Append(s, x)[k] = s[k]
           /\ Append(s, x)[Len(s) + 1] = x
  OBVIOUS

-----------------------------------------------------------------------------
(* A single run                                                            *)

Entries == [gen : Nat, parent : Nat, status : Single!Statuses, before : Nat, after : Nat]
Candidates ==
    [id : Nat, parent : Nat, status : {"baseline", "promoted", "rejected", "invalid"}]
RunRecords ==
    [status : {"running", "failed", "completed"}, champ : Nat, done : Nat,
     hist : Seq(Entries), cands : Seq(Candidates)]

(* What a record says, in memory and on disk.                              *)
Chain(m) ==
    /\ \A i \in Single!Decisive(m.hist) : Single!LeadsTo(m.hist, i - 1, m.hist[i].before)
    /\ Single!LeadsTo(m.hist, Len(m.hist), m.champ)
    /\ m.done = Len(m.hist)
HasWorkspace(m, p) ==
    \E j \in 1..Len(m.cands) : m.cands[j].id = p /\ m.cands[j].status # "invalid"
Lineage(m) ==
    \A i \in 2..Len(m.cands) : \E j \in 1..(i-1) :
        m.cands[j].id = m.cands[i].parent /\ m.cands[j].status # "invalid"
Holds(m, e) == \E i \in 1..Len(m.hist) : m.hist[i] = e

SingleTypes ==
    /\ mem \in RunRecords /\ champion \in Nat /\ built \subseteq Nat
    /\ round \in [gen : Nat, parent : Nat, status : Single!Statuses]
    /\ disk \in RunRecords \/ disk = [status |-> "absent"]

(* Both records are whole, and a strategy knows what both hold.            *)
RecordsWhole ==
    /\ Chain(mem) /\ Lineage(mem)
    /\ disk \in RunRecords => Chain(disk) /\ Lineage(disk)
    /\ \A e \in told : disk \in RunRecords /\ Holds(disk, e) /\ Holds(mem, e)
    /\ at = "observe" => disk = mem /\ Len(mem.hist) > 0

(* The place in the generation: what is decided and not recorded.          *)
InGeneration ==
    /\ at \in {"update", "evaluate", "registry", "history"} => round.gen = mem.done + 1
    /\ at \in {"update", "evaluate"} => round.status = "invalid"
    /\ at = "registry" => round.status # "invalid"
    /\ at \in {"first", "propose", "update", "evaluate", "decision", "save", "observe",
               "persist", "persistLast"} => champion = mem.champ
    /\ at = "history" /\ round.status = "invalid" => champion = mem.champ
    /\ at \in {"decision", "save", "observe"} => Len(mem.hist) > 0

(* Every workspace that a strategy may name has its candidate.             *)
BuiltAreCandidates ==
    at \notin {"failed", "over"} =>
        /\ \A p \in built : HasWorkspace(mem, p) \/ (at = "evaluate" /\ p = round.gen)
        /\ champion \in built
        /\ at \in {"update", "evaluate"} => HasWorkspace(mem, round.parent)
        /\ at = "evaluate" => round.gen \in built

SingleInv == SingleTypes /\ RecordsWhole /\ InGeneration /\ BuiltAreCandidates

LEMMA SingleInit == ASSUME Single!Init PROVE SingleInv
<1>1. /\ mem.hist = <<>> /\ mem.champ = 0 /\ mem.done = 0 /\ champion = 0 /\ built = {0}
      /\ mem.cands = <<[id |-> 0, parent |-> 99, status |-> "baseline"]>>
      /\ mem \in RunRecords /\ at = "first" /\ told = {} /\ disk = [status |-> "absent"]
      /\ round \in [gen : Nat, parent : Nat, status : Single!Statuses]
  BY DEF Single!Init, Single!H0, Single!None, Single!Statuses, RunRecords, Candidates
<1>2. /\ Len(mem.cands) = 1 /\ mem.cands[1].id = 0 /\ mem.cands[1].status = "baseline"
      /\ Len(mem.hist) = 0
  BY <1>1
<1>3. disk \notin RunRecords
  BY <1>1 DEF RunRecords
<1>4. Chain(mem) /\ Lineage(mem)
  BY <1>1, <1>2 DEF Chain, Lineage, Single!Decisive, Single!LeadsTo, Single!H0
<1>5. RecordsWhole
  BY <1>1, <1>3, <1>4 DEF RecordsWhole
<1>6. InGeneration /\ BuiltAreCandidates
  BY <1>1, <1>2 DEF InGeneration, BuiltAreCandidates, HasWorkspace
<1> QED
  BY <1>1, <1>5, <1>6 DEF SingleInv, SingleTypes

LEMMA LeadsToStays ==
    ASSUME NEW h \in Seq(Entries), NEW e \in Entries, NEW n \in 0..Len(h), NEW c,
           Single!LeadsTo(h, n, c)
    PROVE  Single!LeadsTo(Append(h, e), n, c)
<1> DEFINE g == Append(h, e)
<1>1. g \in Seq(Entries) /\ Len(g) = Len(h) + 1 /\ \A i \in 1..Len(h) : g[i] = h[i]
  BY Appended
<1>2. /\ \A i \in Single!Decisive(h) : i \in 1..Len(h) /\ h[i].status # "invalid"
      /\ \A i \in Single!Decisive(g) : i \in 1..Len(h) + 1 /\ g[i].status # "invalid"
  BY <1>1 DEF Single!Decisive
<1>3. \A i \in 1..Len(h) : i \in Single!Decisive(h) <=> i \in Single!Decisive(g)
  BY <1>1 DEF Single!Decisive
<1> HIDE DEF g
<1>4. \A j \in Single!Decisive(g) : j \in Single!Decisive(h) \/ j > n
  BY <1>1, <1>2, <1>3
<1>5. CASE c = Single!H0 /\ \A i \in Single!Decisive(h) : i > n
  BY <1>4, <1>5 DEF Single!LeadsTo, g
<1>6. ASSUME NEW i \in Single!Decisive(h), i <= n, c = h[i].after,
             \A j \in Single!Decisive(h) : j <= i \/ j > n
      PROVE  Single!LeadsTo(g, n, c)
  <2>1. i \in Single!Decisive(g) /\ g[i] = h[i]
    BY <1>1, <1>2, <1>3
  <2> QED
    BY <1>4, <1>6, <2>1 DEF Single!LeadsTo
<1> QED
  BY <1>5, <1>6 DEF Single!LeadsTo, g

(* An entry continues the chain.                                           *)
LEMMA ChainGrows ==
    ASSUME NEW m \in RunRecords, Chain(m), NEW n \in RunRecords, NEW e \in Entries,
           n.hist = Append(m.hist, e), n.done = m.done + 1,
           e.status # "invalid" => e.before = m.champ /\ e.after = n.champ,
           e.status = "invalid" => n.champ = m.champ
    PROVE  Chain(n)
<1> DEFINE h == m.hist g == n.hist k == Len(m.hist)
<1>1. /\ h \in Seq(Entries) /\ k \in Nat /\ g = Append(h, e) /\ m.done \in Nat
  BY DEF RunRecords
<1>2. /\ g \in Seq(Entries) /\ Len(g) = k + 1 /\ g[k + 1] = e /\ \A i \in 1..k : g[i] = h[i]
  BY <1>1, Appended
<1>3. /\ \A i \in Single!Decisive(g) : i \in 1..k + 1 /\ g[i].status # "invalid"
      /\ \A i \in 1..k + 1 : g[i].status # "invalid" => i \in Single!Decisive(g)
      /\ \A i \in 1..k : i \in Single!Decisive(h) <=> i \in Single!Decisive(g)
      /\ \A i \in Single!Decisive(h) : i \in 1..k
  BY <1>1, <1>2 DEF Single!Decisive
<1>4. /\ \A i \in Single!Decisive(h) : Single!LeadsTo(h, i - 1, h[i].before)
      /\ Single!LeadsTo(h, k, m.champ) /\ m.done = k
  BY DEF Chain
<1>5. k \in 0..Len(h) /\ \A i \in Single!Decisive(h) : i - 1 \in 0..Len(h)
  BY <1>1, <1>3
<1> HIDE DEF h, g, k
<1>6. /\ Single!LeadsTo(g, k, m.champ)
      /\ \A i \in Single!Decisive(h) : Single!LeadsTo(g, i - 1, h[i].before)
  BY <1>1, <1>4, <1>5, LeadsToStays
<1>7. ASSUME NEW i \in Single!Decisive(g) PROVE Single!LeadsTo(g, i - 1, g[i].before)
  <2>1. CASE i \in 1..k
    BY <1>2, <1>3, <1>6, <2>1
  <2>2. CASE i \notin 1..k
    <3>1. i = k + 1 /\ g[i] = e /\ i - 1 = k
      BY <1>1, <1>2, <1>3, <2>2
    <3> QED
      BY <1>3, <1>6, <3>1
  <2> QED
    BY <2>1, <2>2
<1>8. Single!LeadsTo(g, k + 1, n.champ)
  <2>1. CASE e.status = "invalid"
    <3>1. \A i \in Single!Decisive(g) : i \in 1..k
      BY <1>1, <1>2, <1>3, <2>1
    <3>2. \A i \in Single!Decisive(g) : (i > k <=> i > k + 1) /\ (i <= k <=> i <= k + 1)
      BY <1>1, <3>1
    <3> QED
      BY <1>6, <2>1, <3>2 DEF Single!LeadsTo
  <2>2. CASE e.status # "invalid"
    <3>1. k + 1 \in Single!Decisive(g) /\ n.champ = g[k + 1].after
      BY <1>1, <1>2, <1>3, <2>2
    <3>2. \A j \in Single!Decisive(g) : j <= k + 1
      BY <1>1, <1>3
    <3> QED
      BY <1>1, <3>1, <3>2 DEF Single!LeadsTo
  <2> QED
    BY <2>1, <2>2
<1>9. n.done = Len(g)
  BY <1>1, <1>2, <1>4
<1> QED
  BY <1>2, <1>7, <1>8, <1>9 DEF Chain, g

(* A candidate of a parent that has a workspace continues the lineage.     *)
LEMMA LineageGrows ==
    ASSUME NEW m \in RunRecords, Lineage(m), NEW n \in RunRecords, NEW c \in Candidates,
           n.cands = Append(m.cands, c), HasWorkspace(m, c.parent)
    PROVE  /\ Lineage(n)
           /\ \A p : HasWorkspace(m, p) => HasWorkspace(n, p)
           /\ c.status # "invalid" => HasWorkspace(n, c.id)
<1> DEFINE k == Len(m.cands)
<1>1. /\ m.cands \in Seq(Candidates) /\ k \in Nat /\ Len(n.cands) = k + 1
      /\ n.cands[k + 1] = c /\ \A i \in 1..k : n.cands[i] = m.cands[i]
  <2>1. m.cands \in Seq(Candidates)
    BY DEF RunRecords
  <2> QED
    BY <2>1, Appended
<1> HIDE DEF k
<1>2. ASSUME NEW i \in 2..Len(n.cands)
      PROVE  \E j \in 1..(i-1) : n.cands[j].id = n.cands[i].parent /\ n.cands[j].status # "invalid"
  <2>1. CASE i \in 2..k
    <3>1. PICK j \in 1..(i-1) : m.cands[j].id = m.cands[i].parent /\ m.cands[j].status # "invalid"
      BY <2>1 DEF Lineage, k
    <3>2. j \in 1..k /\ i \in 1..k
      BY <1>1, <2>1
    <3> QED
      BY <1>1, <3>1, <3>2
  <2>2. CASE i \notin 2..k
    <3>1. i = k + 1 /\ i - 1 = k
      BY <1>1, <2>2
    <3>2. PICK j \in 1..k : m.cands[j].id = c.parent /\ m.cands[j].status # "invalid"
      BY DEF HasWorkspace, k
    <3> QED
      BY <1>1, <3>1, <3>2
  <2> QED
    BY <2>1, <2>2
<1>3. ASSUME NEW p, HasWorkspace(m, p) PROVE HasWorkspace(n, p)
  <2>1. PICK j \in 1..k : m.cands[j].id = p /\ m.cands[j].status # "invalid"
    BY <1>3 DEF HasWorkspace, k
  <2>2. j \in 1..Len(n.cands) /\ n.cands[j] = m.cands[j]
    BY <1>1, <2>1
  <2> QED
    BY <2>1, <2>2 DEF HasWorkspace
<1>4. c.status # "invalid" => HasWorkspace(n, c.id)
  <2>1. k + 1 \in 1..Len(n.cands)
    BY <1>1
  <2> QED
    BY <1>1, <2>1 DEF HasWorkspace
<1> QED
  BY <1>2, <1>3, <1>4 DEF Lineage

(* A save keeps both records whole.                                        *)
LEMMA SavesKeep ==
    ASSUME SingleInv, Chain(mem'), Lineage(mem'), mem' \in RunRecords,
           disk' \in {disk, mem}, \A e : Holds(mem, e) => Holds(mem', e),
           told' = told, at' = "observe" => disk' = mem' /\ Len(mem'.hist) > 0
    PROVE  RecordsWhole' /\ (disk' \in RunRecords \/ disk' = [status |-> "absent"])
<1>1. SingleTypes /\ RecordsWhole
  BY DEF SingleInv
<1>2. disk' \in RunRecords \/ disk' = [status |-> "absent"]
  BY <1>1 DEF SingleTypes
<1>3. disk' \in RunRecords => Chain(disk') /\ Lineage(disk')
  BY <1>1 DEF SingleTypes, RecordsWhole
<1>4. \A e \in told : disk' \in RunRecords /\ Holds(disk', e) /\ Holds(mem', e)
  BY <1>1 DEF SingleTypes, RecordsWhole
<1> QED
  BY <1>2, <1>3, <1>4 DEF RecordsWhole

(* A step that leaves the record in memory as it is, but for its status.   *)
LEMMA RestOfGeneration ==
    ASSUME SingleInv, mem' \in RunRecords, mem'.champ = mem.champ, mem'.done = mem.done,
           mem'.hist = mem.hist, mem'.cands = mem.cands,
           disk' \in {disk, mem}, UNCHANGED <<champion, round, told>>,
           built' = built, at' = "observe" => disk' = mem' /\ Len(mem'.hist) > 0,
           \/ at' \in {"failed", "over", "last", "complete"}
           \/ at \in {"first", "persist"} /\ at' = "propose"
           \/ at = "observe" /\ at' \in {"persist", "persistLast"}
           \/ at = "registry" /\ at' = "history"
           \/ at = "decision" /\ at' = "save"
           \/ at = "save" /\ at' = "observe",
           at' \in {"last", "complete"} => at \notin {"failed", "over", "evaluate"}
    PROVE  SingleInv'
<1>1. SingleTypes /\ RecordsWhole /\ InGeneration /\ BuiltAreCandidates
  BY DEF SingleInv
<1>2. Chain(mem') /\ Lineage(mem') /\ \A e : Holds(mem, e) => Holds(mem', e)
  BY <1>1 DEF RecordsWhole, Chain, Lineage, Holds
<1>3. RecordsWhole' /\ (disk' \in RunRecords \/ disk' = [status |-> "absent"])
  BY <1>2, SavesKeep
<1>4. SingleTypes'
  BY <1>1, <1>3 DEF SingleTypes
<1>5. InGeneration'
  BY <1>1 DEF InGeneration
<1>6. BuiltAreCandidates'
  <2>1. \A p : HasWorkspace(mem, p) => HasWorkspace(mem', p)
    BY DEF HasWorkspace
  <2>2. at' \notin {"failed", "over"} => at \notin {"failed", "over", "evaluate"}
    OBVIOUS
  <2>3. at' \notin {"update", "evaluate"}
    OBVIOUS
  <2> QED
    BY <1>1, <2>1, <2>2, <2>3 DEF BuiltAreCandidates
<1> QED
  BY <1>3, <1>4, <1>5, <1>6 DEF SingleInv

LEMMA SingleKeeps ==
    ASSUME SingleInv, Single!Next \/ UNCHANGED runVars PROVE SingleInv'
<1>0. SingleTypes /\ RecordsWhole /\ InGeneration /\ BuiltAreCandidates
  BY DEF SingleInv
<1>1. CASE UNCHANGED runVars
  BY <1>0, <1>1 DEF runVars, SingleInv, SingleTypes, RecordsWhole, InGeneration,
                    BuiltAreCandidates
<1>2. CASE Single!FirstSave \/ Single!Register \/ Single!WriteDecision \/ Single!Save
           \/ Single!Persist \/ Single!SaveFailed \/ Single!SaveCompleted \/ Single!Crash
  <2>1. /\ UNCHANGED <<champion, round, told, built, mem>> /\ disk' \in {disk, mem}
        /\ \/ at' \in {"failed", "over", "last"}
           \/ at' = "complete" /\ at = "persistLast"
           \/ at \in {"first", "persist"} /\ at' = "propose"
           \/ at = "registry" /\ at' = "history"
           \/ at = "decision" /\ at' = "save"
           \/ at = "save" /\ at' = "observe" /\ disk' = mem
        /\ at' # "last"
    BY <1>2 DEF Single!FirstSave, Single!Register, Single!WriteDecision, Single!Save,
                Single!Persist, Single!SaveFailed, Single!SaveCompleted, Single!Crash
  <2>2. mem' \in RunRecords /\ (at' = "observe" => disk' = mem' /\ Len(mem'.hist) > 0)
    BY <1>0, <2>1 DEF SingleTypes, InGeneration
  <2> QED
    BY <2>1, <2>2, RestOfGeneration
<1>3. CASE Single!Throw \/ Single!Complete
  <2>1. PICK s \in {"failed", "completed"} :
            /\ mem' = [mem EXCEPT !.status = s]
            /\ UNCHANGED <<champion, round, told, built, disk>>
            /\ at' = "failed" \/ (at' = "last" /\ at \in {"propose", "complete"})
    BY <1>3 DEF Single!Throw, Single!Complete
  <2>2. /\ mem' \in RunRecords /\ mem'.champ = mem.champ /\ mem'.done = mem.done
        /\ mem'.hist = mem.hist /\ mem'.cands = mem.cands
    BY <1>0, <2>1 DEF SingleTypes, RunRecords
  <2> QED
    BY <2>1, <2>2, RestOfGeneration
<1>4. ASSUME NEW noMore \in BOOLEAN, Single!Observe(noMore) PROVE SingleInv'
  <2>1. /\ at = "observe" /\ told' = told \cup {mem.hist[Len(mem.hist)]}
        /\ UNCHANGED <<round, champion, built, mem, disk>>
        /\ at' \in {"persist", "persistLast"}
    BY <1>4 DEF Single!Observe
  <2>2. disk = mem /\ disk \in RunRecords /\ Len(mem.hist) \in 1..Len(mem.hist)
    <3>1. disk = mem /\ Len(mem.hist) > 0 /\ mem \in RunRecords /\ Len(mem.hist) \in Nat
      BY <1>0, <2>1 DEF RecordsWhole, SingleTypes, RunRecords
    <3> QED
      BY <3>1
  <2>3. Holds(mem, mem.hist[Len(mem.hist)])
    BY <2>2 DEF Holds
  <2>4. RecordsWhole'
    BY <1>0, <2>1, <2>2, <2>3 DEF RecordsWhole, Holds
  <2> QED
    BY <1>0, <2>1, <2>4 DEF SingleInv, SingleTypes, InGeneration, BuiltAreCandidates
<1>5. ASSUME NEW p \in Single!Parents, Single!Propose(p) PROVE SingleInv'
  <2>1. /\ at = "propose" /\ at' = "update" /\ UNCHANGED <<champion, built, mem, disk, told>>
        /\ round' = [gen |-> mem.done + 1, parent |-> p, status |-> "invalid"]
    BY <1>5 DEF Single!Propose
  <2>2. p \in built /\ HasWorkspace(mem, p) /\ p \in Nat
    BY <1>0, <2>1 DEF Single!Parents, Single!ContainerParents, BuiltAreCandidates, SingleTypes
  <2>3. SingleTypes'
    BY <1>0, <2>1, <2>2 DEF SingleTypes, RunRecords, Single!Statuses
  <2>4. RecordsWhole'
    BY <1>0, <2>1 DEF RecordsWhole, Holds
  <2> QED
    BY <1>0, <2>1, <2>2, <2>3, <2>4 DEF SingleInv, InGeneration, BuiltAreCandidates, HasWorkspace
<1>6. CASE Single!TakeProposal
  <2>1. /\ at = "update" /\ at' = "evaluate" /\ built' = built \cup {round.gen}
        /\ UNCHANGED <<round, champion, mem, disk, told>>
    BY <1>6 DEF Single!TakeProposal
  <2>2. SingleTypes' /\ RecordsWhole'
    BY <1>0, <2>1 DEF SingleTypes, RecordsWhole, Holds
  <2> QED
    BY <1>0, <2>1, <2>2 DEF SingleInv, InGeneration, BuiltAreCandidates, HasWorkspace
<1>7. ASSUME NEW s \in {"promoted", "rejected", "invalid"}, mem' = Single!WithCandidate(s),
             at \in {"update", "evaluate"}, UNCHANGED <<built, disk, told>>,
             \/ at = "update" /\ s = "invalid" /\ at' = "history" /\ UNCHANGED <<round, champion>>
             \/ /\ at = "evaluate" /\ s # "invalid" /\ at' = "registry"
                /\ round' = [round EXCEPT !.status = s]
                /\ champion' = IF s = "promoted" THEN round.gen ELSE champion
      PROVE  SingleInv'
  <2> DEFINE c == [id |-> round.gen, parent |-> round.parent, status |-> s]
  <2>1. c \in Candidates /\ c.id = round.gen /\ c.parent = round.parent /\ c.status = s
    BY <1>0 DEF SingleTypes, Candidates
  <2>2. mem.cands \in Seq(Candidates) /\ mem' = [mem EXCEPT !.cands = Append(mem.cands, c)]
    BY <1>0, <1>7 DEF SingleTypes, RunRecords, Single!WithCandidate
  <2>3. Append(mem.cands, c) \in Seq(Candidates)
    BY <2>1, <2>2, Appended
  <2> HIDE DEF c
  <2>4. /\ mem' \in RunRecords /\ mem'.champ = mem.champ /\ mem'.done = mem.done
        /\ mem'.hist = mem.hist /\ mem'.cands = Append(mem.cands, c)
    BY <1>0, <2>2, <2>3 DEF SingleTypes, RunRecords
  <2>5. HasWorkspace(mem, round.parent)
    BY <1>0, <1>7 DEF BuiltAreCandidates
  <2>6. /\ Lineage(mem') /\ \A p : HasWorkspace(mem, p) => HasWorkspace(mem', p)
        /\ s # "invalid" => HasWorkspace(mem', round.gen)
    BY <1>0, <2>1, <2>4, <2>5, LineageGrows DEF SingleTypes, RecordsWhole
  <2>7. Chain(mem') /\ \A e : Holds(mem, e) => Holds(mem', e)
    BY <1>0, <2>4 DEF RecordsWhole, Chain, Holds
  <2>8. RecordsWhole' /\ (disk' \in RunRecords \/ disk' = [status |-> "absent"])
    BY <1>7, <2>4, <2>6, <2>7, SavesKeep
  <2>9. /\ round' \in [gen : Nat, parent : Nat, status : Single!Statuses]
        /\ round'.gen = round.gen /\ champion' \in Nat
        /\ at = "evaluate" => round'.status = s
        /\ at = "update" => round' = round /\ champion' = champion
    BY <1>0, <1>7 DEF SingleTypes, Single!Statuses
  <2>10. SingleTypes'
    BY <1>0, <1>7, <2>4, <2>8, <2>9 DEF SingleTypes
  <2>11. InGeneration'
    BY <1>0, <1>7, <2>4, <2>9 DEF InGeneration
  <2>12. champion' \in built
    BY <1>0, <1>7 DEF BuiltAreCandidates
  <2>13. BuiltAreCandidates'
    BY <1>0, <1>7, <2>6, <2>12 DEF BuiltAreCandidates
  <2> QED
    BY <2>8, <2>10, <2>11, <2>13 DEF SingleInv
<1>8. CASE Single!Record
  <2>1. /\ at = "history" /\ at' = "decision" /\ UNCHANGED <<round, champion, built, disk, told>>
        /\ mem' = [mem EXCEPT !.hist = Append(@, Single!Entry), !.champ = champion, !.done = round.gen]
    BY <1>8 DEF Single!Record
  <2> DEFINE e == Single!Entry
  <2>2. /\ e \in Entries
        /\ e.status # "invalid" => e.before = mem.champ /\ e.after = champion
        /\ e.status = "invalid" => champion = mem.champ
    BY <1>0, <2>1 DEF SingleTypes, RunRecords, Entries, Single!Entry, Single!None, InGeneration
  <2>3. mem.hist \in Seq(Entries) /\ Append(mem.hist, e) \in Seq(Entries)
        /\ Len(Append(mem.hist, e)) = Len(mem.hist) + 1
        /\ \A i \in 1..Len(mem.hist) : Append(mem.hist, e)[i] = mem.hist[i]
    <3>1. mem.hist \in Seq(Entries)
      BY <1>0 DEF SingleTypes, RunRecords
    <3> QED
      BY <2>2, <3>1, Appended
  <2> HIDE DEF e
  <2>4. /\ mem' \in RunRecords /\ mem'.champ = champion /\ mem'.done = round.gen
        /\ mem'.hist = Append(mem.hist, e) /\ mem'.cands = mem.cands
    BY <1>0, <2>1, <2>3 DEF SingleTypes, RunRecords, e
  <2>5. Chain(mem')
    <3>1. mem'.done = mem.done + 1
      BY <1>0, <2>1, <2>4 DEF InGeneration
    <3> QED
      BY <1>0, <2>2, <2>4, <3>1, ChainGrows DEF SingleTypes, RecordsWhole
  <2>6. /\ Lineage(mem') /\ Len(mem'.hist) > 0
        /\ \A x : Holds(mem, x) => Holds(mem', x)
    <3>1. Lineage(mem')
      BY <1>0, <2>4 DEF RecordsWhole, Lineage
    <3>2. Len(mem.hist) \in Nat /\ Len(mem'.hist) = Len(mem.hist) + 1
      BY <2>3, <2>4
    <3>3. ASSUME NEW x, Holds(mem, x) PROVE Holds(mem', x)
      <4>1. PICK i \in 1..Len(mem.hist) : mem.hist[i] = x
        BY <3>3 DEF Holds
      <4>2. i \in 1..Len(mem'.hist) /\ mem'.hist[i] = x
        BY <2>3, <2>4, <3>2, <4>1
      <4> QED
        BY <4>2 DEF Holds
    <3> QED
      BY <3>1, <3>2, <3>3
  <2>7. RecordsWhole' /\ (disk' \in RunRecords \/ disk' = [status |-> "absent"])
    <3>1. /\ disk' \in {disk, mem} /\ told' = told /\ mem' \in RunRecords /\ Chain(mem')
          /\ Lineage(mem') /\ \A x : Holds(mem, x) => Holds(mem', x)
      BY <2>1, <2>4, <2>5, <2>6
    <3>2. at' = "observe" => disk' = mem' /\ Len(mem'.hist) > 0
      BY <2>1
    <3> QED
      BY <3>1, <3>2, SavesKeep
  <2>8. SingleTypes'
    BY <1>0, <2>1, <2>4, <2>7 DEF SingleTypes
  <2>9. InGeneration' /\ BuiltAreCandidates'
    BY <1>0, <2>1, <2>4, <2>6 DEF InGeneration, BuiltAreCandidates, HasWorkspace
  <2> QED
    BY <2>7, <2>8, <2>9 DEF SingleInv
<1>9. CASE Single!RejectProposal
  BY <1>7, <1>9 DEF Single!RejectProposal
<1>10. ASSUME NEW s \in {"promoted", "rejected"}, Single!Evaluate(s) PROVE SingleInv'
  BY <1>7, <1>10 DEF Single!Evaluate
<1> QED
  BY <1>1, <1>2, <1>3, <1>4, <1>5, <1>6, <1>8, <1>9, <1>10 DEF Single!Next, Single!Saved

LEMMA SingleResult == ASSUME SingleInv PROVE Single!SavedRunIsWhole
<1>1. Single!Written <=> disk \in RunRecords
  BY DEF SingleInv, SingleTypes, RunRecords, Single!Written
<1> QED
  BY <1>1 DEF SingleInv, RecordsWhole, Chain, Lineage, Holds, Single!SavedRunIsWhole,
              Single!ToldIsSaved, Single!HistoryIsAChain, Single!LineageIsBuilt

-----------------------------------------------------------------------------
(* A fork of a population                                                  *)

Incumbents == [Seeded -> Nat]

FromCheckpoint == \E k \in 1..registered : checkpoint = files[k]

ForkTypes ==
    /\ files \in Seq(Incumbents) /\ incumbent \in Incumbents
    /\ registered \in Nat /\ registered <= Len(files)
    /\ copy \in [Seeded -> Int] /\ h0 \in [Seeded -> Int]
    /\ root \in [Seeded -> {"absent", "partial", "state"}]

(* The checkpoint is chosen before any branch starts; a process without    *)
(* the seeds goes on with no copy of an earlier one.                       *)
ForkInv ==
    /\ ForkTypes
    /\ FromCheckpoint \/ \A b \in Seeded : checkpoint[b] = Fork!Nothing
    /\ forkAt = "prepare" => \A b \in Seeded : h0[b] = Fork!Nothing
    /\ \A b \in Seeded : h0[b] \in {Fork!Nothing, Fork!Source, checkpoint[b]}
    /\ ~seeded => \A b \in Seeded : root[b] = "partial" => copy[b] \in {Fork!Nothing, Fork!Source}

LEMMA ForkInit == ASSUME Fork!Init PROVE ForkInv
  BY DEF Incumbents, Fork!Init, ForkInv, ForkTypes, Fork!Nothing

(* What the parent's state names stays where it is.                        *)
LEMMA CheckpointsStay ==
    ASSUME ForkTypes, ForkTypes', NEW k \in 1..registered, registered' >= registered,
           files' = files \/ \E x \in Incumbents : files' = Append(files, x)
    PROVE  k \in 1..registered' /\ files'[k] = files[k]
<1>1. k \in 1..registered' /\ k \in 1..Len(files)
  BY DEF ForkTypes
<1>2. ASSUME NEW x \in Incumbents, files' = Append(files, x) PROVE files'[k] = files[k]
  BY <1>1, <1>2, Appended DEF ForkTypes
<1> QED
  BY <1>1, <1>2

LEMMA ForkKeeps ==
    ASSUME Fork!ForkAssumption, ForkInv, Fork!Next \/ UNCHANGED forkVars PROVE ForkInv'
<1>0. ForkTypes
  BY DEF ForkInv
<1>c. Fork!Nothing \in Int /\ Fork!Source \in Int /\ Fork!Edited \in Int
  BY DEF Fork!Nothing, Fork!Source, Fork!Edited
<1>1. CASE UNCHANGED forkVars
  BY <1>1 DEF forkVars, ForkInv, ForkTypes, FromCheckpoint
<1>2. ASSUME \/ \E b \in Seeded : Fork!ParentPromotes(b) \/ Fork!ParentEdited(b)
             \/ Fork!ParentWrites \/ Fork!ParentRegisters
      PROVE  ForkInv'
  <2>1. /\ ForkTypes' /\ registered' >= registered
        /\ files' = files \/ files' = Append(files, incumbent)
    <3>1. UNCHANGED <<copy, h0, root>>
      BY <1>2 DEF Fork!ParentPromotes, Fork!ParentEdited, Fork!ParentWrites,
                  Fork!ParentRegisters, Fork!forkVars
    <3>2. CASE \E b \in Seeded : Fork!ParentPromotes(b) \/ Fork!ParentEdited(b)
      <4>1. PICK b \in Seeded : Fork!ParentPromotes(b) \/ Fork!ParentEdited(b)
        BY <3>2
      <4>2. /\ UNCHANGED <<files, registered>>
            /\ incumbent' = incumbent \/ incumbent' = [incumbent EXCEPT ![b] = incumbent[b] + 1]
        BY <4>1 DEF Fork!ParentPromotes, Fork!ParentEdited
      <4>3. incumbent[b] + 1 \in Nat
        BY <1>0 DEF ForkTypes, Incumbents
      <4>4. incumbent' \in Incumbents
        BY <1>0, <4>2, <4>3 DEF ForkTypes, Incumbents
      <4> QED
        BY <1>0, <3>1, <4>2, <4>4 DEF ForkTypes
    <3>3. CASE Fork!ParentWrites
      <4>1. files' = Append(files, incumbent) /\ UNCHANGED <<incumbent, registered>>
        BY <3>3 DEF Fork!ParentWrites
      <4>2. files' \in Seq(Incumbents) /\ Len(files') = Len(files) + 1
        BY <1>0, <4>1, Appended DEF ForkTypes
      <4> QED
        BY <1>0, <3>1, <4>1, <4>2 DEF ForkTypes
    <3>4. CASE Fork!ParentRegisters
      BY <1>0, <3>1, <3>4 DEF Fork!ParentRegisters, ForkTypes
    <3> QED
      BY <1>2, <3>2, <3>3, <3>4
  <2>2. UNCHANGED <<forkAt, checkpoint, seeded, root, copy, h0>>
    BY <1>2 DEF Fork!ParentPromotes, Fork!ParentEdited, Fork!ParentWrites,
                Fork!ParentRegisters, Fork!forkVars
  <2>3. FromCheckpoint => FromCheckpoint'
    <3>1. SUFFICES ASSUME FromCheckpoint PROVE FromCheckpoint'
      OBVIOUS
    <3>2. PICK k \in 1..registered : checkpoint = files[k]
      BY <3>1 DEF FromCheckpoint
    <3>3. files' = files \/ \E x \in Incumbents : files' = Append(files, x)
      BY <1>0, <2>1 DEF ForkTypes
    <3>4. k \in 1..registered' /\ files'[k] = files[k]
      BY <1>0, <2>1, <3>3, CheckpointsStay
    <3> QED
      BY <2>2, <3>2, <3>4 DEF FromCheckpoint
  <2> QED
    BY <2>1, <2>2, <2>3 DEF ForkInv
<1>3. ASSUME NEW k \in Fork!Offered, Fork!Select(k) PROVE ForkInv'
  <2>1. /\ k \in 1..registered /\ checkpoint' = files[k] /\ forkAt = "prepare"
        /\ UNCHANGED <<files, incumbent, registered, forkAt, seeded, root, copy, h0>>
    BY <1>3 DEF Fork!Select, Fork!Offered, Fork!parentVars
  <2>2. ForkTypes' /\ FromCheckpoint'
    BY <1>0, <2>1 DEF ForkTypes, FromCheckpoint
  <2> QED
    BY <2>1, <2>2 DEF ForkInv
<1>4. ASSUME NEW b \in Seeded,
             \/ Fork!Verify(b) \/ Fork!CreateRoot(b) \/ Fork!CopySeed(b) \/ Fork!SaveState(b)
             \/ Fork!BranchFails(b)
      PROVE  ForkInv'
  <2>1. UNCHANGED <<files, incumbent, registered, checkpoint, seeded>>
    BY <1>4 DEF Fork!Verify, Fork!CreateRoot, Fork!CopySeed, Fork!SaveState, Fork!BranchFails,
                Fork!parentVars
  <2>2. FromCheckpoint' = FromCheckpoint
    BY <2>1 DEF FromCheckpoint
  <2>3. CASE Fork!Verify(b) \/ Fork!BranchFails(b)
    <3>1. UNCHANGED <<root, copy, h0>> /\ (forkAt' = "prepare" => forkAt = "prepare")
      BY <2>3 DEF Fork!Verify, Fork!BranchFails
    <3> QED
      BY <2>1, <2>2, <3>1 DEF ForkInv, ForkTypes
  <2>4. CASE Fork!CreateRoot(b)
    <3>1. /\ UNCHANGED <<forkAt, h0>> /\ root' = [root EXCEPT ![b] = "partial"]
          /\ copy' = [copy EXCEPT ![b] = Fork!Nothing]
      BY <2>4 DEF Fork!CreateRoot
    <3>2. ForkTypes'
      BY <1>0, <1>c, <2>1, <3>1 DEF ForkTypes
    <3> QED
      BY <1>0, <2>1, <2>2, <3>1, <3>2 DEF ForkInv, ForkTypes
  <2>5. CASE Fork!CopySeed(b)
    <3>1. /\ UNCHANGED <<forkAt, root, h0>> /\ copy' = [copy EXCEPT ![b] = Fork!Seed(b)]
      BY <2>5 DEF Fork!CopySeed
    <3>2. ~seeded => Fork!Seed(b) = Fork!Source
      BY DEF Fork!Seed
    <3>3. Fork!Seed(b) \in Int
      <4>1. checkpoint[b] \in Int
        BY <1>0, <1>c DEF ForkInv, ForkTypes, FromCheckpoint, Incumbents
      <4> QED
        BY <1>c, <4>1 DEF Fork!Seed, Fork!WorkspaceOf
    <3>4. ForkTypes'
      BY <1>0, <2>1, <3>1, <3>3 DEF ForkTypes
    <3> QED
      BY <1>0, <2>1, <2>2, <3>1, <3>2, <3>4 DEF ForkInv, ForkTypes
  <2>6. CASE Fork!SaveState(b)
    <3>1. /\ root[b] = "partial" /\ forkAt = "baseline" /\ UNCHANGED <<forkAt, copy>>
          /\ \/ /\ seeded => copy[b] = checkpoint[b]
                /\ root' = [root EXCEPT ![b] = "state"] /\ h0' = [h0 EXCEPT ![b] = copy[b]]
             \/ UNCHANGED <<root, h0>>
      BY <2>6 DEF Fork!SaveState, Fork!Active, Fork!SeedAccepted
    <3>2. ForkTypes'
      BY <1>0, <2>1, <3>1 DEF ForkTypes
    <3>3. copy[b] \in {Fork!Nothing, Fork!Source} \/ seeded
      BY <3>1 DEF ForkInv
    <3> QED
      BY <1>0, <2>1, <2>2, <3>1, <3>2, <3>3 DEF ForkInv, ForkTypes
  <2> QED
    BY <1>4, <2>3, <2>4, <2>5, <2>6
<1>5. CASE Fork!Settle
  BY <1>5 DEF Fork!Settle, Fork!parentVars, ForkInv, ForkTypes, FromCheckpoint
<1>6. CASE Fork!Resume
  <2>1. /\ UNCHANGED <<files, incumbent, registered, checkpoint, copy, h0>>
        /\ forkAt' = "baseline" /\ ~seeded'
        /\ root' = [b \in Seeded |-> IF root[b] = "state" THEN "state" ELSE "absent"]
    BY <1>6 DEF Fork!Resume, Fork!parentVars
  <2>2. ForkTypes' /\ FromCheckpoint' = FromCheckpoint
    BY <1>0, <2>1 DEF ForkTypes, FromCheckpoint
  <2> QED
    BY <2>1, <2>2 DEF ForkInv
<1> QED
  BY <1>1, <1>2, <1>3, <1>4, <1>5, <1>6 DEF Fork!Next

LEMMA ForkResult == ASSUME ForkInv PROVE Fork!SeedsAreCheckpointed
  BY DEF ForkInv, ForkTypes, FromCheckpoint, Fork!SeedsAreCheckpointed

(* Wherever a single run stopped, what is on disk of a failed one leads    *)
(* from H0 to its champion, step by step through candidates that were      *)
(* built; whatever a fork was stopped in and resumed from, its branches    *)
(* start from candidates that one checkpoint of its parent names.  For any *)
(* number of generations, branches, promotions and resumes.                *)
THEOREM RunsStayWhole == Spec => []RunsAreWhole
<1>1. Init => SingleInv /\ ForkInv
  BY SingleInit, ForkInit, Assumptions DEF Init
<1>2. SingleInv /\ ForkInv /\ [Next]_operation => SingleInv' /\ ForkInv'
  BY SingleKeeps, ForkKeeps, OperationStep, Assumptions
<1>3. SingleInv /\ ForkInv => RunsAreWhole
  BY SingleResult, ForkResult, Assumptions DEF RunsAreWhole
<1> QED
  BY <1>1, <1>2, <1>3, PTL DEF Spec

-----------------------------------------------------------------------------
(* The common baseline                                                     *)

Found == Measures \cup {"none"}
Contents == [decision : Found, records : Found, packet : Found]
ResultFiles == {"first", "feedback", "paired"}
Stages == {"new", "first", "feedback", "propose", "paired", "done", "refused"}

PackTypes ==
    /\ evaluation \in Found /\ records \in Found /\ packet \in Found
    /\ read \in Contents /\ pinned \in Contents /\ pack \in Contents \cup {Pack!Torn}
    /\ branchAt \in [Branches -> Stages] /\ held \in [Branches -> Contents]
    /\ opened \in [Branches -> BOOLEAN]
    /\ file \in [Branches -> [ResultFiles -> Found \cup {"partial"}]]

(* What an export writes it has read whole.                                *)
PackIsSound ==
    /\ export = "write" => read.packet = read.records
    /\ Pack!PacketTellsRecords

(* A branch holds and imports the pinned pack, opens a file only to write  *)
(* it, and leaves no step with a file half written.                        *)
SoundBranch(stage, contents, writing, results, fixed) ==
    /\ contents \in {Pack!Nothing, fixed}
    /\ results["first"] \in {"none", "partial", fixed.decision}
    /\ results["feedback"] \in {"none", "partial", fixed.records}
    /\ results["paired"] \in {"none", "partial", fixed.decision}
    /\ stage = "new" => \A f \in ResultFiles : results[f] = "none"
    /\ stage \in {"feedback", "propose", "paired", "done"} => results["first"] # "partial"
    /\ stage \in {"propose", "paired", "done"} => results["feedback"] # "partial"
    /\ stage \in {"first", "feedback", "propose"} => results["paired"] = "none"
    /\ stage = "done" => results["paired"] # "partial"
    /\ writing => stage \in ResultFiles /\ contents # Pack!Nothing

BranchSound(b) == SoundBranch(branchAt[b], held[b], opened[b], file[b], pinned)

(* Nothing is imported before the digest is fixed.                         *)
ImportsFollow ==
    /\ pinned = Pack!Nothing => \A b \in Branches : branchAt[b] = "new"
    /\ \A b \in Branches : BranchSound(b)

PackInv == PackTypes /\ PackIsSound /\ ImportsFollow

LEMMA NothingFound ==
    /\ Pack!Nothing \in Contents
    /\ Pack!Nothing.decision = "none" /\ Pack!Nothing.records = "none" /\ Pack!Nothing.packet = "none"
  BY DEF Pack!Nothing, Pack!None, Contents, Found

LEMMA PackInit == ASSUME Pack!PackAssumption, Pack!Init PROVE PackInv
<1>1. \A f \in ResultFiles : Pack!Empty[f] = "none"
  BY DEF ResultFiles, Pack!Empty, Pack!None
<1>2. Pack!Empty \in [ResultFiles -> Found \cup {"partial"}]
  BY DEF ResultFiles, Pack!Empty, Pack!None, Found
<1>3. PackTypes
  BY <1>2, NothingFound DEF Pack!Init, PackTypes, Pack!None, Found, Stages
<1>4. PackIsSound
  BY DEF Pack!Init, PackIsSound, Pack!PacketTellsRecords, Pack!WholePack
<1>5. ImportsFollow
  BY <1>1 DEF Pack!Init, ImportsFollow, BranchSound, SoundBranch, ResultFiles
<1> QED
  BY <1>3, <1>4, <1>5 DEF PackInv

(* The source run and the exporter do not touch what branches import.      *)
LEMMA SourceMoves ==
    ASSUME PackInv,
           \/ Pack!MeasureBaseline \/ Pack!MeasureFeedback \/ Pack!WritePacket \/ Pack!Archive
           \/ Pack!ReadBaseline \/ Pack!CheckFeedback \/ Pack!ReadRecords \/ Pack!ReadPacket
           \/ Pack!OpenPack \/ Pack!WritePack \/ Pack!KillExport \/ Pack!Remove
    PROVE  PackInv'
<1>0. PackTypes /\ PackIsSound /\ ImportsFollow
  BY DEF PackInv
<1>1. UNCHANGED <<pinned, branchAt, file, held, opened>>
  BY DEF Pack!MeasureBaseline, Pack!MeasureFeedback, Pack!WritePacket, Pack!Archive,
         Pack!ReadBaseline, Pack!CheckFeedback, Pack!ReadRecords, Pack!ReadPacket, Pack!OpenPack,
         Pack!WritePack, Pack!KillExport, Pack!Remove, Pack!Outside, Pack!importers
<1>2. ImportsFollow'
  BY <1>0, <1>1 DEF ImportsFollow, BranchSound, SoundBranch
<1>3. ASSUME evaluation' \in Found, records' \in Found, packet' \in Found, read' \in Contents,
             pack' \in Contents \cup {Pack!Torn}, PackIsSound'
      PROVE  PackInv'
  BY <1>0, <1>1, <1>2, <1>3 DEF PackInv, PackTypes
<1>4. CASE Pack!MeasureBaseline \/ Pack!MeasureFeedback \/ Pack!WritePacket \/ Pack!Archive
  <2>1. UNCHANGED <<read, pack, export>>
    BY <1>4 DEF Pack!MeasureBaseline, Pack!MeasureFeedback, Pack!WritePacket, Pack!Archive,
                Pack!exporter
  <2>2. evaluation' \in Found /\ records' \in Found /\ packet' \in Found
    BY <1>0, <1>4 DEF Pack!MeasureBaseline, Pack!MeasureFeedback, Pack!WritePacket, Pack!Archive,
                      PackTypes, Found, Pack!None
  <2> QED
    BY <1>0, <1>3, <2>1, <2>2 DEF PackTypes, PackIsSound, Pack!PacketTellsRecords, Pack!WholePack
<1>5. CASE Pack!ReadBaseline \/ Pack!CheckFeedback \/ Pack!ReadRecords \/ Pack!ReadPacket
  <2>1. UNCHANGED <<evaluation, records, packet, pack>> /\ export' # "write"
    BY <1>5 DEF Pack!ReadBaseline, Pack!CheckFeedback, Pack!ReadRecords, Pack!ReadPacket,
                Pack!Exporting, Pack!Outside, Pack!source
  <2>2. read' \in Contents
    <3>1. CASE Pack!ReadBaseline
      BY <1>0, <3>1, NothingFound DEF Pack!ReadBaseline, PackTypes, Contents
    <3>2. CASE Pack!CheckFeedback
      BY <1>0, <3>2 DEF Pack!CheckFeedback, PackTypes, Contents
    <3>3. CASE Pack!ReadRecords \/ Pack!ReadPacket
      BY <1>0, <3>3 DEF Pack!ReadRecords, Pack!ReadPacket, PackTypes, Contents
    <3> QED
      BY <1>5, <3>1, <3>2, <3>3
  <2> QED
    BY <1>0, <1>3, <2>1, <2>2 DEF PackTypes, PackIsSound, Pack!PacketTellsRecords, Pack!WholePack
<1>6. CASE Pack!OpenPack
  <2>1. /\ UNCHANGED <<evaluation, records, packet, read>>
        /\ pack' \in {pack, Pack!Torn} /\ (export' = "write" => read.packet = read.records)
    BY <1>6 DEF Pack!OpenPack, Pack!Exporting, Pack!Outside, Pack!source, Pack!Sound
  <2> QED
    BY <1>0, <1>3, <2>1 DEF PackTypes, PackIsSound, Pack!PacketTellsRecords, Pack!WholePack
<1>7. CASE Pack!WritePack \/ Pack!KillExport \/ Pack!Remove
  <2>1. /\ UNCHANGED <<evaluation, records, packet, read>>
        /\ export' = "write" => export = "write"
        /\ (pack' = read /\ export = "write") \/ pack' \in {pack, Pack!Nothing}
    BY <1>7 DEF Pack!WritePack, Pack!KillExport, Pack!Remove, Pack!Exporting, Pack!Outside,
                Pack!source
  <2> QED
    BY <1>0, <1>3, <2>1, NothingFound
    DEF PackTypes, PackIsSound, Pack!PacketTellsRecords, Pack!WholePack
<1> QED
  BY <1>4, <1>5, <1>6, <1>7

LEMMA PinKeeps == ASSUME PackInv, Pack!Pin PROVE PackInv'
<1>0. PackTypes /\ PackIsSound /\ ImportsFollow
  BY DEF PackInv
<1>1. /\ pack \notin {Pack!Nothing, Pack!Torn} /\ pinned = Pack!Nothing /\ pinned' = pack
      /\ UNCHANGED <<evaluation, records, packet, read, export, pack, branchAt, file, held, opened>>
  BY DEF Pack!Pin, Pack!WholePack, Pack!source, Pack!exporter, Pack!importers
<1>2. PackTypes' /\ PackIsSound'
  BY <1>0, <1>1 DEF PackTypes, PackIsSound, Pack!PacketTellsRecords, Pack!WholePack
<1>3. /\ \A b \in Branches : branchAt[b] = "new" /\ held[b] = Pack!Nothing
      /\ \A b \in Branches : \A f \in ResultFiles : file[b][f] = "none"
  BY <1>0, <1>1 DEF ImportsFollow, BranchSound, SoundBranch
<1>4. ImportsFollow'
  BY <1>0, <1>1, <1>3 DEF ImportsFollow, BranchSound, SoundBranch, ResultFiles
<1> QED
  BY <1>2, <1>4 DEF PackInv

(* A step of a branch is sound when it leaves that branch sound.           *)
LEMMA BranchMoves ==
    ASSUME PackInv, NEW b \in Branches, pinned # Pack!Nothing,
           UNCHANGED <<evaluation, records, packet, read, export, pack, pinned>>,
           branchAt' \in [Branches -> Stages], held' \in [Branches -> Contents],
           opened' \in [Branches -> BOOLEAN],
           file' \in [Branches -> [ResultFiles -> Found \cup {"partial"}]],
           \A a \in Branches \ {b} : /\ branchAt'[a] = branchAt[a] /\ held'[a] = held[a]
                                     /\ opened'[a] = opened[a] /\ file'[a] = file[a],
           BranchSound(b)'
    PROVE  PackInv'
<1>0. PackTypes /\ PackIsSound /\ ImportsFollow
  BY DEF PackInv
<1>1. PackTypes' /\ PackIsSound'
  BY <1>0 DEF PackTypes, PackIsSound, Pack!PacketTellsRecords, Pack!WholePack
<1>2. \A a \in Branches \ {b} : BranchSound(a)'
  BY <1>0 DEF ImportsFollow, BranchSound
<1> QED
  BY <1>1, <1>2 DEF PackInv, ImportsFollow

LEMMA WholeContents ==
    ASSUME Pack!PackAssumption, NEW c \in Contents
    PROVE  /\ c.decision \in Found /\ c.records \in Found /\ c.packet \in Found
           /\ c.decision # "partial" /\ c.records # "partial"
  BY DEF Contents, Found, Pack!PackAssumption

LEMMA BranchKeeps ==
    ASSUME Pack!PackAssumption, PackInv, NEW b \in Branches,
           \/ Pack!Initialize(b) \/ Pack!Restore(b) \/ Pack!Open(b) \/ Pack!Write(b)
           \/ Pack!Propose(b) \/ Pack!Kill(b)
    PROVE  PackInv'
<1>0. PackTypes /\ PackIsSound /\ ImportsFollow /\ BranchSound(b)
  BY DEF PackInv, ImportsFollow
<1>1. UNCHANGED <<evaluation, records, packet, read, export, pack, pinned>>
  BY DEF Pack!Initialize, Pack!Restore, Pack!Open, Pack!Write, Pack!Propose, Pack!Kill,
         Pack!Elsewhere, Pack!source, Pack!exporter
<1>2. pinned # Pack!Nothing
  <2>1. CASE Pack!Initialize(b)
    BY <2>1 DEF Pack!Initialize
  <2>2. CASE ~Pack!Initialize(b)
    <3>1. branchAt[b] # "new" \/ held[b] # Pack!Nothing
      BY <1>0, <2>2 DEF Pack!Restore, Pack!Open, Pack!Write, Pack!Propose, Pack!Kill,
                        Pack!Importing, BranchSound, SoundBranch
    <3> QED
      BY <1>0, <3>1 DEF ImportsFollow, BranchSound, SoundBranch
  <2> QED
    BY <2>1, <2>2
<1>3. /\ pinned.decision \in Found /\ pinned.records \in Found
      /\ pinned.decision # "partial" /\ pinned.records # "partial"
  BY <1>0, WholeContents DEF PackTypes
<1>4. branchAt[b] \in Stages /\ held[b] \in Contents /\ opened[b] \in BOOLEAN
  BY <1>0 DEF PackTypes
<1>5. ASSUME NEW s \in Stages, branchAt' = [branchAt EXCEPT ![b] = s],
             NEW h \in {Pack!Nothing, pinned, held[b]}, held' = [held EXCEPT ![b] = h],
             NEW o \in BOOLEAN, opened' = [opened EXCEPT ![b] = o],
             NEW g \in [ResultFiles -> Found \cup {"partial"}], file' = [file EXCEPT ![b] = g],
             SoundBranch(s, h, o, g, pinned)
      PROVE  PackInv'
  <2>1. h \in Contents
    BY <1>0, <1>4, NothingFound DEF PackTypes
  <2>2. /\ branchAt' \in [Branches -> Stages] /\ held' \in [Branches -> Contents]
        /\ opened' \in [Branches -> BOOLEAN]
        /\ file' \in [Branches -> [ResultFiles -> Found \cup {"partial"}]]
    BY <1>0, <1>5, <2>1 DEF PackTypes
  <2>3. /\ \A a \in Branches \ {b} : /\ branchAt'[a] = branchAt[a] /\ held'[a] = held[a]
                                     /\ opened'[a] = opened[a] /\ file'[a] = file[a]
        /\ branchAt'[b] = s /\ held'[b] = h /\ opened'[b] = o /\ file'[b] = g
    BY <1>0, <1>5 DEF PackTypes
  <2>4. BranchSound(b)'
    BY <1>1, <1>5, <2>3 DEF BranchSound
  <2> QED
    BY <1>1, <1>2, <2>2, <2>3, <2>4, BranchMoves
<1>6. /\ branchAt = [branchAt EXCEPT ![b] = branchAt[b]] /\ held = [held EXCEPT ![b] = held[b]]
      /\ opened = [opened EXCEPT ![b] = opened[b]] /\ file = [file EXCEPT ![b] = file[b]]
  BY <1>0 DEF PackTypes
<1>7. /\ file[b] \in [ResultFiles -> Found \cup {"partial"}]
      /\ SoundBranch(branchAt[b], held[b], opened[b], file[b], pinned)
  BY <1>0 DEF PackTypes, BranchSound
<1>8. CASE Pack!Initialize(b)
  <2>1. /\ branchAt[b] = "new" /\ UNCHANGED <<file, opened>>
        /\ \/ held' = [held EXCEPT ![b] = pinned] /\ branchAt' = [branchAt EXCEPT ![b] = "first"]
           \/ UNCHANGED held /\ branchAt' = [branchAt EXCEPT ![b] = "refused"]
    BY <1>8 DEF Pack!Initialize, Pack!Load, Pack!Loaded, Pack!Moved
  <2>2. /\ SoundBranch("first", pinned, opened[b], file[b], pinned)
        /\ SoundBranch("refused", held[b], opened[b], file[b], pinned)
        /\ "first" \in Stages /\ "refused" \in Stages
    BY <1>7, <2>1 DEF SoundBranch, ResultFiles, Stages
  <2>3. CASE held' = [held EXCEPT ![b] = pinned] /\ branchAt' = [branchAt EXCEPT ![b] = "first"]
    <3>1. /\ branchAt' = [branchAt EXCEPT ![b] = "first"] /\ held' = [held EXCEPT ![b] = pinned]
          /\ opened' = [opened EXCEPT ![b] = opened[b]] /\ file' = [file EXCEPT ![b] = file[b]]
      BY <1>6, <2>1, <2>3
    <3> QED
      BY <1>4, <1>5, <1>7, <2>2, <3>1
  <2>4. CASE UNCHANGED held /\ branchAt' = [branchAt EXCEPT ![b] = "refused"]
    <3>1. /\ branchAt' = [branchAt EXCEPT ![b] = "refused"] /\ held' = [held EXCEPT ![b] = held[b]]
          /\ opened' = [opened EXCEPT ![b] = opened[b]] /\ file' = [file EXCEPT ![b] = file[b]]
      BY <1>6, <2>1, <2>4
    <3> QED
      BY <1>4, <1>5, <1>7, <2>2, <3>1
  <2> QED
    BY <2>1, <2>3, <2>4
<1>9. CASE Pack!Restore(b)
  <2>1. /\ held[b] = Pack!Nothing /\ branchAt[b] \notin {"new", "refused", "done"}
        /\ UNCHANGED opened
        /\ \/ /\ held' = [held EXCEPT ![b] = pinned]
              /\ branchAt' = [branchAt EXCEPT ![b] = branchAt[b]]
              /\ file' = IF branchAt[b] = "feedback"
                         THEN [file EXCEPT ![b].feedback = "none"] ELSE file
           \/ UNCHANGED <<held, file>> /\ branchAt' = [branchAt EXCEPT ![b] = "refused"]
    BY <1>9 DEF Pack!Restore, Pack!Load, Pack!Loaded, Pack!Moved, Pack!None
  <2>2. /\ ~opened[b] /\ "refused" \in Stages
        /\ SoundBranch("refused", held[b], opened[b], file[b], pinned)
        /\ SoundBranch(branchAt[b], pinned, opened[b], file[b], pinned)
    BY <1>4, <1>7, <2>1 DEF SoundBranch, Stages
  <2>3. CASE UNCHANGED <<held, file>> /\ branchAt' = [branchAt EXCEPT ![b] = "refused"]
    <3>1. /\ branchAt' = [branchAt EXCEPT ![b] = "refused"] /\ held' = [held EXCEPT ![b] = held[b]]
          /\ opened' = [opened EXCEPT ![b] = opened[b]] /\ file' = [file EXCEPT ![b] = file[b]]
      BY <1>6, <2>1, <2>3
    <3> QED
      BY <1>4, <1>5, <1>7, <2>2, <3>1
  <2>4. CASE /\ held' = [held EXCEPT ![b] = pinned]
             /\ branchAt' = [branchAt EXCEPT ![b] = branchAt[b]]
             /\ file' = file
    <3>1. /\ branchAt' = [branchAt EXCEPT ![b] = branchAt[b]] /\ held' = [held EXCEPT ![b] = pinned]
          /\ opened' = [opened EXCEPT ![b] = opened[b]] /\ file' = [file EXCEPT ![b] = file[b]]
      BY <1>6, <2>1, <2>4
    <3> QED
      BY <1>4, <1>5, <1>7, <2>2, <3>1
  <2>5. CASE /\ held' = [held EXCEPT ![b] = pinned] /\ branchAt[b] = "feedback"
             /\ branchAt' = [branchAt EXCEPT ![b] = branchAt[b]]
             /\ file' = [file EXCEPT ![b].feedback = "none"]
    <3> DEFINE g == [file[b] EXCEPT !["feedback"] = "none"]
    <3>1. file' = [file EXCEPT ![b] = g]
      BY <1>0, <2>5 DEF PackTypes
    <3>2. g \in [ResultFiles -> Found \cup {"partial"}]
      BY <1>7 DEF Found, ResultFiles
    <3>3. /\ g["feedback"] = "none" /\ g["first"] = file[b]["first"]
          /\ g["paired"] = file[b]["paired"]
      BY <1>7 DEF ResultFiles
    <3>4. SoundBranch("feedback", pinned, opened[b], g, pinned)
      BY <1>7, <2>2, <2>5, <3>3 DEF SoundBranch
    <3> HIDE DEF g
    <3>5. /\ branchAt' = [branchAt EXCEPT ![b] = "feedback"] /\ held' = [held EXCEPT ![b] = pinned]
          /\ opened' = [opened EXCEPT ![b] = opened[b]] /\ "feedback" \in Stages
      BY <1>4, <1>6, <2>1, <2>5
    <3> QED
      BY <1>4, <1>5, <3>1, <3>2, <3>4, <3>5
  <2> QED
    BY <2>1, <2>3, <2>4, <2>5
<1>10. CASE Pack!Open(b)
  <2>1. /\ held[b] = pinned /\ branchAt[b] \in ResultFiles /\ ~opened[b] /\ UNCHANGED held
        /\ \/ /\ file' = [file EXCEPT ![b][branchAt[b]] = "partial"]
              /\ file[b][branchAt[b]] = "none"
              /\ opened' = [opened EXCEPT ![b] = TRUE] /\ UNCHANGED branchAt
           \/ /\ file[b][branchAt[b]] = Pack!Part(b) /\ UNCHANGED <<file, opened>>
              /\ branchAt' = [branchAt EXCEPT ![b] = Pack!Following(b)]
           \/ UNCHANGED <<file, opened>> /\ branchAt' = [branchAt EXCEPT ![b] = "refused"]
    BY <1>7, <1>10 DEF Pack!Open, Pack!Importing, Pack!Same, Pack!Moved, Pack!None, Pack!Partial,
                       SoundBranch, ResultFiles
  <2>2. CASE UNCHANGED <<file, opened>> /\ branchAt' = [branchAt EXCEPT ![b] = "refused"]
    <3>1. SoundBranch("refused", held[b], opened[b], file[b], pinned) /\ "refused" \in Stages
      BY <1>7, <2>1 DEF SoundBranch, Stages
    <3>2. /\ branchAt' = [branchAt EXCEPT ![b] = "refused"] /\ held' = [held EXCEPT ![b] = held[b]]
          /\ opened' = [opened EXCEPT ![b] = opened[b]] /\ file' = [file EXCEPT ![b] = file[b]]
      BY <1>6, <2>1, <2>2
    <3> QED
      BY <1>4, <1>5, <1>7, <3>1, <3>2
  <2>3. CASE /\ file' = [file EXCEPT ![b][branchAt[b]] = "partial"]
             /\ file[b][branchAt[b]] = "none"
             /\ opened' = [opened EXCEPT ![b] = TRUE] /\ UNCHANGED branchAt
    <3> DEFINE g == [file[b] EXCEPT ![branchAt[b]] = "partial"]
    <3>1. file' = [file EXCEPT ![b] = g] /\ g \in [ResultFiles -> Found \cup {"partial"}]
      BY <1>0, <1>7, <2>1, <2>3 DEF PackTypes
    <3>2. \A f \in ResultFiles : g[f] = IF f = branchAt[b] THEN "partial" ELSE file[b][f]
      BY <1>7
    <3>3. SoundBranch(branchAt[b], held[b], TRUE, g, pinned)
      <4>1. branchAt[b] \in {"first", "feedback", "paired"}
        BY <2>1 DEF ResultFiles
      <4>2. /\ g["first"] = IF branchAt[b] = "first" THEN "partial" ELSE file[b]["first"]
            /\ g["feedback"] = IF branchAt[b] = "feedback" THEN "partial" ELSE file[b]["feedback"]
            /\ g["paired"] = IF branchAt[b] = "paired" THEN "partial" ELSE file[b]["paired"]
        BY <3>2 DEF ResultFiles
      <4> HIDE DEF g
      <4>3. branchAt[b] \in ResultFiles /\ held[b] # Pack!Nothing /\ branchAt[b] # "new"
        BY <1>2, <2>1, <4>1
      <4> QED
        BY <1>7, <4>1, <4>2, <4>3 DEF SoundBranch
    <3> HIDE DEF g
    <3>4. /\ branchAt' = [branchAt EXCEPT ![b] = branchAt[b]] /\ held' = [held EXCEPT ![b] = held[b]]
          /\ opened' = [opened EXCEPT ![b] = TRUE] /\ file' = [file EXCEPT ![b] = g]
      BY <1>6, <2>1, <2>3, <3>1
    <3> QED
      BY <1>4, <1>5, <3>1, <3>3, <3>4
  <2>4. CASE /\ file[b][branchAt[b]] = Pack!Part(b) /\ UNCHANGED <<file, opened>>
             /\ branchAt' = [branchAt EXCEPT ![b] = Pack!Following(b)]
    <3>1. /\ branchAt[b] = "first" => Pack!Following(b) = "feedback" /\ Pack!Part(b) = pinned.decision
          /\ branchAt[b] = "feedback" => Pack!Following(b) = "propose" /\ Pack!Part(b) = pinned.records
          /\ branchAt[b] = "paired" => Pack!Following(b) = "done" /\ Pack!Part(b) = pinned.decision
      BY <2>1 DEF Pack!Following, Pack!Part
    <3>2. branchAt[b] \in {"first", "feedback", "paired"}
      BY <2>1 DEF ResultFiles
    <3>3. /\ SoundBranch(Pack!Following(b), held[b], opened[b], file[b], pinned)
          /\ Pack!Following(b) \in Stages
      BY <1>3, <1>7, <2>1, <2>4, <3>1, <3>2 DEF SoundBranch, Stages
    <3>4. /\ branchAt' = [branchAt EXCEPT ![b] = Pack!Following(b)] /\ held' = [held EXCEPT ![b] = held[b]]
          /\ opened' = [opened EXCEPT ![b] = opened[b]] /\ file' = [file EXCEPT ![b] = file[b]]
      BY <1>6, <2>1, <2>4
    <3> QED
      BY <1>4, <1>5, <1>7, <3>3, <3>4
  <2> QED
    BY <2>1, <2>2, <2>3, <2>4
<1>11. CASE Pack!Write(b)
  <2>1. /\ opened[b] /\ opened' = [opened EXCEPT ![b] = FALSE] /\ UNCHANGED held
        /\ file' = [file EXCEPT ![b][branchAt[b]] = Pack!Part(b)]
        /\ branchAt' = [branchAt EXCEPT ![b] = Pack!Following(b)]
        /\ branchAt[b] \in {"first", "feedback", "paired"} /\ held[b] = pinned
    BY <1>7, <1>11 DEF Pack!Write, Pack!Moved, SoundBranch, ResultFiles
  <2>2. /\ branchAt[b] = "first" => Pack!Following(b) = "feedback" /\ Pack!Part(b) = pinned.decision
        /\ branchAt[b] = "feedback" => Pack!Following(b) = "propose" /\ Pack!Part(b) = pinned.records
        /\ branchAt[b] = "paired" => Pack!Following(b) = "done" /\ Pack!Part(b) = pinned.decision
    BY <2>1 DEF Pack!Following, Pack!Part
  <2> DEFINE g == [file[b] EXCEPT ![branchAt[b]] = Pack!Part(b)]
  <2>3. Pack!Part(b) \in Found /\ Pack!Following(b) \in Stages
    BY <1>3, <2>1, <2>2 DEF Stages
  <2>4. file' = [file EXCEPT ![b] = g] /\ g \in [ResultFiles -> Found \cup {"partial"}]
    BY <1>0, <1>7, <2>1, <2>3 DEF PackTypes
  <2>5. /\ g["first"] = IF branchAt[b] = "first" THEN Pack!Part(b) ELSE file[b]["first"]
        /\ g["feedback"] = IF branchAt[b] = "feedback" THEN Pack!Part(b) ELSE file[b]["feedback"]
        /\ g["paired"] = IF branchAt[b] = "paired" THEN Pack!Part(b) ELSE file[b]["paired"]
    BY <1>7 DEF ResultFiles
  <2> HIDE DEF g
  <2>6. SoundBranch(Pack!Following(b), held[b], FALSE, g, pinned)
    BY <1>3, <1>7, <2>1, <2>2, <2>5 DEF SoundBranch
  <2>7. /\ branchAt' = [branchAt EXCEPT ![b] = Pack!Following(b)] /\ held' = [held EXCEPT ![b] = held[b]]
        /\ opened' = [opened EXCEPT ![b] = FALSE] /\ file' = [file EXCEPT ![b] = g]
    BY <1>6, <2>1, <2>4
  <2> QED
    BY <1>4, <1>5, <2>3, <2>4, <2>6, <2>7
<1>12. CASE Pack!Propose(b)
  <2>1. PICK s \in {"done", "paired"} :
            /\ branchAt[b] = "propose" /\ branchAt' = [branchAt EXCEPT ![b] = s]
            /\ UNCHANGED <<file, held, opened>>
    BY <1>12 DEF Pack!Propose, Pack!Moved
  <2>2. SoundBranch(s, held[b], opened[b], file[b], pinned) /\ s \in Stages
    BY <1>7, <2>1 DEF SoundBranch, Stages, ResultFiles
  <2>3. /\ branchAt' = [branchAt EXCEPT ![b] = s] /\ held' = [held EXCEPT ![b] = held[b]]
        /\ opened' = [opened EXCEPT ![b] = opened[b]] /\ file' = [file EXCEPT ![b] = file[b]]
    BY <1>6, <2>1
  <2> QED
    BY <1>4, <1>5, <1>7, <2>2, <2>3
<1>13. CASE Pack!Kill(b)
  <2>1. /\ branchAt' = [branchAt EXCEPT ![b] = IF branchAt[b] = "propose" THEN "feedback" ELSE branchAt[b]]
        /\ held' = [held EXCEPT ![b] = Pack!Nothing] /\ opened' = [opened EXCEPT ![b] = FALSE]
        /\ UNCHANGED file
    BY <1>13 DEF Pack!Kill, Pack!Moved
  <2>2. PICK s \in Stages : s = IF branchAt[b] = "propose" THEN "feedback" ELSE branchAt[b]
    BY <1>4 DEF Stages
  <2>3. SoundBranch(s, Pack!Nothing, FALSE, file[b], pinned)
    BY <1>7, <2>2 DEF SoundBranch
  <2>4. /\ branchAt' = [branchAt EXCEPT ![b] = s] /\ held' = [held EXCEPT ![b] = Pack!Nothing]
        /\ opened' = [opened EXCEPT ![b] = FALSE] /\ file' = [file EXCEPT ![b] = file[b]]
    BY <1>6, <2>1, <2>2
  <2> QED
    BY <1>4, <1>5, <1>7, <2>3, <2>4
<1> QED
  BY <1>8, <1>9, <1>10, <1>11, <1>12, <1>13

LEMMA PackKeeps ==
    ASSUME Pack!PackAssumption, PackInv, Pack!Next \/ UNCHANGED packVars PROVE PackInv'
<1>1. CASE UNCHANGED packVars
  BY <1>1 DEF packVars, PackInv, PackTypes, PackIsSound, Pack!PacketTellsRecords,
              Pack!WholePack, ImportsFollow, BranchSound
<1>2. CASE Pack!Next
  BY <1>2, SourceMoves, PinKeeps, BranchKeeps DEF Pack!Next
<1> QED
  BY <1>1, <1>2

LEMMA PackResult == ASSUME PackInv PROVE Pack!CommonBaseline
<1>1. Pack!HeldIsPinned /\ Pack!ImportsArePinned
  BY DEF PackInv, ImportsFollow, BranchSound, SoundBranch, Pack!HeldIsPinned,
         Pack!ImportsArePinned, Pack!None, Pack!Partial
<1>2. Pack!DecidedOnWhole /\ Pack!PacketTellsRecords
  BY DEF PackInv, PackIsSound, ImportsFollow, BranchSound, SoundBranch, Pack!DecidedOnWhole,
         Pack!Partial
<1> QED
  BY <1>1, <1>2 DEF Pack!CommonBaseline

(* However exports, interruptions and kills cross, every branch starts     *)
(* from the one pack whose digest the experiment fixed, and its packet     *)
(* tells the statuses and rewards of its records, for any branches,        *)
(* outcomes and bounds.                                                    *)
THEOREM BaselineStaysCommon == Spec => []CommonBaseline
<1>1. Init => PackInv
  BY PackInit, Assumptions DEF Init
<1>2. PackInv /\ [Next]_operation => PackInv'
  BY PackKeeps, OperationStep, Assumptions
<1>3. PackInv => CommonBaseline
  BY PackResult DEF CommonBaseline
<1> QED
  BY <1>1, <1>2, <1>3, PTL DEF Spec

-----------------------------------------------------------------------------
(* What a search may write                                                 *)

(* The plan a lease or a refusal is about, and where each strategy is.     *)
PlanDecided ==
    /\ step = "leased" => Search!Valid /\ lease = Search!Writable(plan)
    /\ step = "refused" => ~Search!Valid
    /\ plan \subseteq Regions

CatalogSound ==
    /\ Search!Normalized /\ Search!Masked /\ mask.ceiling \in Search!Levels
    /\ catalog.risk \in [Regions -> Search!Levels]

Lower == {l \in Search!Open : l < active}
Missed == {k \in DOMAIN outcomes : outcomes[k] # "promoted"}

(* Every level below the one that is searched was left after its misses.   *)
LevelsPaidFor ==
    /\ Cardinality(Lower) \in 0..Len(outcomes)
    /\ Cardinality(Missed) >= Cardinality(Lower) * Misses + misses

StrategyAt ==
    /\ searcher \in {"linear", "progressive"}
    /\ searcher = "linear" => active = mask.ceiling
    /\ searcher = "progressive" =>
         /\ active \in Search!Open /\ misses \in 0..Misses /\ exhausted \in BOOLEAN
         /\ Search!MissedLast(misses)
         /\ exhausted => misses = Misses /\ Search!Above = {} /\ step = "propose"
         /\ ~exhausted => misses < Misses
         /\ LevelsPaidFor

Happened == {"promoted", "missed"}

SearchInv == PlanDecided /\ CatalogSound /\ StrategyAt /\ outcomes \in Seq(Happened)

LEMMA LevelNumbers ==
    ASSUME Search!SearchAssumption
    PROVE  Search!Levels \subseteq Nat \ {0} /\ IsFiniteSet(Search!Levels)
<1>1. Len(LevelPaths) \in Nat /\ Search!Levels = 1..Len(LevelPaths)
  BY DEF Search!SearchAssumption, Search!Levels
<1>2. 1 \in Int /\ Len(LevelPaths) \in Int
  BY <1>1
<1>3. IsFiniteSet(1..Len(LevelPaths))
  BY <1>2, FS_Interval
<1>4. 1..Len(LevelPaths) \subseteq Nat \ {0}
  BY <1>1
<1> QED
  BY <1>1, <1>3, <1>4

(* A set of numbers that is not empty has a least one, and Min finds it.   *)
LEMMA LeastNumber ==
    ASSUME NEW S \in SUBSET Nat, S # {}
    PROVE  Search!Min(S) \in S /\ \A y \in S : Search!Min(S) <= y
<1> DEFINE Order == OpToRel(<, Nat)
<1>1. IsWellFoundedOn(Order, Nat)
  BY NatLessThanWellFounded
<1>2. PICK k \in S : \A j \in S : ~(<<j, k>> \in Order)
  <2> HIDE DEF Order
  <2> QED
    BY <1>1, WFMin
<1>3. \A j \in S : j < k => <<j, k>> \in Order
  BY DEF OpToRel
<1>4. \A j \in S : ~(j < k)
  <2> HIDE DEF Order
  <2> QED
    BY <1>2, <1>3
<1>5. \A j \in S : k <= j
  BY <1>4
<1> QED
  BY <1>5 DEF Search!Min

(* A greatest number is what Max finds.                                    *)
LEMMA GreatestNumber ==
    ASSUME NEW S \in SUBSET Nat, NEW m \in S, \A y \in S : y <= m
    PROVE  Search!Max(S) = m
<1> DEFINE x == Search!Max(S)
<1>1. x \in S /\ \A y \in S : x >= y
  BY DEF Search!Max
<1>2. x >= m /\ x <= m
  BY <1>1
<1> HIDE DEF x
<1>3. x = m
  BY <1>1, <1>2
<1> QED
  BY <1>3 DEF x

LEMMA SearchInit ==
    ASSUME Search!SearchAssumption, Search!Init PROVE SearchInv
<1>1. /\ outcomes = <<>> /\ misses = 0 /\ ~exhausted /\ exhausted \in BOOLEAN /\ step = "propose" /\ plan = {}
      /\ searcher \in {"linear", "progressive"}
      /\ active = IF searcher = "linear" THEN mask.ceiling ELSE 1
      /\ Search!Normalized /\ Search!Masked /\ Search!Startable
      /\ mask.ceiling \in Search!Levels /\ catalog.risk \in [Regions -> Search!Levels]
  BY DEF Search!Init
<1>2. Missed = {} /\ Cardinality(Missed) = 0
  BY <1>1, FS_EmptySet DEF Missed
<1>3. ASSUME searcher = "progressive"
      PROVE  /\ active \in Search!Open /\ Search!MissedLast(misses)
             /\ misses < Misses /\ LevelsPaidFor
  <2>1. active = 1 /\ 1 \in Search!Open
    BY <1>1, <1>3 DEF Search!Startable
  <2>2. Lower = {}
    BY <2>1, LevelNumbers DEF Lower, Search!Open
  <2>3. Cardinality(Lower) = 0 /\ Len(outcomes) = 0
    BY <1>1, <2>2, FS_EmptySet
  <2>4. LevelsPaidFor
    BY <1>1, <1>2, <2>3 DEF LevelsPaidFor, Search!SearchAssumption
  <2> QED
    BY <1>1, <2>1, <2>4 DEF Search!MissedLast, Search!SearchAssumption
<1>4. misses \in 0..Misses
  BY <1>1 DEF Search!SearchAssumption
<1>5. StrategyAt
  BY <1>1, <1>3, <1>4 DEF StrategyAt
<1>6. PlanDecided /\ CatalogSound
  BY <1>1 DEF PlanDecided, CatalogSound
<1>7. outcomes \in Seq(Happened)
  BY <1>1
<1> QED
  BY <1>5, <1>6, <1>7 DEF SearchInv

(* Nothing that the definitions look at changes with a proposal.           *)
LEMMA ProposalsKeep ==
    ASSUME SearchInv, UNCHANGED <<catalog, mask, searcher, active, misses, exhausted, outcomes>>,
           searcher = "progressive" => ~exhausted,
           plan' \subseteq Regions,
           step' = "planned" \/ step' = "propose"
              \/ (step' = "leased" /\ Search!Valid' /\ lease' = Search!Writable(plan)')
              \/ (step' = "refused" /\ ~Search!Valid')
    PROVE  SearchInv'
<1>1. PlanDecided'
  BY DEF PlanDecided
<1>2. CatalogSound'
  BY DEF SearchInv, CatalogSound, Search!Normalized, Search!Masked, Search!Levels, Search!Selected,
         Search!UpTo, Search!Writable, Search!Acyclic
<1>3. StrategyAt'
  <2>1. Search!Open' = Search!Open /\ Lower' = Lower /\ Missed' = Missed /\ Search!Above' = Search!Above
    BY DEF Search!Open, Search!Levels, Search!Selected, Search!UpTo, Lower, Missed, Search!Above
  <2>2. Search!MissedLast(misses)' = Search!MissedLast(misses)
    BY DEF Search!MissedLast
  <2> QED
    BY <2>1, <2>2 DEF SearchInv, StrategyAt, LevelsPaidFor
<1>4. outcomes' \in Seq(Happened)
  BY DEF SearchInv
<1> QED
  BY <1>1, <1>2, <1>3, <1>4 DEF SearchInv

(* The misses so far: one more after a missed generation.                  *)
LEMMA MissesCount ==
    ASSUME NEW outcome \in Happened, outcomes \in Seq(Happened), outcomes' = Append(outcomes, outcome)
    PROVE  /\ Len(outcomes') = Len(outcomes) + 1 /\ Len(outcomes) \in Nat
           /\ outcomes' \in Seq(Happened)
           /\ Cardinality(Missed) \in Nat
           /\ Cardinality(Missed') = Cardinality(Missed) + (IF outcome = "promoted" THEN 0 ELSE 1)
           /\ \A n \in Nat : Search!MissedLast(n) /\ outcome = "missed" => Search!MissedLast(n + 1)'
<1> DEFINE n == Len(outcomes)
<1>1. /\ n \in Nat /\ outcomes' \in Seq(Happened) /\ Len(outcomes') = n + 1
      /\ \A k \in 1..n : outcomes'[k] = outcomes[k]
      /\ outcomes'[n + 1] = outcome
  <2> HIDE DEF Happened
  <2> QED
    BY Appended
<1>2. DOMAIN outcomes = 1..n /\ DOMAIN outcomes' = 1..(n + 1)
  BY <1>1
<1>3. IsFiniteSet(Missed) /\ n + 1 \notin Missed
  <2>1. IsFiniteSet(1..n)
    <3>1. 1 \in Int /\ n \in Int
      BY <1>1
    <3> QED
      BY <3>1, FS_Interval
  <2> QED
    BY <1>1, <1>2, <2>1, FS_Subset DEF Missed
<1>4. Missed' = IF outcome = "promoted" THEN Missed ELSE Missed \cup {n + 1}
  BY <1>1, <1>2 DEF Missed
<1>5. ASSUME NEW k \in Nat, Search!MissedLast(k), outcome = "missed"
      PROVE  Search!MissedLast(k + 1)'
  <2>1. k <= n /\ \A i \in n - k + 1..n : outcomes[i] # "promoted"
    BY <1>5 DEF Search!MissedLast
  <2>2. \A i \in (n + 1) - (k + 1) + 1..(n + 1) : outcomes'[i] # "promoted"
    BY <1>1, <1>5, <2>1
  <2> QED
    BY <1>1, <2>1, <2>2 DEF Search!MissedLast
<1> QED
  BY <1>1, <1>3, <1>4, <1>5, OneMore, FS_CardinalityType

LEMMA Product == ASSUME NEW c \in Nat, NEW m \in Nat PROVE c * m \in Nat /\ (c + 1) * m = c * m + m
  OBVIOUS

LEMMA ProgressiveObserves ==
    ASSUME Search!SearchAssumption, SearchInv, searcher = "progressive",
           NEW outcome \in Happened, Search!Observe(outcome)
    PROVE  SearchInv'
<1> PICK after : after = Search!MissesAfter(outcome)
  OBVIOUS
<1>1. /\ step = "leased" /\ step' = "propose" /\ outcomes' = Append(outcomes, outcome)
      /\ UNCHANGED <<catalog, mask, searcher, plan>>
  BY DEF Search!Observe
<1>2. /\ Misses \in Nat \ {0} /\ active \in Search!Open /\ misses \in 0..Misses /\ exhausted = FALSE
      /\ misses < Misses /\ Search!MissedLast(misses) /\ LevelsPaidFor /\ outcomes \in Seq(Happened)
  BY <1>1 DEF SearchInv, StrategyAt, Search!SearchAssumption
<1>3. /\ after = IF outcome = "promoted" THEN 0 ELSE misses + 1
      /\ after \in 0..Misses
  BY <1>2 DEF Search!MissesAfter
<1>4. \/ after < Misses /\ misses' = after /\ UNCHANGED <<active, exhausted>>
      \/ after = Misses /\ Search!Above # {} /\ active' = Search!Min(Search!Above) /\ misses' = 0 /\ UNCHANGED exhausted
      \/ after = Misses /\ Search!Above = {} /\ misses' = after /\ exhausted' = TRUE /\ UNCHANGED active
  BY <1>2, <1>3 DEF Search!Observe, Search!search
<1>5. Search!Open' = Search!Open /\ Search!Open \subseteq Nat /\ IsFiniteSet(Search!Open)
  BY <1>1, LevelNumbers, FS_Subset DEF Search!Open, Search!Levels, Search!Selected, Search!UpTo
<1>6. IsFiniteSet(Lower) /\ Cardinality(Lower) \in Nat
  BY <1>5, FS_Subset, FS_CardinalityType DEF Lower
<1>7. Search!MissedLast(after)'
  <2>1. CASE outcome = "promoted"
    <3>1. after = 0 /\ Len(outcomes') \in Nat
      BY <1>1, <1>2, <1>3, <2>1, MissesCount
    <3> QED
      BY <3>1 DEF Search!MissedLast
  <2>2. CASE outcome = "missed"
    BY <1>1, <1>2, <1>3, <2>2, MissesCount
  <2> QED
    BY <2>1, <2>2 DEF Happened
<1>8. Search!MissedLast(0)'
  BY <1>1, <1>2, MissesCount DEF Search!MissedLast
<1>9. /\ Cardinality(Missed') >= Cardinality(Lower) * Misses + after /\ Cardinality(Missed') \in Nat
      /\ Cardinality(Lower) \in 0..Len(outcomes') /\ Cardinality(Lower) + 1 \in 0..Len(outcomes')
  <2>1. Cardinality(Lower) * Misses \in Nat
    BY <1>2, <1>6, Product
  <2> DEFINE p == Cardinality(Lower) * Misses
  <2>2. Cardinality(Missed) >= p + misses /\ Cardinality(Lower) \in 0..Len(outcomes)
    BY <1>2 DEF LevelsPaidFor
  <2> HIDE DEF p
  <2>3. p \in Nat
    BY <2>1 DEF p
  <2>4. /\ Len(outcomes') = Len(outcomes) + 1 /\ Len(outcomes) \in Nat
        /\ Cardinality(Missed) \in Nat
        /\ Cardinality(Missed') = Cardinality(Missed) + (IF outcome = "promoted" THEN 0 ELSE 1)
    BY <1>1, <1>2, MissesCount
  <2>5. Cardinality(Missed') >= p + after /\ Cardinality(Missed') \in Nat
    BY <1>2, <1>3, <2>2, <2>3, <2>4
  <2> QED
    BY <1>6, <2>2, <2>4, <2>5 DEF p
<1>10. StrategyAt'
  <2>1. CASE after < Misses /\ misses' = after /\ UNCHANGED <<active, exhausted>>
    <3>1. Lower' = Lower
      BY <1>5, <2>1 DEF Lower
    <3>2. LevelsPaidFor'
      BY <1>9, <2>1, <3>1 DEF LevelsPaidFor
    <3>3. Search!MissedLast(misses)'
      BY <1>7, <2>1 DEF Search!MissedLast
    <3> QED
      BY <1>1, <1>2, <1>3, <1>5, <2>1, <3>2, <3>3 DEF StrategyAt
  <2>2. CASE /\ after = Misses /\ Search!Above # {} /\ active' = Search!Min(Search!Above)
             /\ misses' = 0 /\ UNCHANGED exhausted
    <3>1. Search!Above \subseteq Search!Open /\ Search!Above \in SUBSET Nat
      BY <1>5 DEF Search!Above
    <3>2. active' \in Search!Above /\ \A l \in Search!Above : active' <= l
      BY <2>2, <3>1, LeastNumber
    <3>3. Lower' = Lower \cup {active} /\ active \notin Lower
      <4>1. active \in Nat /\ active' \in Nat /\ active < active'
        BY <1>2, <1>5, <3>1, <3>2 DEF Search!Above
      <4>2. \A l \in Search!Open : l < active' <=> l < active \/ l = active
        BY <1>5, <3>1, <3>2, <4>1 DEF Search!Above
      <4>3. Lower' = {l \in Search!Open : l < active'}
        BY <1>5 DEF Lower
      <4>4. ~(active < active)
        BY <4>1
      <4>5. active \notin Lower
        BY <4>4 DEF Lower
      <4>6. Lower' = Lower \cup {active}
        <5> DEFINE before == {l \in Search!Open : l < active}
        <5>1. Lower' = before \cup {active}
          BY <1>2, <4>2, <4>3
        <5> QED
          BY <5>1 DEF Lower
      <4> QED
        BY <4>5, <4>6
    <3>4. Cardinality(Lower') = Cardinality(Lower) + 1
      BY <1>6, <3>3, OneMore
    <3>5. (Cardinality(Lower) + 1) * Misses = Cardinality(Lower) * Misses + Misses
      BY <1>2, <1>6, Product
    <3>6. Cardinality(Missed') >= Cardinality(Lower') * Misses + misses'
      <4> DEFINE p == Cardinality(Lower) * Misses
                 q == Cardinality(Lower') * Misses
      <4>1. p \in Nat /\ q = p + Misses
        BY <1>2, <1>6, <3>4, <3>5, Product
      <4>2. Cardinality(Missed') >= p + Misses
        BY <1>9, <2>2
      <4> HIDE DEF p, q
      <4>3. Cardinality(Missed') >= q + misses'
        BY <1>2, <1>9, <2>2, <4>1, <4>2
      <4> QED
        BY <4>3 DEF q
    <3>7. LevelsPaidFor'
      BY <1>9, <3>4, <3>6 DEF LevelsPaidFor
    <3>8. Search!MissedLast(misses)'
      BY <1>8, <2>2 DEF Search!MissedLast
    <3> QED
      <4>1. active' \in Search!Open' /\ misses' \in 0..Misses /\ exhausted' = FALSE /\ misses' < Misses
        BY <1>2, <1>5, <2>2, <3>1, <3>2
      <4>2. searcher' = "progressive"
        BY <1>1
      <4> QED
        BY <4>1, <4>2, <3>7, <3>8 DEF StrategyAt
  <2>3. CASE after = Misses /\ Search!Above = {} /\ misses' = after /\ exhausted' = TRUE /\ UNCHANGED active
    <3>1. Lower' = Lower /\ Search!Above' = Search!Above
      BY <1>5, <2>3 DEF Lower, Search!Above
    <3>2. LevelsPaidFor'
      BY <1>9, <2>3, <3>1 DEF LevelsPaidFor
    <3>3. Search!MissedLast(misses)'
      BY <1>7, <2>3 DEF Search!MissedLast
    <3> QED
      BY <1>1, <1>2, <1>3, <1>5, <2>3, <3>1, <3>2, <3>3 DEF StrategyAt
  <2> QED
    BY <1>4, <2>1, <2>2, <2>3
<1>11. PlanDecided'
  BY <1>1 DEF SearchInv, PlanDecided
<1>12. CatalogSound'
  BY <1>1 DEF SearchInv, CatalogSound, Search!Normalized, Search!Masked, Search!Levels, Search!Selected,
         Search!UpTo, Search!Writable, Search!Acyclic
<1>13. outcomes' \in Seq(Happened)
  BY <1>1, <1>2, MissesCount
<1> QED
  BY <1>10, <1>11, <1>12, <1>13 DEF SearchInv

LEMMA SearchKeeps ==
    ASSUME Search!SearchAssumption, SearchInv, Search!Next \/ UNCHANGED searchVars PROVE SearchInv'
<1>1. CASE Search!Propose
  <2>1. Search!Proposed \subseteq Regions
    BY DEF Search!Proposed, Search!UpTo
  <2> QED
    BY <1>1, <2>1, ProposalsKeep DEF Search!Propose, Search!search
<1>2. CASE Search!ProposeAnything
  BY <1>2, ProposalsKeep DEF Search!ProposeAnything, Search!search
<1>3. CASE Search!Issue
  <2>1. /\ Search!Valid' = Search!Valid /\ Search!Writable(plan)' = Search!Writable(plan)
        /\ plan' = plan /\ plan \subseteq Regions
    BY <1>3 DEF Search!Issue, Search!Valid, Search!Selected, Search!UpTo, Search!Writable, SearchInv, PlanDecided
  <2>2. searcher = "progressive" => ~exhausted
    BY <1>3 DEF Search!Issue, SearchInv, StrategyAt
  <2>3. \/ step' = "leased" /\ Search!Valid /\ lease' = Search!Writable(plan)
        \/ step' = "refused" /\ ~Search!Valid
    BY <1>3 DEF Search!Issue
  <2> QED
    BY <1>3, <2>1, <2>2, <2>3, ProposalsKeep DEF Search!Issue, Search!search
<1>4. ASSUME NEW outcome \in {"promoted", "missed"}, Search!Observe(outcome) PROVE SearchInv'
  <2>1. CASE searcher = "progressive"
    BY <1>4, <2>1, ProgressiveObserves DEF Happened
  <2>2. CASE searcher = "linear"
    BY <1>4, <2>2, ProposalsKeep DEF Search!Observe, Search!search, SearchInv, PlanDecided
  <2> QED
    BY <2>1, <2>2 DEF SearchInv, StrategyAt
<1>5. CASE UNCHANGED searchVars
  <2>1. PlanDecided'
    BY <1>5 DEF searchVars, SearchInv, PlanDecided, Search!Valid, Search!Selected, Search!UpTo, Search!Writable
  <2>2. CatalogSound'
    BY <1>5 DEF searchVars, SearchInv, CatalogSound, Search!Normalized, Search!Masked, Search!Levels, Search!Selected,
           Search!UpTo, Search!Writable, Search!Acyclic
  <2>3. StrategyAt'
    <3>1. Search!Open' = Search!Open /\ Lower' = Lower /\ Missed' = Missed /\ Search!Above' = Search!Above
      BY <1>5 DEF searchVars, Search!Open, Search!Levels, Search!Selected, Search!UpTo, Lower, Missed, Search!Above
    <3>2. Search!MissedLast(misses)' = Search!MissedLast(misses)
      BY <1>5 DEF searchVars, Search!MissedLast
    <3> QED
      BY <1>5, <3>1, <3>2 DEF searchVars, SearchInv, StrategyAt, LevelsPaidFor
  <2> QED
    BY <1>5, <2>1, <2>2, <2>3 DEF searchVars, SearchInv
<1> QED
  BY <1>1, <1>2, <1>3, <1>4, <1>5 DEF Search!Next

(* A plan of the built-in strategies has all that its regions require.     *)
LEMMA OwnPlansAreClosed ==
    ASSUME Search!SearchAssumption, SearchInv, plan = Search!Proposed
    PROVE  /\ plan # {} /\ plan \subseteq Search!Selected
           /\ \A r \in plan : catalog.requires[r] \subseteq plan
<1>1. Search!Levels \subseteq Nat
  BY LevelNumbers
<1>2. active \in Search!Levels
  BY DEF SearchInv, StrategyAt, CatalogSound, Search!Open
<1>3. /\ Search!Masked /\ Search!Normalized /\ catalog.risk \in [Regions -> Search!Levels]
      /\ mask.ceiling \in Search!Levels
  BY DEF SearchInv, CatalogSound
<1>4. Search!Selected \subseteq Regions
  BY DEF Search!Selected, Search!UpTo
<1>5. plan # {}
  <2>1. CASE searcher = "linear"
    <3>1. plan = Search!Selected
      BY <2>1 DEF SearchInv, StrategyAt, Search!Proposed, Search!Selected, Search!UpTo
    <3> QED
      BY <1>3, <3>1 DEF Search!Masked
  <2>2. CASE searcher = "progressive"
    <3>1. PICK r \in Search!Selected : catalog.risk[r] = active
      BY <2>2 DEF SearchInv, StrategyAt, Search!Open
    <3>2. active <= active
      BY <1>1, <1>2
    <3>3. r \in Search!UpTo(active)
      BY <1>4, <3>1, <3>2 DEF Search!UpTo
    <3> QED
      BY <3>1, <3>3 DEF Search!Proposed
  <2> QED
    BY <2>1, <2>2 DEF SearchInv, StrategyAt
<1>6. ASSUME NEW r \in plan, NEW q \in catalog.requires[r] PROVE q \in plan
  <2>1. r \in Search!Selected /\ r \in Regions /\ catalog.risk[r] <= active
    BY <1>4 DEF Search!Proposed, Search!UpTo
  <2>2. q \in Search!Selected /\ q \in Regions
    BY <1>3, <1>4, <2>1 DEF Search!Masked
  <2>3. catalog.risk[q] <= catalog.risk[r]
    BY <1>3, <2>1 DEF Search!Normalized
  <2>4. catalog.risk[q] \in Nat /\ catalog.risk[r] \in Nat /\ active \in Nat
    BY <1>1, <1>2, <1>3, <2>1, <2>2
  <2>5. catalog.risk[q] <= active
    BY <2>1, <2>3, <2>4
  <2> QED
    BY <2>2, <2>5 DEF Search!Proposed, Search!UpTo
<1> QED
  BY <1>5, <1>6 DEF Search!Proposed

LEMMA SearchResult ==
    ASSUME Search!SearchAssumption, SearchInv PROVE Search!SearchIsSound
<1>1. Search!LeaseIsAuthorized
  <2> SUFFICES ASSUME step = "leased"
               PROVE  /\ lease \subseteq LevelPaths[mask.ceiling]
                      /\ plan \cap mask.exclude = {}
                      /\ \A r, q \in plan : q \notin catalog.conflicts[r]
                      /\ \A r \in plan, q \in Regions \ plan : q \notin catalog.requires[r]
    BY DEF Search!LeaseIsAuthorized
  <2>1. Search!Valid /\ lease = Search!Writable(plan) /\ plan \subseteq Search!Selected
    BY DEF SearchInv, PlanDecided, Search!Valid
  <2>2. Search!Writable(Search!UpTo(mask.ceiling)) = LevelPaths[mask.ceiling]
    BY DEF SearchInv, CatalogSound, Search!Normalized
  <2>3. plan \subseteq Search!UpTo(mask.ceiling) /\ plan \cap mask.exclude = {}
    BY <2>1 DEF Search!Selected
  <2>4. lease \subseteq LevelPaths[mask.ceiling]
    BY <2>1, <2>2, <2>3 DEF Search!Writable
  <2> QED
    BY <2>1, <2>3, <2>4 DEF Search!Valid
<1>2. Search!WidensWhenStuck
  <2> SUFFICES ASSUME searcher = "progressive"
               PROVE  /\ exhausted => Search!MissedLast(Misses) /\ active = Search!Max(Search!Open) /\ step = "propose"
                      /\ misses = Search!Max({n \in 0 .. misses : Search!MissedLast(n)})
                      /\ ~exhausted => misses < Misses
                      /\ \E climbs \in 0 .. Len(outcomes) :
                           /\ climbs = Search!Cardinality({l \in Search!Open : l < active})
                           /\ Search!Cardinality({k \in DOMAIN outcomes : outcomes[k] # "promoted"})
                                >= climbs * Misses + misses
    BY DEF Search!WidensWhenStuck
  <2>1. /\ active \in Search!Open /\ misses \in Nat /\ Search!MissedLast(misses)
        /\ exhausted => misses = Misses /\ Search!Above = {} /\ step = "propose"
        /\ ~exhausted => misses < Misses
        /\ LevelsPaidFor
    BY DEF SearchInv, StrategyAt, Search!SearchAssumption
  <2>2. Search!Open \in SUBSET Nat
    BY LevelNumbers DEF Search!Open
  <2>3. ASSUME exhausted PROVE active = Search!Max(Search!Open)
    <3>1. \A l \in Search!Open : l <= active
      BY <2>1, <2>2, <2>3 DEF Search!Above
    <3> QED
      BY <2>1, <2>2, <3>1, GreatestNumber
  <2>4. misses = Search!Max({n \in 0 .. misses : Search!MissedLast(n)})
    <3> DEFINE S == {n \in 0 .. misses : Search!MissedLast(n)}
    <3>1. S \in SUBSET Nat /\ misses \in S /\ \A n \in S : n <= misses
      BY <2>1
    <3> HIDE DEF S
    <3>2. Search!Max(S) = misses
      BY <3>1, GreatestNumber
    <3> QED
      BY <3>2 DEF S
  <2>5. \A S : Search!Cardinality(S) = Cardinality(S)
    BY DEF Search!Cardinality, Cardinality, Search!IsFiniteSet, IsFiniteSet
  <2>6. /\ Search!Cardinality({l \in Search!Open : l < active}) = Cardinality(Lower)
        /\ Search!Cardinality({k \in DOMAIN outcomes : outcomes[k] # "promoted"}) = Cardinality(Missed)
    BY <2>5 DEF Lower, Missed
  <2> QED
    BY <2>1, <2>3, <2>4, <2>6 DEF LevelsPaidFor
<1>3. Search!OwnPlansAreValid
  <2> SUFFICES ASSUME step = "refused", plan = Search!Proposed
               PROVE  \E r \in plan : catalog.conflicts[r] \cap plan # {}
    BY DEF Search!OwnPlansAreValid
  <2>1. ~Search!Valid
    BY DEF SearchInv, PlanDecided
  <2> QED
    BY <2>1, OwnPlansAreClosed DEF Search!Valid
<1> QED
  BY <1>1, <1>2, <1>3 DEF Search!SearchIsSound

(* For any regions, any levels of paths and any catalog and mask that the  *)
(* controller takes: a lease stays within the ceiling, the search widens   *)
(* only after its misses, and a plan of a built-in strategy is refused only*)
(* for a conflict in it.                                                   *)
THEOREM SearchStaysSound == Spec => []SearchIsSound
<1>1. Init => SearchInv
  BY SearchInit, Assumptions DEF Init
<1>2. SearchInv /\ [Next]_operation => SearchInv'
  BY SearchKeeps, OperationStep, Assumptions
<1>3. SearchInv => SearchIsSound
  BY SearchResult, Assumptions DEF SearchIsSound
<1> QED
  BY <1>1, <1>2, <1>3, PTL DEF Spec

-----------------------------------------------------------------------------
(* The private gateway of an updater run                                   *)

Served == {"unsent", "body", "key", "upstream", "finally", "over"}
InFlight == {r \in Calls : req[r] \in Updater!Awaiting}

UpdaterTypes ==
    /\ req \in [Calls -> Served] /\ audits \in [Calls -> Nat]
    /\ serving \in Nat /\ total \in Nat

(* Counters and records of the requests.                                   *)
CallsCounted ==
    /\ IsFiniteSet(InFlight) /\ serving = Cardinality(InFlight)
    /\ serving <= Concurrency /\ total <= CallBudget
    /\ \A r \in Calls : audits[r] = IF req[r] \in {"finally", "over"} THEN 1 ELSE 0

(* A rule is in force while its run goes on; one that may have stayed      *)
(* poisons the gateway, and no other run is started.                       *)
OneRule ==
    /\ ~poison /\ phase \in {"running", "releasing"} => rules = {run}
    /\ ~poison /\ phase \notin {"running", "releasing"} => rules = {}
    /\ poison => phase \in {"closing", "idle"} /\ \E k : rules \subseteq {k}

UpdaterInv == UpdaterTypes /\ CallsCounted /\ OneRule

LEMMA UpdaterInit == ASSUME Updater!GatewayAssumption, Updater!Init PROVE UpdaterInv
<1>1. InFlight = {} /\ UpdaterTypes /\ OneRule
  BY DEF Updater!Init, InFlight, UpdaterTypes, OneRule, Served, Updater!Awaiting
<1>2. IsFiniteSet({}) /\ Cardinality({}) = 0
  BY FS_EmptySet
<1> QED
  BY <1>1, <1>2 DEF Updater!Init, Updater!GatewayAssumption, UpdaterInv, CallsCounted

(* One request moves on; the counter follows it into flight and out of it. *)
LEMMA CallMoves ==
    ASSUME UpdaterTypes, CallsCounted, NEW r \in Calls, NEW s \in Served,
           req' = [req EXCEPT ![r] = s],
           serving' = serving + (IF s \in Updater!Awaiting THEN 1 ELSE 0)
                              - (IF req[r] \in Updater!Awaiting THEN 1 ELSE 0),
           serving' <= Concurrency, total' \in Nat, total' <= CallBudget,
           \/ audits' = audits /\ (req[r] \in {"finally", "over"} <=> s \in {"finally", "over"})
           \/ /\ audits' = [audits EXCEPT ![r] = @ + 1]
              /\ req[r] \notin {"finally", "over"} /\ s \in {"finally", "over"}
    PROVE  UpdaterTypes' /\ CallsCounted'
<1>1. /\ req' \in [Calls -> Served] /\ req'[r] = s
      /\ \A q \in Calls : q # r => req'[q] = req[q]
  BY DEF UpdaterTypes
<1>2. /\ audits' \in [Calls -> Nat]
      /\ \A q \in Calls : audits'[q] = IF req'[q] \in {"finally", "over"} THEN 1 ELSE 0
  BY <1>1 DEF UpdaterTypes, CallsCounted
<1>3. InFlight \ {r} \subseteq InFlight /\ r \notin InFlight \ {r}
  OBVIOUS
<1>4. IsFiniteSet(InFlight \ {r})
  BY <1>3, FS_Subset DEF CallsCounted
<1>5. /\ req[r] \in Updater!Awaiting => InFlight = (InFlight \ {r}) \cup {r}
      /\ req[r] \notin Updater!Awaiting => InFlight = InFlight \ {r}
      /\ s \in Updater!Awaiting => InFlight' = (InFlight \ {r}) \cup {r}
      /\ s \notin Updater!Awaiting => InFlight' = InFlight \ {r}
  BY <1>1 DEF InFlight, UpdaterTypes
<1>6. /\ Cardinality(InFlight \ {r}) \in Nat
      /\ Cardinality((InFlight \ {r}) \cup {r}) = Cardinality(InFlight \ {r}) + 1
      /\ IsFiniteSet((InFlight \ {r}) \cup {r})
  BY <1>3, <1>4, OneMore
<1>7. /\ IsFiniteSet(InFlight') /\ Cardinality(InFlight') \in Nat
      /\ Cardinality(InFlight') = Cardinality(InFlight) + (IF s \in Updater!Awaiting THEN 1 ELSE 0)
                                   - (IF req[r] \in Updater!Awaiting THEN 1 ELSE 0)
  <2> DEFINE k == Cardinality(InFlight \ {r})
  <2>1. /\ Cardinality(InFlight) = IF req[r] \in Updater!Awaiting THEN k + 1 ELSE k
        /\ Cardinality(InFlight') = IF s \in Updater!Awaiting THEN k + 1 ELSE k
    BY <1>5, <1>6
  <2>2. IsFiniteSet(InFlight') /\ k \in Nat
    BY <1>4, <1>5, <1>6
  <2> HIDE DEF k
  <2> QED
    BY <2>1, <2>2
<1>8. serving' = Cardinality(InFlight')
  BY <1>7 DEF CallsCounted
<1> QED
  BY <1>1, <1>2, <1>7, <1>8 DEF UpdaterTypes, CallsCounted

LEMMA UpdaterKeeps ==
    ASSUME Updater!GatewayAssumption, UpdaterInv, Updater!Next \/ UNCHANGED updaterVars
    PROVE  UpdaterInv'
<1>0. UpdaterTypes /\ CallsCounted /\ OneRule
  BY DEF UpdaterInv
<1>1. ASSUME UNCHANGED <<req, serving, total, audits>> PROVE UpdaterTypes' /\ CallsCounted'
  BY <1>0, <1>1 DEF UpdaterTypes, CallsCounted, InFlight
<1>2. ASSUME UNCHANGED <<run, phase, poison, rules>> PROVE OneRule'
  BY <1>0, <1>2 DEF OneRule
<1>3. CASE UNCHANGED updaterVars
  BY <1>1, <1>2, <1>3 DEF updaterVars, UpdaterInv
<1>4. CASE Updater!StartRun
  <2>1. CASE poison
    BY <1>0, <1>1, <1>4, <2>1 DEF Updater!StartRun, Updater!served, UpdaterInv, OneRule
  <2>2. CASE ~poison
    <3>1. InFlight' = {} /\ UpdaterTypes' /\ serving' = 0 /\ total' = 0
      BY <1>4, <2>2 DEF Updater!StartRun, Updater!FreshGateway, InFlight, UpdaterTypes, Served,
                        Updater!Awaiting
    <3>2. IsFiniteSet({}) /\ Cardinality({}) = 0
      BY FS_EmptySet
    <3>3. CallsCounted'
      BY <1>4, <2>2, <3>1, <3>2 DEF Updater!StartRun, Updater!FreshGateway, CallsCounted,
                                    Updater!GatewayAssumption
    <3> QED
      BY <1>0, <1>4, <2>2, <3>1, <3>3 DEF Updater!StartRun, OneRule, UpdaterInv
  <2> QED
    BY <2>1, <2>2
<1>5. CASE Updater!AcquireLease \/ Updater!LeaseFails \/ Updater!UpdaterEnds \/ Updater!Close
  <2>1. UpdaterTypes' /\ CallsCounted'
    BY <1>1, <1>5 DEF Updater!AcquireLease, Updater!LeaseFails, Updater!UpdaterEnds, Updater!Close,
                      Updater!served
  <2>2. OneRule'
    BY <1>0, <1>5 DEF Updater!AcquireLease, Updater!LeaseFails, Updater!UpdaterEnds, Updater!Close,
                      OneRule
  <2> QED
    BY <2>1, <2>2 DEF UpdaterInv
<1>6. CASE Updater!ReleaseLease
  <2>1. UpdaterTypes' /\ CallsCounted'
    BY <1>1, <1>6 DEF Updater!ReleaseLease, Updater!served
  <2>2. OneRule'
    BY <1>0, <1>6 DEF Updater!ReleaseLease, OneRule
  <2> QED
    BY <2>1, <2>2 DEF UpdaterInv
<1>7. ASSUME NEW r \in Calls,
             \/ Updater!Receive(r) \/ Updater!ReadBody(r) \/ Updater!LoadKey(r)
             \/ Updater!Upstream(r) \/ Updater!Finally(r)
      PROVE  UpdaterInv'
  <2>1. UNCHANGED <<run, phase, poison, rules>>
    BY <1>7 DEF Updater!Receive, Updater!ReadBody, Updater!LoadKey, Updater!Upstream,
                Updater!Finally, Updater!Proceed, Updater!End
  <2>0. /\ serving \in Int /\ Concurrency \in Int /\ serving <= Concurrency
        /\ total \in Nat /\ total <= CallBudget
    BY <1>0 DEF UpdaterTypes, CallsCounted, Updater!GatewayAssumption
  <2>1a. /\ Served = {"unsent", "body", "key", "upstream", "finally", "over"}
         /\ Updater!Awaiting = {"body", "key", "upstream", "finally"}
    BY DEF Served, Updater!Awaiting
  <2>2. CASE Updater!Receive(r)
    <3>1. total' \in Nat /\ total' <= CallBudget /\ req[r] = "unsent"
      BY <1>0, <2>2 DEF Updater!Receive, UpdaterTypes, CallsCounted, Updater!GatewayAssumption
    <3>2. CASE total < CallBudget /\ serving < Concurrency
      <4>1. req' = [req EXCEPT ![r] = "body"] /\ serving' = serving + 1 /\ audits' = audits
        BY <2>2, <3>2 DEF Updater!Receive
      <4>2. serving' <= Concurrency
        BY <2>0, <3>2, <4>1
      <4>3. "body" \in Served /\ "body" \in Updater!Awaiting /\ req[r] \notin Updater!Awaiting
        BY <2>1a, <3>1
      <4>4. /\ serving' = serving + (IF "body" \in Updater!Awaiting THEN 1 ELSE 0)
                                  - (IF req[r] \in Updater!Awaiting THEN 1 ELSE 0)
            /\ req[r] \in {"finally", "over"} <=> "body" \in {"finally", "over"}
        BY <2>0, <3>1, <4>1, <4>3
      <4>5. UpdaterTypes' /\ CallsCounted'
        BY <1>0, <3>1, <4>1, <4>2, <4>3, <4>4, CallMoves
      <4> QED
        BY <1>2, <2>1, <4>5 DEF UpdaterInv
    <3>3. CASE ~(total < CallBudget /\ serving < Concurrency)
      <4>1. /\ req' = [req EXCEPT ![r] = "over"] /\ serving' = serving
            /\ audits' = [audits EXCEPT ![r] = @ + 1]
        BY <2>2, <3>3 DEF Updater!Receive, Updater!Audit
      <4>2. "over" \in Served /\ "over" \notin Updater!Awaiting /\ req[r] \notin Updater!Awaiting
        BY <2>1a, <3>1
      <4>3. /\ serving' = serving + (IF "over" \in Updater!Awaiting THEN 1 ELSE 0)
                                  - (IF req[r] \in Updater!Awaiting THEN 1 ELSE 0)
            /\ serving' <= Concurrency
            /\ req[r] \notin {"finally", "over"} /\ "over" \in {"finally", "over"}
        BY <2>0, <3>1, <4>1, <4>2
      <4>4. UpdaterTypes' /\ CallsCounted'
        BY <1>0, <3>1, <4>1, <4>2, <4>3, CallMoves
      <4> QED
        BY <1>2, <2>1, <4>4 DEF UpdaterInv
    <3> QED
      BY <3>2, <3>3
  <2>3. ASSUME NEW s \in {"key", "upstream"}, req[r] \in {"body", "key"}, Updater!Proceed(r, s)
        PROVE  UpdaterInv'
    <3>1. /\ req' = [req EXCEPT ![r] = s] /\ serving' = serving /\ total' = total
          /\ audits' = audits
      BY <2>3 DEF Updater!Proceed
    <3>2. s \in Served /\ s \in Updater!Awaiting /\ req[r] \in Updater!Awaiting
      BY <2>1a, <2>3
    <3>3. /\ serving' = serving + (IF s \in Updater!Awaiting THEN 1 ELSE 0)
                                - (IF req[r] \in Updater!Awaiting THEN 1 ELSE 0)
          /\ serving' <= Concurrency /\ total' \in Nat /\ total' <= CallBudget
          /\ req[r] \in {"finally", "over"} <=> s \in {"finally", "over"}
      BY <2>0, <2>3, <3>1, <3>2
    <3>4. UpdaterTypes' /\ CallsCounted'
      BY <1>0, <3>1, <3>2, <3>3, CallMoves
    <3> QED
      BY <1>2, <2>1, <3>4 DEF UpdaterInv
  <2>4. ASSUME NEW origin, req[r] \in {"body", "key", "upstream"}, Updater!End(r, origin)
        PROVE  UpdaterInv'
    <3>1. /\ serving' = serving /\ total' = total
          /\ req' = [req EXCEPT ![r] = "finally"] /\ audits' = [audits EXCEPT ![r] = @ + 1]
      BY <2>4 DEF Updater!End, Updater!Audit
    <3>2. "finally" \in Served /\ "finally" \in Updater!Awaiting /\ req[r] \in Updater!Awaiting
      BY <2>1a, <2>4
    <3>3. /\ serving' = serving + (IF "finally" \in Updater!Awaiting THEN 1 ELSE 0)
                                - (IF req[r] \in Updater!Awaiting THEN 1 ELSE 0)
          /\ serving' <= Concurrency /\ total' \in Nat /\ total' <= CallBudget
          /\ req[r] \notin {"finally", "over"} /\ "finally" \in {"finally", "over"}
      BY <2>0, <2>4, <3>1, <3>2
    <3>4. UpdaterTypes' /\ CallsCounted'
      BY <1>0, <3>1, <3>2, <3>3, CallMoves
    <3> QED
      BY <1>2, <2>1, <3>4 DEF UpdaterInv
  <2>5. CASE Updater!Finally(r)
    <3>1. /\ req[r] = "finally" /\ req' = [req EXCEPT ![r] = "over"]
          /\ serving' = serving - 1 /\ total' = total /\ audits' = audits
      BY <2>5 DEF Updater!Finally
    <3>2. "over" \in Served /\ "over" \notin Updater!Awaiting /\ req[r] \in Updater!Awaiting
      BY <2>1a, <3>1
    <3>3. /\ serving' = serving + (IF "over" \in Updater!Awaiting THEN 1 ELSE 0)
                                - (IF req[r] \in Updater!Awaiting THEN 1 ELSE 0)
          /\ serving' <= Concurrency /\ total' \in Nat /\ total' <= CallBudget
          /\ req[r] \in {"finally", "over"} <=> "over" \in {"finally", "over"}
      BY <2>0, <3>1, <3>2
    <3>4. UpdaterTypes' /\ CallsCounted'
      BY <1>0, <3>1, <3>2, <3>3, CallMoves
    <3> QED
      BY <1>2, <2>1, <3>4 DEF UpdaterInv
  <2> QED
    BY <1>7, <2>2, <2>3, <2>4, <2>5 DEF Updater!ReadBody, Updater!LoadKey, Updater!Upstream
<1> QED
  BY <1>3, <1>4, <1>5, <1>6, <1>7 DEF Updater!Next

LEMMA UpdaterResult ==
    ASSUME UpdaterInv PROVE Updater!CountsAreInFlight /\ Updater!RulesNeverOverlap
<1>1. \A S : Updater!Cardinality(S) = Cardinality(S)
  BY DEF Updater!Cardinality, Cardinality
<1>2. \E k : rules \subseteq {k}
  BY DEF UpdaterInv, OneRule
<1>3. ASSUME NEW k, rules \subseteq {k} PROVE Cardinality(rules) <= 1
  <2>1. CASE rules = {}
    BY <2>1, FS_EmptySet
  <2>2. CASE rules # {}
    <3>1. rules = {k}
      BY <1>3, <2>2
    <3>2. Cardinality({k}) = 1
      BY FS_Singleton
    <3> QED
      BY <3>1, <3>2
  <2> QED
    BY <2>1, <2>2
<1> QED
  BY <1>1, <1>2, <1>3
  DEF UpdaterInv, CallsCounted, InFlight, Updater!CountsAreInFlight, Updater!RulesNeverOverlap

-----------------------------------------------------------------------------
(* What the gateway of an evaluation counts                                *)

Counters == Trials \cup {"role"}
Counts == [accepted : Int, active : Int, known : Int, unknown : Int]
UnderWay == {"receiving", "asking", "waiting", "streaming"}
Sendings ==
    [phase : {"unsent", "denied", "done"} \cup UnderWay, trial : Trials \cup {"none"},
     attempt : Nat, known : BOOLEAN, answer : {"none", "control", "not-json", "provider", "unproven", "final"}]

UsageTypes ==
    /\ request \in [Requests -> Sendings] /\ usage \in [Counters -> Counts]
    /\ log \in [Trials -> Seq(Requests)]
    /\ trial \in [Trials -> {"unregistered", "open", "exited", "closed", "unmeasured"}]
    /\ verdict \in [Trials -> {"none", "complete", "partial"}]
    /\ blame \in [Trials -> {"none", "candidate", "other"}]
    /\ batch \in [number : Nat, open : BOOLEAN, before : Counts, members : SUBSET Trials,
                  complete : BOOLEAN]

SendingsSound ==
    \A r \in Requests :
        /\ request[r].phase = "unsent" <=> request[r].trial = "none"
        /\ request[r].known => request[r].phase = "done"

(* The requests a counter stands for.                                      *)
Charges(c) ==
    {r \in Requests : request[r].phase \notin {"unsent", "denied"} /\ (c = "role" \/ request[r].trial = c)}
Awaited(c) == {r \in Charges(c) : request[r].phase # "done"}
Measured(c) == {r \in Charges(c) : request[r].known}
CountsAreCharges ==
    \A c \in Counters :
        /\ IsFiniteSet(Charges(c))
        /\ usage[c].accepted = Cardinality(Charges(c))
        /\ usage[c].active = Cardinality(Awaited(c))
        /\ usage[c].known = Cardinality(Measured(c))

(* A trial has no request before it is registered, a closed one no open    *)
(* request, and all of them are in its log.                                *)
TrialBooks ==
    \A t \in Trials :
        /\ \A r \in Usage!Of(t) : \E i \in DOMAIN log[t] : log[t][i] = r
        /\ trial[t] = "unregistered" => Usage!Of(t) = {}
        /\ trial[t] = "closed" => \A r \in Usage!Of(t) : request[r].phase \in {"denied", "done"}
        /\ verdict[t] = "complete" \/ blame[t] = "candidate" => trial[t] = "closed"

(* What was charged before the batch has no trial in it, and a first       *)
(* reading without open requests is a reading of those for good.           *)
Before == {r \in Charges("role") : request[r].trial \notin batch.members}
Within == Charges("role") \ Before
BatchBooks ==
    /\ \A t \in Trials :
           ~(batch.open /\ t \in batch.members) => trial[t] \notin {"open", "exited"}
    /\ batch.open =>
         /\ batch.before.accepted = Cardinality(Before)
         /\ batch.before.active = 0 =>
              /\ \A r \in Before : request[r].phase = "done"
              /\ batch.before.known = Cardinality(Before \cap Measured("role"))
    /\ ~batch.open /\ batch.complete /\ batch.before.active = 0 =>
         \A r \in Within : request[r].phase = "done" /\ request[r].known

UsageInv ==
    /\ UsageTypes /\ SendingsSound /\ CountsAreCharges /\ TrialBooks /\ BatchBooks
    /\ Usage!TrialsMeasured /\ Usage!BlameIsProven

LEMMA UsageInit == ASSUME Usage!GatewayAssumption, Usage!Init PROVE UsageInv
<1>1. /\ \A r \in Requests : request[r].phase = "unsent" /\ request[r].trial = "none" /\ ~request[r].known
      /\ \A c \in Counters : usage[c].accepted = 0 /\ usage[c].active = 0 /\ usage[c].known = 0
      /\ \A t \in Trials : trial[t] = "unregistered" /\ verdict[t] = "none" /\ blame[t] = "none"
      /\ ~batch.open /\ ~batch.complete
  BY DEF Usage!Init, Usage!NoUsage, Counters
<1>2. UsageTypes
  BY DEF Usage!Init, Usage!NoUsage, UsageTypes, Sendings, Counts, Counters
<1>3. \A t \in Trials : Usage!Of(t) = {}
  BY <1>1 DEF Usage!Of, Usage!GatewayAssumption
<1>4. \A c \in Counters : Charges(c) = {} /\ Awaited(c) = {} /\ Measured(c) = {}
  BY <1>1 DEF Charges, Awaited, Measured
<1>5. CountsAreCharges
  BY <1>1, <1>4, FS_EmptySet DEF CountsAreCharges
<1>6. TrialBooks
  BY <1>1, <1>3 DEF TrialBooks
<1>7. BatchBooks
  BY <1>1 DEF BatchBooks
<1>8. Usage!TrialsMeasured /\ Usage!BlameIsProven
  BY <1>1 DEF Usage!TrialsMeasured, Usage!BlameIsProven
<1>9. SendingsSound
  BY <1>1 DEF SendingsSound
<1> QED
  BY <1>2, <1>5, <1>6, <1>7, <1>8, <1>9 DEF UsageInv

LEMMA ChargesAreFinite ==
    ASSUME CountsAreCharges, NEW c \in Counters
    PROVE  /\ IsFiniteSet(Charges(c)) /\ IsFiniteSet(Awaited(c)) /\ IsFiniteSet(Measured(c))
           /\ Cardinality(Charges(c)) \in Nat /\ Cardinality(Awaited(c)) \in Nat
           /\ Cardinality(Measured(c)) \in Nat
<1>1. Awaited(c) \in SUBSET Charges(c) /\ Measured(c) \in SUBSET Charges(c)
  BY DEF Awaited, Measured
<1> QED
  BY <1>1, FS_Subset, FS_CardinalityType DEF CountsAreCharges

(* A counter at zero, or two that are equal, speak of every request.       *)
LEMMA CountersSpeak ==
    ASSUME CountsAreCharges, NEW c \in Counters
    PROVE  /\ usage[c].active = 0 => \A r \in Charges(c) : request[r].phase = "done"
           /\ usage[c].known = usage[c].accepted => \A r \in Charges(c) : request[r].known
<1>1. ASSUME usage[c].active = 0 PROVE Awaited(c) = {}
  BY <1>1, ChargesAreFinite, FS_EmptySet DEF CountsAreCharges
<1>2. ASSUME usage[c].known = usage[c].accepted PROVE Measured(c) = Charges(c)
  <2>1. Measured(c) \in SUBSET Charges(c) /\ IsFiniteSet(Charges(c))
    BY DEF Measured, CountsAreCharges
  <2>2. Cardinality(Charges(c)) = Cardinality(Measured(c))
    BY <1>2 DEF CountsAreCharges
  <2> QED
    BY <2>1, <2>2, FS_Subset
<1> QED
  BY <1>1, <1>2 DEF Awaited, Measured

(* What counts as completely measured between two readings.                *)
LEMMA CompleteReadings ==
    ASSUME NEW before \in Counts, NEW after \in Counts, Usage!Complete(before, after)
    PROVE  after.active = 0 /\ after.known - before.known = after.accepted - before.accepted
<1>1. /\ Usage!Delta(before, after)["unknown"] = after.unknown - before.unknown
      /\ Usage!Delta(before, after)["known"] = after.known - before.known
      /\ Usage!Delta(before, after)["accepted"] = after.accepted - before.accepted
  BY DEF Usage!Delta, Counts
<1> QED
  BY <1>1 DEF Usage!Complete, Counts

(* What Charged does to the counters of a trial and of the role.           *)
LEMMA ChargedCounts ==
    ASSUME usage \in [Counters -> Counts], NEW t \in Trials,
           NEW a \in Int, NEW b \in Int, NEW k \in Int, NEW u \in Int,
           usage' = Usage!Charged(t, a, b, k, u)
    PROVE  /\ usage' \in [Counters -> Counts]
           /\ \A c \in Counters :
                IF c \in {"role", t}
                THEN /\ usage'[c].accepted = usage[c].accepted + a
                     /\ usage'[c].active = usage[c].active + b /\ usage'[c].known = usage[c].known + k
                ELSE usage'[c] = usage[c]
<1>1. DOMAIN usage = Counters
  OBVIOUS
<1>2. ASSUME NEW c \in Counters
      PROVE  /\ usage'[c] \in Counts
             /\ IF c \in {"role", t}
                THEN /\ usage'[c].accepted = usage[c].accepted + a
                     /\ usage'[c].active = usage[c].active + b /\ usage'[c].known = usage[c].known + k
                ELSE usage'[c] = usage[c]
  <2>1. usage[c] \in Counts
    OBVIOUS
  <2>2. CASE c \in {"role", t}
    <3>1. usage'[c] = [accepted |-> usage[c].accepted + a, active |-> usage[c].active + b,
                       known |-> usage[c].known + k, unknown |-> usage[c].unknown + u]
      BY <1>1, <2>2 DEF Usage!Charged
    <3> QED
      BY <2>1, <2>2, <3>1 DEF Counts
  <2>3. CASE c \notin {"role", t}
    BY <1>1, <2>1, <2>3 DEF Usage!Charged
  <2> QED
    BY <2>2, <2>3
<1>3. usage' = [c \in Counters |-> usage'[c]]
  BY <1>1 DEF Usage!Charged
<1> QED
  BY <1>2, <1>3

(* The books after a request has moved on.                                 *)
LEMMA SendingMoves ==
    ASSUME Usage!GatewayAssumption, UsageInv, NEW r \in Requests, request[r].phase \in UnderWay,
           NEW q \in Sendings, q.trial = request[r].trial,
           request' = [request EXCEPT ![r] = q],
           UNCHANGED <<log, trial, process, verdict, blame, batch>>,
           usage' \in [Counters -> Counts],
           \/ q.phase \in UnderWay /\ ~q.known /\ usage' = usage
           \/ /\ q.phase = "done"
              /\ \A c \in Counters :
                   IF c \in {"role", request[r].trial}
                   THEN /\ usage'[c].accepted = usage[c].accepted
                        /\ usage'[c].active = usage[c].active - 1
                        /\ usage'[c].known = usage[c].known + (IF q.known THEN 1 ELSE 0)
                   ELSE usage'[c] = usage[c]
    PROVE  UsageInv'
<1> DEFINE t == request[r].trial
<1>1. /\ request' \in [Requests -> Sendings] /\ request'[r] = q
      /\ \A x \in Requests : x # r => request'[x] = request[x]
      /\ \A x \in Requests : request'[x].trial = request[x].trial
  BY DEF UsageInv, UsageTypes
<1>2. t \in Trials /\ ~request[r].known
  BY DEF UsageInv, SendingsSound, UsageTypes, Sendings, UnderWay
<1>3. UsageTypes'
  BY <1>1 DEF UsageInv, UsageTypes
<1>4. SendingsSound'
  BY <1>1, <1>2 DEF UsageInv, SendingsSound, UnderWay, Usage!GatewayAssumption
<1>5. \A x \in Requests :
        (request'[x].phase \in {"unsent", "denied"} <=> request[x].phase \in {"unsent", "denied"})
  BY <1>1 DEF UnderWay
<1>6. ASSUME NEW c \in Counters
      PROVE  /\ Charges(c)' = Charges(c)
             /\ IF q.phase = "done" /\ r \in Charges(c)
                THEN Awaited(c)' = Awaited(c) \ {r} /\ r \in Awaited(c) ELSE Awaited(c)' = Awaited(c)
             /\ IF q.known /\ r \in Charges(c)
                THEN Measured(c)' = Measured(c) \cup {r} /\ r \notin Measured(c)
                ELSE Measured(c)' = Measured(c)
             /\ r \in Charges(c) <=> c \in {"role", t}
  <2>1. Charges(c)' = Charges(c)
    BY <1>1, <1>5 DEF Charges
  <2>2. r \in Charges(c) <=> c \in {"role", t}
    BY DEF Charges, UnderWay
  <2>3. IF q.phase = "done" /\ r \in Charges(c)
        THEN Awaited(c)' = Awaited(c) \ {r} /\ r \in Awaited(c) ELSE Awaited(c)' = Awaited(c)
    BY <1>1, <2>1 DEF Awaited, UnderWay, Charges
  <2>4. IF q.known /\ r \in Charges(c)
        THEN Measured(c)' = Measured(c) \cup {r} /\ r \notin Measured(c) ELSE Measured(c)' = Measured(c)
    BY <1>1, <1>2, <2>1 DEF Measured, Charges
  <2> QED
    BY <2>1, <2>2, <2>3, <2>4
<1>7. CountsAreCharges'
  <2> SUFFICES ASSUME NEW c \in Counters
               PROVE  /\ IsFiniteSet(Charges(c)')
                      /\ usage'[c].accepted = Cardinality(Charges(c)')
                      /\ usage'[c].active = Cardinality(Awaited(c)')
                      /\ usage'[c].known = Cardinality(Measured(c)')
    BY DEF CountsAreCharges, Counters
  <2>1. /\ CountsAreCharges /\ IsFiniteSet(Charges(c)) /\ IsFiniteSet(Awaited(c)) /\ IsFiniteSet(Measured(c))
        /\ Cardinality(Awaited(c)) \in Nat /\ Cardinality(Measured(c)) \in Nat
        /\ usage[c].accepted = Cardinality(Charges(c))
        /\ usage[c].active = Cardinality(Awaited(c))
        /\ usage[c].known = Cardinality(Measured(c))
    BY ChargesAreFinite DEF UsageInv, CountsAreCharges
  <2>2. q.phase \in UnderWay => q.phase # "done"
    BY DEF UnderWay
  <2>3. Cardinality(Awaited(c)') = IF q.phase = "done" /\ c \in {"role", t}
                                   THEN Cardinality(Awaited(c)) - 1 ELSE Cardinality(Awaited(c))
    BY <1>6, <2>1, FS_RemoveElement
  <2>4. Cardinality(Measured(c)') = IF q.known /\ c \in {"role", t}
                                    THEN Cardinality(Measured(c)) + 1 ELSE Cardinality(Measured(c))
    BY <1>6, <2>1, OneMore
  <2>5. CASE q.phase \in UnderWay /\ ~q.known /\ usage' = usage
    BY <1>6, <2>1, <2>2, <2>3, <2>4, <2>5
  <2>6. CASE c \in {"role", t} /\ q.phase = "done"
    BY <1>6, <2>1, <2>2, <2>3, <2>4, <2>6
  <2>7. CASE c \notin {"role", t} /\ q.phase = "done"
    BY <1>6, <2>1, <2>2, <2>3, <2>4, <2>7
  <2> QED
    BY <2>5, <2>6, <2>7
<1>8. \A u \in Trials : Usage!Of(u)' = Usage!Of(u)
  BY <1>1 DEF Usage!Of
<1>9. \A u \in Trials : trial[u] = "closed" => r \notin Usage!Of(u)
  BY DEF UsageInv, TrialBooks, UnderWay
<1>10. TrialBooks'
  BY <1>1, <1>8, <1>9 DEF UsageInv, TrialBooks, Usage!Of
<1>11. BatchBooks'
  <2>1. "role" \in Counters
    BY DEF Counters
  <2>2. Charges("role")' = Charges("role") /\ Before' = Before /\ Within' = Within
    BY <1>1, <1>6, <2>1 DEF Before, Within, Charges
  <2>3. r \in Charges("role") /\ request[r].phase # "done"
    BY DEF Charges, UnderWay
  <2>4. ASSUME batch.open, batch.before.active = 0
        PROVE  /\ \A x \in Before : request'[x].phase = "done"
               /\ (Before \cap Measured("role"))' = Before \cap Measured("role")
    <3>1. r \notin Before
      BY <2>3, <2>4 DEF UsageInv, BatchBooks
    <3> QED
      BY <1>1, <1>6, <2>1, <2>2, <2>4, <3>1 DEF UsageInv, BatchBooks, Before, Charges
  <2>5. ASSUME ~batch.open, batch.complete, batch.before.active = 0
        PROVE  \A x \in Within : request'[x].phase = "done" /\ request'[x].known
    <3>1. r \notin Within
      BY <2>3, <2>5 DEF UsageInv, BatchBooks
    <3> QED
      BY <1>1, <2>5, <3>1 DEF UsageInv, BatchBooks, Within, Charges
  <2> QED
    BY <2>2, <2>4, <2>5 DEF UsageInv, BatchBooks
<1>12. Usage!TrialsMeasured'
  <2> SUFFICES ASSUME NEW u \in Trials, verdict[u] = "complete", NEW x \in Usage!Accepted(u)'
               PROVE  request'[x].known
    BY DEF Usage!TrialsMeasured
  <2>1. x \in Usage!Of(u) /\ x # r
    BY <1>8, <1>9 DEF UsageInv, TrialBooks, Usage!Accepted
  <2>2. request'[x] = request[x]
    BY <1>1, <2>1 DEF Usage!Of
  <2> QED
    BY <2>1, <2>2 DEF UsageInv, Usage!TrialsMeasured, Usage!Accepted
<1>13. Usage!BlameIsProven'
  <2> SUFFICES ASSUME NEW u \in Trials, blame[u] = "candidate", NEW x \in Usage!Of(u)'
               PROVE  request'[x].answer = "final"
                         \/ (request'[x].answer = "not-json" /\ x = log[u][Len(log[u])])
    BY DEF Usage!BlameIsProven
  <2>1. x \in Usage!Of(u) /\ x # r
    BY <1>8, <1>9 DEF UsageInv, TrialBooks
  <2>2. request'[x] = request[x]
    BY <1>1, <2>1 DEF Usage!Of
  <2> QED
    BY <2>1, <2>2 DEF UsageInv, Usage!BlameIsProven
<1> QED
  BY <1>3, <1>4, <1>7, <1>10, <1>11, <1>12, <1>13 DEF UsageInv

(* A request is taken in or refused.                                       *)
LEMMA AcceptKeeps ==
    ASSUME Usage!GatewayAssumption, UsageInv, NEW r \in Requests, NEW t \in Trials, Usage!Accept(r, t)
    PROVE  UsageInv'
<1> PICK q : q = request'[r]
  OBVIOUS
<1>1. /\ request[r].phase = "unsent" /\ request[r].trial = "none" /\ ~request[r].known
      /\ trial[t] \in {"open", "exited"}
      /\ log' = [log EXCEPT ![t] = Append(log[t], r)]
      /\ UNCHANGED <<trial, process, verdict, blame, batch>>
  BY DEF Usage!Accept, Usage!driver, UsageInv, SendingsSound
<1>2. /\ request' = [request EXCEPT ![r] = q] /\ q \in Sendings /\ q.trial = t /\ ~q.known
      /\ q.phase \in {"receiving", "denied"}
      /\ q.phase = "receiving" => usage' = Usage!Charged(t, 1, 1, 0, 0)
      /\ q.phase = "denied" => usage' = usage
  <2>1. request \in [Requests -> Sendings] /\ request[r] \in Sendings /\ ~request[r].known
    BY <1>1 DEF UsageInv, UsageTypes
  <2>2. CASE /\ usage' = Usage!Charged(t, 1, 1, 0, 0)
             /\ request' = [request EXCEPT ![r].phase = "receiving", ![r].trial = t]
    <3>1. q = [request[r] EXCEPT !.phase = "receiving", !.trial = t]
      BY <2>1, <2>2
    <3>2. q \in Sendings /\ q.trial = t /\ q.phase = "receiving" /\ q.known = request[r].known
      BY <2>1, <3>1 DEF Sendings, UnderWay
    <3> QED
      BY <2>1, <2>2, <3>1, <3>2
  <2>3. CASE /\ request' = [request EXCEPT ![r].phase = "denied", ![r].trial = t, ![r].answer = "control"]
             /\ usage' = usage
    <3>1. q = [request[r] EXCEPT !.phase = "denied", !.trial = t, !.answer = "control"]
      BY <2>1, <2>3
    <3>2. q \in Sendings /\ q.trial = t /\ q.phase = "denied" /\ q.known = request[r].known
      BY <2>1, <3>1 DEF Sendings, UnderWay
    <3> QED
      BY <2>1, <2>3, <3>1, <3>2
  <2> QED
    BY <2>2, <2>3 DEF Usage!Accept
<1>3. /\ request' \in [Requests -> Sendings] /\ request'[r] = q
      /\ \A x \in Requests : x # r => request'[x] = request[x]
  BY <1>2 DEF UsageInv, UsageTypes
<1>4. /\ usage' \in [Counters -> Counts]
      /\ \A c \in Counters :
           IF c \in {"role", t} /\ q.phase = "receiving"
           THEN /\ usage'[c].accepted = usage[c].accepted + 1
                /\ usage'[c].active = usage[c].active + 1 /\ usage'[c].known = usage[c].known
           ELSE usage'[c] = usage[c]
  <2>1. usage \in [Counters -> Counts] /\ 1 \in Int /\ 0 \in Int
    BY DEF UsageInv, UsageTypes
  <2>2. CASE q.phase = "receiving"
    <3>1. usage' = Usage!Charged(t, 1, 1, 0, 0)
      BY <1>2, <2>2
    <3>2. /\ usage' \in [Counters -> Counts]
          /\ \A c \in Counters :
               IF c \in {"role", t}
               THEN /\ usage'[c].accepted = usage[c].accepted + 1
                    /\ usage'[c].active = usage[c].active + 1 /\ usage'[c].known = usage[c].known + 0
               ELSE usage'[c] = usage[c]
      BY <2>1, <3>1, ChargedCounts
    <3>3. \A c \in Counters : usage[c].known + 0 = usage[c].known
      BY <2>1 DEF Counts
    <3> QED
      BY <2>2, <3>2, <3>3
  <2>3. CASE q.phase = "denied"
    BY <1>2, <2>1, <2>3
  <2> QED
    BY <1>2, <2>2, <2>3
<1>5. /\ log' \in [Trials -> Seq(Requests)]
      /\ \A u \in Trials : u # t => log'[u] = log[u]
      /\ \A i \in DOMAIN log[t] : i \in DOMAIN log'[t] /\ log'[t][i] = log[t][i]
      /\ \E i \in DOMAIN log'[t] : log'[t][i] = r
  <2>1. log \in [Trials -> Seq(Requests)] /\ log[t] \in Seq(Requests)
    BY DEF UsageInv, UsageTypes
  <2>2. PICK n : n = Len(log[t])
    OBVIOUS
  <2>3. /\ n \in Nat /\ Append(log[t], r) \in Seq(Requests) /\ Len(Append(log[t], r)) = n + 1
        /\ \A k \in 1..n : Append(log[t], r)[k] = log[t][k]
        /\ Append(log[t], r)[n + 1] = r
    BY <2>1, <2>2, Appended
  <2>4. log'[t] = Append(log[t], r) /\ DOMAIN log[t] = 1..n /\ DOMAIN log'[t] = 1..(n + 1)
    BY <1>1, <2>1, <2>2, <2>3
  <2>5. n + 1 \in DOMAIN log'[t] /\ \A i \in DOMAIN log[t] : i \in DOMAIN log'[t]
    BY <2>3, <2>4
  <2> QED
    BY <1>1, <2>1, <2>3, <2>4, <2>5
<1>6. UsageTypes'
  BY <1>1, <1>3, <1>4, <1>5 DEF UsageInv, UsageTypes
<1>7. SendingsSound'
  BY <1>2, <1>3 DEF UsageInv, SendingsSound, Usage!GatewayAssumption
<1>8. ASSUME NEW c \in Counters
      PROVE  /\ r \notin Charges(c) /\ r \notin Awaited(c)
             /\ IF c \in {"role", t} /\ q.phase = "receiving"
                THEN Charges(c)' = Charges(c) \cup {r} /\ Awaited(c)' = Awaited(c) \cup {r}
                ELSE Charges(c)' = Charges(c) /\ Awaited(c)' = Awaited(c)
             /\ Measured(c)' = Measured(c)
  <2>1. r \notin Charges(c) /\ r \notin Awaited(c)
    BY <1>1 DEF Charges, Awaited
  <2>2. IF c \in {"role", t} /\ q.phase = "receiving"
        THEN Charges(c)' = Charges(c) \cup {r} ELSE Charges(c)' = Charges(c)
    BY <1>1, <1>2, <1>3 DEF Charges
  <2>3. IF c \in {"role", t} /\ q.phase = "receiving"
        THEN Awaited(c)' = Awaited(c) \cup {r} ELSE Awaited(c)' = Awaited(c)
    BY <1>2, <1>3, <2>1, <2>2 DEF Awaited, Charges
  <2>4. Measured(c)' = Measured(c)
    BY <1>2, <1>3, <2>1, <2>2 DEF Measured, Charges
  <2> QED
    BY <2>1, <2>2, <2>3, <2>4
<1>9. CountsAreCharges'
  <2> SUFFICES ASSUME NEW c \in Counters
               PROVE  /\ IsFiniteSet(Charges(c)')
                      /\ usage'[c].accepted = Cardinality(Charges(c)')
                      /\ usage'[c].active = Cardinality(Awaited(c)')
                      /\ usage'[c].known = Cardinality(Measured(c)')
    BY DEF CountsAreCharges, Counters
  <2>1. /\ IsFiniteSet(Charges(c)) /\ IsFiniteSet(Awaited(c))
        /\ usage[c].accepted = Cardinality(Charges(c))
        /\ usage[c].active = Cardinality(Awaited(c))
        /\ usage[c].known = Cardinality(Measured(c))
    BY ChargesAreFinite DEF UsageInv, CountsAreCharges
  <2>2. CASE c \in {"role", t} /\ q.phase = "receiving"
    <3>1. /\ IsFiniteSet(Charges(c)')
          /\ Cardinality(Charges(c)') = Cardinality(Charges(c)) + 1
          /\ Cardinality(Awaited(c)') = Cardinality(Awaited(c)) + 1
      BY <1>8, <2>1, <2>2, OneMore
    <3> QED
      BY <1>4, <1>8, <2>1, <2>2, <3>1
  <2>3. CASE ~(c \in {"role", t} /\ q.phase = "receiving")
    BY <1>4, <1>8, <2>1, <2>3
  <2> QED
    BY <2>2, <2>3
<1>10. /\ \A u \in Trials : u # t => Usage!Of(u)' = Usage!Of(u)
       /\ Usage!Of(t)' = Usage!Of(t) \cup {r}
       /\ \A u \in Trials : r \notin Usage!Of(u)
  BY <1>1, <1>2, <1>3 DEF Usage!Of, Usage!GatewayAssumption
<1>11. TrialBooks'
  <2>1. ASSUME NEW u \in Trials, NEW x \in Usage!Of(u)' PROVE \E i \in DOMAIN log'[u] : log'[u][i] = x
    BY <1>5, <1>10, <2>1 DEF UsageInv, TrialBooks
  <2>2. ASSUME NEW u \in Trials, u # t
        PROVE  /\ trial[u] = "unregistered" => Usage!Of(u)' = {}
               /\ trial[u] = "closed" => \A x \in Usage!Of(u)' : request'[x].phase \in {"denied", "done"}
    <3>1. \A x \in Usage!Of(u) : x # r /\ x \in Requests
      BY <1>10 DEF Usage!Of
    <3> QED
      BY <1>3, <1>10, <2>2, <3>1 DEF UsageInv, TrialBooks
  <2>3. \A u \in Trials : verdict[u] = "complete" \/ blame[u] = "candidate" => trial[u] = "closed"
    BY DEF UsageInv, TrialBooks
  <2> QED
    BY <1>1, <2>1, <2>2, <2>3 DEF TrialBooks
<1>12. BatchBooks'
  <2>1. t \in batch.members /\ batch.open
    BY <1>1 DEF UsageInv, BatchBooks
  <2>2. "role" \in Counters /\ r \notin Charges("role")
    BY <1>8 DEF Counters
  <2>3. Before' = Before
    <3>1. \A x \in Charges("role") : x # r /\ x \in Requests
      BY <2>2 DEF Charges
    <3>2. Charges("role")' = Charges("role") \cup {r} \/ Charges("role")' = Charges("role")
      BY <1>8, <2>2
    <3> QED
      BY <1>1, <1>2, <1>3, <2>1, <3>1, <3>2 DEF Before
  <2>4. \A x \in Before : x # r /\ x \in Requests
    BY <2>2 DEF Before, Charges
  <2>5. Measured("role")' = Measured("role")
    BY <1>8, <2>2
  <2> QED
    BY <1>1, <1>3, <2>1, <2>3, <2>4, <2>5 DEF UsageInv, BatchBooks
<1>13. Usage!TrialsMeasured'
  <2> SUFFICES ASSUME NEW u \in Trials, verdict[u] = "complete", NEW x \in Usage!Accepted(u)'
               PROVE  request'[x].known
    BY <1>1 DEF Usage!TrialsMeasured
  <2>1. u # t
    BY <1>1 DEF UsageInv, TrialBooks
  <2>2. x \in Usage!Of(u) /\ x # r
    BY <1>10, <2>1 DEF Usage!Accepted
  <2>3. request'[x] = request[x]
    BY <1>3, <2>2 DEF Usage!Of
  <2> QED
    BY <2>2, <2>3 DEF UsageInv, Usage!TrialsMeasured, Usage!Accepted
<1>14. Usage!BlameIsProven'
  <2> SUFFICES ASSUME NEW u \in Trials, blame[u] = "candidate", NEW x \in Usage!Of(u)'
               PROVE  request'[x].answer = "final"
                         \/ (request'[x].answer = "not-json" /\ x = log'[u][Len(log'[u])])
    BY <1>1 DEF Usage!BlameIsProven
  <2>1. u # t
    BY <1>1 DEF UsageInv, TrialBooks
  <2>2. x \in Usage!Of(u) /\ x # r
    BY <1>10, <2>1
  <2>3. request'[x] = request[x] /\ log'[u] = log[u]
    BY <1>3, <1>5, <2>1, <2>2 DEF Usage!Of
  <2> QED
    BY <2>2, <2>3 DEF UsageInv, Usage!BlameIsProven
<1> QED
  BY <1>6, <1>7, <1>9, <1>11, <1>12, <1>13, <1>14 DEF UsageInv

(* Nothing the books of the gateway look at has changed.                   *)
LEMMA GatewayStays ==
    ASSUME UsageInv, UNCHANGED <<usage, request, log>>
    PROVE  /\ SendingsSound' /\ CountsAreCharges'
           /\ \A c \in Counters : /\ Charges(c)' = Charges(c) /\ Awaited(c)' = Awaited(c)
                                  /\ Measured(c)' = Measured(c)
           /\ \A t : Usage!Of(t)' = Usage!Of(t) /\ Usage!Accepted(t)' = Usage!Accepted(t)
<1>1. \A c \in Counters : /\ Charges(c)' = Charges(c) /\ Awaited(c)' = Awaited(c)
                          /\ Measured(c)' = Measured(c)
  BY DEF Charges, Awaited, Measured
<1>2. \A t : Usage!Of(t)' = Usage!Of(t) /\ Usage!Accepted(t)' = Usage!Accepted(t)
  BY DEF Usage!Of, Usage!Accepted
<1>3. SendingsSound'
  BY DEF UsageInv, SendingsSound
<1>4. CountsAreCharges'
  BY <1>1 DEF UsageInv, CountsAreCharges, Counters
<1> QED
  BY <1>1, <1>2, <1>3, <1>4

(* A candidate is blamed for answers that were all final but the last.     *)
LEMMA BlamedByAnswers ==
    ASSUME UsageInv, NEW t \in Trials, Usage!Blame(t) = "candidate", NEW r \in Usage!Of(t)
    PROVE  request[r].answer = "final" \/ (request[r].answer = "not-json" /\ r = log[t][Len(log[t])])
<1>1. PICK n : n = Len(log[t])
  OBVIOUS
<1>2. log[t] \in Seq(Requests) /\ n \in Nat /\ DOMAIN log[t] = 1..n
  BY <1>1 DEF UsageInv, UsageTypes
<1>3. PICK i \in 1..n : log[t][i] = r
  BY <1>2 DEF UsageInv, TrialBooks
<1>4. PICK answers : answers = Usage!Answers(t)
  OBVIOUS
<1>5. answers = [k \in 1..n |-> request[log[t][k]].answer]
  BY <1>2, <1>4 DEF Usage!Answers
<1>6. answers \in Seq({request[log[t][k]].answer : k \in 1..n}) /\ Len(answers) = n
  BY <1>2, <1>5
<1>7. answers[i] = request[r].answer
  BY <1>3, <1>5
<1>8. \/ n > 0 /\ answers[n] = "not-json" /\ Usage!Final(answers, n - 1)
      \/ Usage!Final(answers, n)
  BY <1>4, <1>6 DEF Usage!Blame
<1>9. CASE Usage!Final(answers, n)
  BY <1>3, <1>7, <1>9 DEF Usage!Final
<1>10. CASE n > 0 /\ answers[n] = "not-json" /\ Usage!Final(answers, n - 1)
  <2>1. i = n \/ i \in 1..(n - 1)
    BY <1>2, <1>3
  <2> QED
    BY <1>1, <1>3, <1>7, <1>10, <2>1 DEF Usage!Final
<1> QED
  BY <1>8, <1>9, <1>10

LEMMA TrialEnds ==
    ASSUME Usage!GatewayAssumption, UsageInv, NEW t \in Trials, Usage!EndTrial(t) PROVE UsageInv'
<1>1. /\ trial[t] = "exited" /\ UNCHANGED <<usage, request, spent, log, process, batch>>
      /\ \/ /\ trial' = [trial EXCEPT ![t] = "unmeasured"] /\ UNCHANGED verdict
            /\ \E b \in {"none", "other"} : blame' = [blame EXCEPT ![t] = b]
         \/ /\ usage[t].active = 0 /\ trial' = [trial EXCEPT ![t] = "closed"]
            /\ \E b \in {"none", Usage!Blame(t)} : blame' = [blame EXCEPT ![t] = b]
            /\ \E v \in {"complete", "partial"} :
                 /\ verdict' = [verdict EXCEPT ![t] = v]
                 /\ v = "complete" => Usage!Complete(Usage!NoUsage, usage[t])
  <2>1. CASE usage[t].active # 0
    BY <2>1 DEF Usage!EndTrial, Usage!gateway
  <2>2. CASE usage[t].active = 0
    BY <2>2 DEF Usage!EndTrial, Usage!gateway
  <2> QED
    BY <2>1, <2>2
<1>2. PICK b \in {"none", "other", Usage!Blame(t)} :
        /\ blame' = [blame EXCEPT ![t] = b]
        /\ b = "candidate" => trial'[t] = "closed" /\ b = Usage!Blame(t)
  <2>1. trial \in [Trials -> {"unregistered", "open", "exited", "closed", "unmeasured"}]
    BY DEF UsageInv, UsageTypes
  <2> QED
    BY <1>1, <2>1
<1>3. PICK v \in {"complete", "partial", verdict[t]} :
        /\ verdict' = [verdict EXCEPT ![t] = v]
        /\ v = "complete" => trial'[t] = "closed" /\ Usage!Complete(Usage!NoUsage, usage[t])
  <2>1. /\ trial \in [Trials -> {"unregistered", "open", "exited", "closed", "unmeasured"}]
        /\ verdict \in [Trials -> {"none", "complete", "partial"}] /\ verdict[t] # "complete"
    BY <1>1 DEF UsageInv, UsageTypes, TrialBooks
  <2>2. UNCHANGED verdict => verdict' = [verdict EXCEPT ![t] = verdict[t]]
    BY <2>1
  <2> QED
    BY <1>1, <2>1, <2>2
<1>4. PICK s \in {"closed", "unmeasured"} :
        trial' = [trial EXCEPT ![t] = s] /\ (s = "closed" => usage[t].active = 0)
  BY <1>1
<1>5. Usage!Blame(t) \in {"candidate", "other"}
  BY DEF Usage!Blame
<1>6. /\ trial' \in [Trials -> {"unregistered", "open", "exited", "closed", "unmeasured"}]
      /\ verdict' \in [Trials -> {"none", "complete", "partial"}]
      /\ blame' \in [Trials -> {"none", "candidate", "other"}]
      /\ trial'[t] = s /\ verdict'[t] = v /\ blame'[t] = b
      /\ \A u \in Trials : u # t => trial'[u] = trial[u] /\ verdict'[u] = verdict[u] /\ blame'[u] = blame[u]
  BY <1>2, <1>3, <1>4, <1>5 DEF UsageInv, UsageTypes
<1>7. UsageTypes'
  BY <1>1, <1>6 DEF UsageInv, UsageTypes
<1>8. t \in Counters /\ t # "role" /\ t # "none" /\ usage[t] \in Counts /\ CountsAreCharges
  BY DEF Counters, Usage!GatewayAssumption, UsageInv, UsageTypes
<1>9. \A r \in Usage!Of(t) : r \in Charges(t) \/ request[r].phase = "denied"
  BY <1>8 DEF Usage!Of, Charges, UsageInv, SendingsSound
<1>10. Charges(t) \subseteq Usage!Of(t) /\ \A r \in Usage!Accepted(t) : r \in Charges(t)
  BY <1>8, <1>9 DEF Usage!Of, Charges, Usage!Accepted
<1>11. s = "closed" => \A r \in Usage!Of(t) : request[r].phase \in {"denied", "done"}
  BY <1>4, <1>8, <1>9, CountersSpeak
<1>12. TrialBooks'
  <2>1. \A u \in Trials : verdict'[u] = "complete" \/ blame'[u] = "candidate" => trial'[u] = "closed"
    BY <1>2, <1>3, <1>6 DEF UsageInv, TrialBooks
  <2>2. \A u \in Trials : \A r \in Usage!Of(u)' : \E i \in DOMAIN log'[u] : log'[u][i] = r
    BY <1>1, GatewayStays DEF UsageInv, TrialBooks
  <2>3. ASSUME NEW u \in Trials
        PROVE  /\ trial'[u] = "unregistered" => Usage!Of(u)' = {}
               /\ trial'[u] = "closed" => \A r \in Usage!Of(u)' : request'[r].phase \in {"denied", "done"}
    BY <1>1, <1>4, <1>6, <1>11, GatewayStays DEF UsageInv, TrialBooks
  <2> QED
    BY <2>1, <2>2, <2>3 DEF TrialBooks
<1>13. BatchBooks'
  <2>1. "role" \in Counters
    BY DEF Counters
  <2>2. Before' = Before /\ Within' = Within /\ Measured("role")' = Measured("role")
    BY <1>1, <2>1, GatewayStays DEF Before, Within
  <2> QED
    BY <1>1, <1>4, <1>6, <2>2 DEF UsageInv, BatchBooks
<1>14. Usage!TrialsMeasured'
  <2> SUFFICES ASSUME NEW u \in Trials, verdict'[u] = "complete", NEW x \in Usage!Accepted(u)'
               PROVE  request'[x].known
    BY DEF Usage!TrialsMeasured
  <2>1. x \in Usage!Accepted(u) /\ request' = request
    BY <1>1, GatewayStays
  <2>2. CASE u # t
    BY <1>6, <2>1, <2>2 DEF UsageInv, Usage!TrialsMeasured
  <2>3. CASE u = t
    <3>1. Usage!Complete(Usage!NoUsage, usage[t]) /\ Usage!NoUsage \in Counts
      BY <1>3, <1>6, <2>3 DEF Usage!NoUsage, Counts
    <3>2. /\ Usage!NoUsage.known = 0 /\ Usage!NoUsage.accepted = 0
          /\ usage[t].known \in Int /\ usage[t].accepted \in Int
      BY <1>8 DEF Usage!NoUsage, Counts
    <3>3. usage[t].known = usage[t].accepted
      BY <1>8, <3>1, <3>2, CompleteReadings
    <3> QED
      BY <1>8, <1>10, <2>1, <2>3, <3>3, CountersSpeak
  <2> QED
    BY <2>2, <2>3
<1>15. Usage!BlameIsProven'
  <2> SUFFICES ASSUME NEW u \in Trials, blame'[u] = "candidate", NEW x \in Usage!Of(u)'
               PROVE  request'[x].answer = "final"
                         \/ (request'[x].answer = "not-json" /\ x = log'[u][Len(log'[u])])
    BY DEF Usage!BlameIsProven
  <2>1. x \in Usage!Of(u) /\ request' = request /\ log' = log
    BY <1>1, GatewayStays
  <2>2. CASE u # t
    BY <1>6, <2>1, <2>2 DEF UsageInv, Usage!BlameIsProven
  <2>3. CASE u = t
    BY <1>2, <1>6, <2>1, <2>3, BlamedByAnswers
  <2> QED
    BY <2>2, <2>3
<1> QED
  BY <1>1, <1>7, <1>12, <1>13, <1>14, <1>15, GatewayStays DEF UsageInv

LEMMA BatchEnds == ASSUME UsageInv, Usage!EndBatch PROVE UsageInv'
<1> PICK done \in BOOLEAN : done = Usage!Complete(batch.before, usage["role"])
  BY DEF Usage!Complete
<1>1. /\ batch.open /\ \A t \in batch.members : trial[t] \in {"closed", "unmeasured"}
      /\ batch' = [batch EXCEPT !.open = FALSE, !.complete = done]
      /\ UNCHANGED <<usage, request, log, trial, verdict, blame>>
  BY DEF Usage!EndBatch, Usage!gateway
<1>2. /\ batch' \in [number : Nat, open : BOOLEAN, before : Counts, members : SUBSET Trials, complete : BOOLEAN]
      /\ batch'.open = FALSE /\ batch'.complete = done /\ batch'.before = batch.before
      /\ batch'.members = batch.members
  BY <1>1 DEF UsageInv, UsageTypes
<1>3. UsageTypes'
  BY <1>1, <1>2 DEF UsageInv, UsageTypes
<1>4. "role" \in Counters /\ usage["role"] \in Counts /\ batch.before \in Counts /\ CountsAreCharges
  BY DEF Counters, UsageInv, UsageTypes
<1>5. TrialBooks' /\ Usage!TrialsMeasured' /\ Usage!BlameIsProven'
  BY <1>1, GatewayStays DEF UsageInv, TrialBooks, Usage!TrialsMeasured, Usage!BlameIsProven
<1>6. Charges("role")' = Charges("role") /\ Before' = Before /\ Within' = Within
  BY <1>1, <1>2, <1>4, GatewayStays DEF Before, Within
<1>7. ASSUME done, batch.before.active = 0
      PROVE  \A r \in Within : request[r].phase = "done" /\ request[r].known
  <2> DEFINE all == Charges("role")
             known == Measured("role")
  <2>1. /\ usage["role"].active = 0
        /\ usage["role"].known - batch.before.known = usage["role"].accepted - batch.before.accepted
    BY <1>4, <1>7, CompleteReadings
  <2>2. /\ usage["role"].known = Cardinality(known) /\ usage["role"].accepted = Cardinality(all)
        /\ batch.before.accepted = Cardinality(Before)
        /\ batch.before.known = Cardinality(Before \cap known)
    BY <1>1, <1>4, <1>7 DEF UsageInv, CountsAreCharges, BatchBooks
  <2>3. IsFiniteSet(all) /\ IsFiniteSet(known)
    BY <1>4, ChargesAreFinite
  <2>4. /\ all \cap Before = Before /\ known \cap Before = Before \cap known
        /\ known \ Before \in SUBSET (all \ Before) /\ all \ Before = Within
    BY DEF Before, Measured, Within
  <2>5. /\ IsFiniteSet(all \ Before) /\ Cardinality(all \ Before) = Cardinality(all) - Cardinality(Before)
        /\ Cardinality(known \ Before) = Cardinality(known) - Cardinality(Before \cap known)
    BY <2>3, <2>4, FS_Difference
  <2>6. Cardinality(all \ Before) = Cardinality(known \ Before)
    BY <1>4, <2>1, <2>2, <2>5
  <2>7. known \ Before = all \ Before
    BY <2>4, <2>5, <2>6, FS_Subset
  <2>8. \A r \in all : request[r].phase = "done"
    BY <1>4, <2>1, CountersSpeak
  <2> QED
    BY <2>4, <2>7, <2>8 DEF Measured
<1>8. BatchBooks'
  <2>1. \A t \in Trials : trial[t] \notin {"open", "exited"}
    BY <1>1 DEF UsageInv, BatchBooks
  <2> QED
    BY <1>1, <1>2, <1>6, <1>7, <2>1 DEF BatchBooks
<1> QED
  BY <1>1, <1>3, <1>5, <1>8, GatewayStays DEF UsageInv

LEMMA BatchBegins == ASSUME UsageInv, Usage!BeginBatch PROVE UsageInv'
<1>1. /\ ~batch.open /\ UNCHANGED <<usage, request, log, trial, verdict, blame>>
      /\ batch' = [number |-> batch.number + 1, open |-> TRUE, before |-> usage["role"],
                   members |-> {}, complete |-> FALSE]
  BY DEF Usage!BeginBatch, Usage!gateway
<1>2. "role" \in Counters /\ usage["role"] \in Counts /\ CountsAreCharges
  BY DEF Counters, UsageInv, UsageTypes
<1>3. /\ batch' \in [number : Nat, open : BOOLEAN, before : Counts, members : SUBSET Trials, complete : BOOLEAN]
      /\ batch'.open = TRUE /\ batch'.before = usage["role"] /\ batch'.members = {}
  BY <1>1, <1>2 DEF UsageInv, UsageTypes
<1>4. UsageTypes'
  BY <1>1, <1>3 DEF UsageInv, UsageTypes
<1>5. TrialBooks' /\ Usage!TrialsMeasured' /\ Usage!BlameIsProven'
  BY <1>1, GatewayStays DEF UsageInv, TrialBooks, Usage!TrialsMeasured, Usage!BlameIsProven
<1>6. /\ Before' = Charges("role") /\ Measured("role")' = Measured("role")
      /\ Charges("role") \cap Measured("role") = Measured("role")
  BY <1>1, <1>2, <1>3, GatewayStays DEF Before, Measured
<1>7. BatchBooks'
  <2>1. \A t \in Trials : trial[t] \notin {"open", "exited"}
    BY <1>1 DEF UsageInv, BatchBooks
  <2>2. /\ usage["role"].accepted = Cardinality(Charges("role"))
        /\ usage["role"].known = Cardinality(Measured("role"))
    BY <1>2 DEF CountsAreCharges
  <2>3. usage["role"].active = 0 => \A r \in Charges("role") : request[r].phase = "done"
    BY <1>2, CountersSpeak
  <2>4. (Before \cap Measured("role"))' = Measured("role")
    BY <1>6
  <2> QED
    BY <1>1, <1>3, <1>6, <2>1, <2>2, <2>3, <2>4 DEF BatchBooks
<1> QED
  BY <1>1, <1>4, <1>5, <1>7, GatewayStays DEF UsageInv

(* A trial is registered, or its solver ends: it is a member of the batch. *)
LEMMA TrialGoesOn ==
    ASSUME UsageInv, NEW t \in Trials,
           Usage!Register(t) \/ \E how \in {"well", "failed", "killed"} : Usage!SolverExits(t, how)
    PROVE  UsageInv'
<1>1. PICK s \in {"open", "exited"} :
        /\ trial' = [trial EXCEPT ![t] = s] /\ UNCHANGED <<usage, request, log, verdict, blame>>
        /\ \/ s = "open" /\ trial[t] = "unregistered" /\ batch.open
              /\ batch' = [batch EXCEPT !.members = batch.members \cup {t}]
           \/ s = "exited" /\ trial[t] = "open" /\ UNCHANGED batch
  BY DEF Usage!Register, Usage!SolverExits, Usage!gateway
<1>2. /\ trial' \in [Trials -> {"unregistered", "open", "exited", "closed", "unmeasured"}]
      /\ trial'[t] = s /\ \A u \in Trials : u # t => trial'[u] = trial[u]
      /\ trial[t] # "closed"
  BY <1>1 DEF UsageInv, UsageTypes
<1>3. /\ batch' \in [number : Nat, open : BOOLEAN, before : Counts, members : SUBSET Trials, complete : BOOLEAN]
      /\ batch'.open = batch.open /\ batch'.before = batch.before /\ batch'.complete = batch.complete
      /\ batch'.members = IF s = "open" THEN batch.members \cup {t} ELSE batch.members
      /\ s = "open" => batch.open
  <2>1. batch \in [number : Nat, open : BOOLEAN, before : Counts, members : SUBSET Trials, complete : BOOLEAN]
    BY DEF UsageInv, UsageTypes
  <2>2. CASE s = "open"
    BY <1>1, <2>1, <2>2
  <2>3. CASE s = "exited"
    BY <1>1, <2>1, <2>3
  <2> QED
    BY <2>2, <2>3
<1>4. UsageTypes'
  BY <1>1, <1>2, <1>3 DEF UsageInv, UsageTypes
<1>5. TrialBooks' /\ Usage!TrialsMeasured' /\ Usage!BlameIsProven'
  BY <1>1, <1>2, GatewayStays DEF UsageInv, TrialBooks, Usage!TrialsMeasured, Usage!BlameIsProven
<1>6. /\ Charges("role")' = Charges("role") /\ Measured("role")' = Measured("role")
      /\ request' = request
  BY <1>1, GatewayStays DEF Counters
<1>7. Before' = Before /\ Within' = Within
  <2>1. CASE s = "open"
    <3>1. Usage!Of(t) = {}
      BY <1>1, <2>1 DEF UsageInv, TrialBooks
    <3>2. \A r \in Charges("role") : request[r].trial # t
      BY <3>1 DEF Charges, Usage!Of
    <3> QED
      BY <1>3, <1>6, <2>1, <3>2 DEF Before, Within
  <2>2. CASE s = "exited"
    BY <1>3, <1>6, <2>2 DEF Before, Within
  <2> QED
    BY <2>1, <2>2
<1>8. BatchBooks'
  <2>1. \A u \in Trials : ~(batch'.open /\ u \in batch'.members) => trial'[u] \notin {"open", "exited"}
    <3>1. s = "exited" => batch.open /\ t \in batch.members
      BY <1>1 DEF UsageInv, BatchBooks
    <3> QED
      BY <1>2, <1>3, <3>1 DEF UsageInv, BatchBooks
  <2> QED
    BY <1>3, <1>6, <1>7, <2>1 DEF UsageInv, BatchBooks
<1> QED
  BY <1>1, <1>4, <1>5, <1>8, GatewayStays DEF UsageInv

(* A request that ends with or without a measurement.                      *)
LEMMA SendingEnds ==
    ASSUME Usage!GatewayAssumption, UsageInv, NEW r \in Requests, request[r].phase \in UnderWay,
           NEW q \in Sendings, q.trial = request[r].trial, q.phase = "done",
           request' = [request EXCEPT ![r] = q], NEW u \in Int,
           usage' = Usage!Charged(request[r].trial, 0, 0 - 1, IF q.known THEN 1 ELSE 0, u),
           UNCHANGED <<log, trial, process, verdict, blame, batch>>
    PROVE  UsageInv'
<1>1. request[r].trial \in Trials /\ usage \in [Counters -> Counts]
  BY DEF UsageInv, UsageTypes, SendingsSound, Sendings, UnderWay
<1>2. PICK k \in Int : k = IF q.known THEN 1 ELSE 0
  OBVIOUS
<1>3. usage' = Usage!Charged(request[r].trial, 0, 0 - 1, k, u)
  BY <1>2
<1>4. 0 \in Int /\ 0 - 1 \in Int
  OBVIOUS
<1>5. /\ usage' \in [Counters -> Counts]
      /\ \A c \in Counters :
           IF c \in {"role", request[r].trial}
           THEN /\ usage'[c].accepted = usage[c].accepted + 0
                /\ usage'[c].active = usage[c].active + (0 - 1) /\ usage'[c].known = usage[c].known + k
           ELSE usage'[c] = usage[c]
  BY <1>1, <1>3, <1>4, ChargedCounts
<1>6. \A c \in Counters :
        usage[c].accepted + 0 = usage[c].accepted /\ usage[c].active + (0 - 1) = usage[c].active - 1
  BY <1>1 DEF Counts
<1>7. \A c \in Counters :
           IF c \in {"role", request[r].trial}
           THEN /\ usage'[c].accepted = usage[c].accepted
                /\ usage'[c].active = usage[c].active - 1
                /\ usage'[c].known = usage[c].known + (IF q.known THEN 1 ELSE 0)
           ELSE usage'[c] = usage[c]
  BY <1>2, <1>5, <1>6
<1> QED
  BY <1>5, <1>7, SendingMoves

(* The steps of a request, as its record after them.                       *)
LEMMA SendingKeeps ==
    ASSUME Usage!GatewayAssumption, UsageInv, NEW r \in Requests,
           \/ Usage!RejectBody(r) \/ Usage!Forward(r) \/ Usage!UpstreamFails(r)
           \/ Usage!UpstreamAnswers(r) \/ Usage!StreamEnds(r) \/ Usage!ClientCloses(r)
    PROVE  UsageInv'
<1>1. request \in [Requests -> Sendings] /\ request[r] \in Sendings /\ usage \in [Counters -> Counts]
  BY DEF UsageInv, UsageTypes
<1>2. /\ request[r].phase \in UnderWay /\ ~request[r].known
      /\ UNCHANGED <<log, trial, process, verdict, blame, batch>>
  <2>1. request[r].phase \in UnderWay
    BY DEF Usage!RejectBody, Usage!Forward, Usage!UpstreamFails, Usage!UpstreamAnswers, Usage!StreamEnds,
           Usage!ClientCloses, UnderWay
  <2>2. ~request[r].known
    BY <2>1 DEF UsageInv, SendingsSound, UnderWay
  <2> QED
    BY <2>1, <2>2 DEF Usage!RejectBody, Usage!Forward, Usage!UpstreamFails, Usage!UpstreamAnswers,
           Usage!StreamEnds, Usage!ClientCloses, Usage!Refused, Usage!Metered, Usage!driver
<1>3. ASSUME NEW reply \in {"control", "not-json", "provider", "unproven"},
             request' = [Usage!Moved(r, "done") EXCEPT ![r].answer = reply],
             NEW u \in Int, usage' = Usage!Charged(request[r].trial, 0, 0 - 1, 0, u)
      PROVE  UsageInv'
  <2> DEFINE q == [request[r] EXCEPT !.phase = "done", !.answer = reply]
  <2>1. /\ request' = [request EXCEPT ![r] = q]
        /\ q \in Sendings /\ q.trial = request[r].trial /\ q.phase = "done" /\ q.known = request[r].known
    BY <1>1, <1>3 DEF Usage!Moved, Sendings
  <2> HIDE DEF q
  <2>2. 0 = IF q.known THEN 1 ELSE 0
    BY <1>2, <2>1
  <2>3. usage' = Usage!Charged(request[r].trial, 0, 0 - 1, IF q.known THEN 1 ELSE 0, u)
    BY <1>3, <2>2
  <2> QED
    BY <1>2, <2>1, <2>3, SendingEnds
<1>4. ASSUME NEW reply \in {"control", "not-json", "provider", "unproven"}, Usage!Refused(r, reply)
      PROVE  UsageInv'
  BY <1>3, <1>4 DEF Usage!Refused
<1>5. ASSUME NEW s \in UnderWay, NEW n \in Nat, usage' = usage,
             request' = [request EXCEPT ![r].phase = s, ![r].attempt = n]
      PROVE  UsageInv'
  <2> DEFINE q == [request[r] EXCEPT !.phase = s, !.attempt = n]
  <2>1. /\ request' = [request EXCEPT ![r] = q]
        /\ q \in Sendings /\ q.trial = request[r].trial /\ q.phase \in UnderWay /\ q.known = request[r].known
    BY <1>1, <1>5 DEF Sendings
  <2> HIDE DEF q
  <2> QED
    BY <1>1, <1>2, <1>5, <2>1, SendingMoves
<1>6. request[r].attempt \in Nat /\ request[r].attempt + 1 \in Nat
  BY <1>1 DEF Sendings
<1>7. \A s : Usage!Moved(r, s) = [request EXCEPT ![r].phase = s, ![r].attempt = request[r].attempt]
  BY <1>1 DEF Usage!Moved, Sendings
<1>8. CASE Usage!RejectBody(r)
  BY <1>4, <1>8 DEF Usage!RejectBody
<1>9. CASE Usage!Forward(r)
  <2>1. CASE Usage!Refused(r, "control")
    BY <1>4, <2>1
  <2>2. CASE /\ request' = [request EXCEPT ![r].phase = "asking", ![r].attempt = @ + 1]
             /\ usage' = usage
    BY <1>5, <1>6, <2>2 DEF UnderWay
  <2> QED
    BY <1>9, <2>1, <2>2 DEF Usage!Forward
<1>10. CASE Usage!UpstreamFails(r)
  <2>1. CASE Usage!Refused(r, "provider")
    BY <1>4, <2>1
  <2>2. CASE request' = Usage!Moved(r, "waiting") /\ usage' = usage
    BY <1>5, <1>6, <1>7, <2>2 DEF UnderWay
  <2> QED
    BY <1>10, <2>1, <2>2 DEF Usage!UpstreamFails
<1>11. CASE Usage!UpstreamAnswers(r)
  BY <1>5, <1>6, <1>7, <1>11 DEF Usage!UpstreamAnswers, UnderWay
<1>12. CASE Usage!StreamEnds(r)
  <2>1. PICK known \in BOOLEAN, reply \in {"final", "unproven", "provider"} : Usage!Metered(r, known, reply)
    BY <1>12 DEF Usage!StreamEnds
  <2> DEFINE q == [request[r] EXCEPT !.phase = "done", !.known = known, !.answer = reply]
  <2>2. /\ request' = [request EXCEPT ![r] = q]
        /\ q \in Sendings /\ q.trial = request[r].trial /\ q.phase = "done" /\ q.known = known
    BY <1>1, <2>1 DEF Usage!Moved, Usage!Metered, Sendings
  <2> HIDE DEF q
  <2>3. PICK u \in Int : u = IF known THEN 0 ELSE 1
    OBVIOUS
  <2>4. usage' = Usage!Charged(request[r].trial, 0, 0 - 1, IF q.known THEN 1 ELSE 0, u)
    BY <2>1, <2>2, <2>3 DEF Usage!Metered
  <2> QED
    BY <1>2, <2>2, <2>4, SendingEnds
<1>13. CASE Usage!ClientCloses(r)
  <2>1. CASE /\ usage' = Usage!Charged(request[r].trial, 0, 0 - 1, 0, 0)
             /\ request' = [Usage!Moved(r, "done") EXCEPT ![r].answer = "unproven"]
    BY <1>3, <2>1
  <2>2. CASE Usage!Refused(r, "unproven") \/ Usage!Refused(r, "provider")
    BY <1>4, <2>2
  <2> QED
    BY <1>13, <2>1, <2>2 DEF Usage!ClientCloses
<1> QED
  BY <1>8, <1>9, <1>10, <1>11, <1>12, <1>13

LEMMA UsageKeeps ==
    ASSUME Usage!GatewayAssumption, UsageInv, Usage!Next \/ UNCHANGED usageVars PROVE UsageInv'
<1>1. CASE UNCHANGED usageVars
  <2>1. UNCHANGED <<usage, request, log, trial, verdict, blame, batch>>
    BY <1>1 DEF usageVars
  <2>2. UsageTypes'
    BY <2>1 DEF UsageInv, UsageTypes
  <2>3. TrialBooks' /\ Usage!TrialsMeasured' /\ Usage!BlameIsProven'
    BY <2>1, GatewayStays DEF UsageInv, TrialBooks, Usage!TrialsMeasured, Usage!BlameIsProven
  <2>4. "role" \in Counters
    BY DEF Counters
  <2>5. /\ Before' = Before /\ Within' = Within
        /\ (Before \cap Measured("role"))' = Before \cap Measured("role")
    BY <2>1, <2>4, GatewayStays DEF Before, Within
  <2>6. BatchBooks'
    BY <2>1, <2>5 DEF UsageInv, BatchBooks
  <2> QED
    BY <2>1, <2>2, <2>3, <2>6, GatewayStays DEF UsageInv
<1>2. CASE Usage!Next
  <2>1. CASE \E t \in Trials : Usage!Register(t) \/ Usage!EndTrial(t)
    BY <2>1, TrialGoesOn, TrialEnds
  <2>2. CASE \E t \in Trials, how \in {"well", "failed", "killed"} : Usage!SolverExits(t, how)
    BY <2>2, TrialGoesOn
  <2>3. CASE \E r \in Requests, t \in Trials : Usage!Accept(r, t)
    BY <2>3, AcceptKeeps
  <2>4. CASE \E r \in Requests :
               \/ Usage!RejectBody(r) \/ Usage!Forward(r) \/ Usage!UpstreamFails(r)
               \/ Usage!UpstreamAnswers(r) \/ Usage!StreamEnds(r) \/ Usage!ClientCloses(r)
    BY <2>4, SendingKeeps
  <2>5. CASE Usage!BeginBatch \/ Usage!EndBatch
    BY <2>5, BatchBegins, BatchEnds
  <2> QED
    BY <1>2, <2>1, <2>2, <2>3, <2>4, <2>5 DEF Usage!Next
<1> QED
  BY <1>1, <1>2

LEMMA UsageResult ==
    ASSUME UsageInv PROVE Usage!TrialsMeasured /\ Usage!BatchMeasured /\ Usage!BlameIsProven
<1>1. ASSUME ~batch.open, batch.complete, batch.before.active = 0,
             NEW t \in batch.members, NEW r \in Usage!Accepted(t)
      PROVE  request[r].known
  <2>1. t \in Trials /\ r \in Requests /\ request[r].trial = t /\ request[r].phase # "denied"
    BY DEF UsageInv, UsageTypes, Usage!Accepted, Usage!Of
  <2>2. CASE request[r].phase # "unsent"
    <3>1. r \in Within
      BY <2>1, <2>2 DEF Within, Charges, Before
    <3> QED
      BY <1>1, <3>1 DEF UsageInv, BatchBooks
  <2>3. CASE request[r].phase = "unsent"
    BY <2>1, <2>3, Assumptions DEF UsageInv, SendingsSound, Usage!GatewayAssumption
  <2> QED
    BY <2>2, <2>3
<1> QED
  BY <1>1 DEF UsageInv, Usage!BatchMeasured

(* The gateway of an updater counts the calls in flight and keeps at most  *)
(* one rule; the gateway of an evaluation has every request's usage in a   *)
(* sum that is called complete, over any crossing of requests, retries,    *)
(* closed connections, trials and batches; a candidate is blamed only for  *)
(* answers that leave nobody else.  For any budgets and any sets.          *)
THEOREM BooksBalance == Spec => []GatewaysAccount
<1>1. Init => UpdaterInv /\ UsageInv
  BY UpdaterInit, UsageInit, Assumptions DEF Init
<1>2. UpdaterInv /\ UsageInv /\ [Next]_operation => UpdaterInv' /\ UsageInv'
  BY UpdaterKeeps, UsageKeeps, OperationStep, Assumptions
<1>3. UpdaterInv /\ UsageInv => GatewaysAccount
  BY UpdaterResult, UsageResult DEF GatewaysAccount
<1> QED
  BY <1>1, <1>2, <1>3, PTL DEF Spec

-----------------------------------------------------------------------------
(* The model gateway of a branch                                           *)

Parts == {"network", "container"}
OnTheWay == {"waiting", "looked", "configuring", "using"}
Phases == {"idle", "starting", "waiting", "looked", "configuring", "using", "done"}

GatewayTypes ==
    /\ session \in [Sessions -> Phases]
    /\ chain \in Seq(Sessions) /\ offered \in Nat
    /\ awaits \in [Sessions -> Nat] /\ heard \in [Sessions -> Nat] /\ given \in [Sessions -> Nat]
    /\ token.memory \in Nat /\ token.container \in Nat
    /\ token = [memory |-> token.memory, container |-> token.container]
    /\ policy.memory \in {"none", "sent", "known"} /\ policy.container \in {"none", "known"}
    /\ policy = [memory |-> policy.memory, container |-> policy.container]

(* What the gateway object knows of is what this start has created.        *)
ObjectKnows ==
    /\ starter \in {"none", "network", "container", "health"}
    /\ handle \subseteq docker
    /\ ready => starter = "none" /\ handle = Parts
    /\ starter = "network" => handle = {}
    /\ starter = "container" => handle = {"network"}
    /\ starter = "health" => handle = Parts
    /\ ~ready /\ starter = "none" => handle = {}

(* Who has access, or is on the way to it, finds the gateway ready, and    *)
(* rotations are of sessions that have access.                             *)
AccessFollows ==
    /\ \A s \in Sessions : session[s] \in OnTheWay => ready
    /\ \A s \in Sessions : session[s] = "using" => policy.memory = "known"
    /\ policy.memory = "known" => policy.container = "known"
    /\ \A i \in 1..Len(chain) : session[chain[i]] = "using"

(* Only the first rotation is answered, with the container's token, which  *)
(* is never behind the one in memory.                                      *)
OneRotation ==
    /\ offered # 0 => chain # <<>> /\ offered = token.container
    /\ ready /\ ~lost /\ offered = 0 => token.memory = token.container
    /\ token.memory <= token.container

(* What a session has heard of is in the container while it waits, in      *)
(* memory from then on, and at last in what it was given.                  *)
HeardIsGiven ==
    \A s \in Sessions :
        /\ awaits[s] # 0 => session[s] = "waiting"
        /\ session[s] = "waiting" => awaits[s] # 0 /\ heard[s] <= token.container
        /\ session[s] \in {"looked", "configuring"} => heard[s] <= token.memory
        /\ session[s] = "using" => heard[s] <= given[s]

GatewayInv == GatewayTypes /\ ObjectKnows /\ AccessFollows /\ OneRotation /\ HeardIsGiven

(* What is left when the first of a sequence is gone.                      *)
LEMMA FirstOfChain ==
    ASSUME NEW S, NEW q \in Seq(S), q # <<>>
    PROVE  /\ Len(q) \in Nat \ {0} /\ 1 \in 1..Len(q) /\ q[1] \in S
           /\ Tail(q) \in Seq(S) /\ Len(Tail(q)) = Len(q) - 1
           /\ \A i \in 1..(Len(q) - 1) : Tail(q)[i] = q[i + 1]
  OBVIOUS

(* Nobody has access, nobody rotates.                                      *)
LEMMA NobodyRotates ==
    ASSUME GatewayTypes, AccessFollows, \A s \in Sessions : session[s] # "using"
    PROVE  chain = <<>>
<1> SUFFICES ASSUME chain # <<>> PROVE FALSE
  OBVIOUS
<1>1. 1 \in 1..Len(chain) /\ chain[1] \in Sessions
  BY FirstOfChain DEF GatewayTypes
<1> QED
  BY <1>1 DEF AccessFollows

LEMMA GatewayInit == ASSUME Gateway!Init PROVE GatewayInv
  BY DEF Gateway!Init, GatewayInv, GatewayTypes, ObjectKnows, AccessFollows, OneRotation,
         HeardIsGiven, Phases, OnTheWay, Gateway!Nobody, Gateway!NoToken

(* A start that fails, and a stop, leave nobody with access.               *)
LEMMA RemovedKeeps ==
    ASSUME GatewayInv, NEW left, Gateway!Removed(left),
           session' \in [Sessions -> Phases], UNCHANGED <<awaits, heard, given>>,
           \A s \in Sessions : session[s] \notin OnTheWay,
           \A s \in Sessions : session'[s] \notin OnTheWay
    PROVE  GatewayInv'
<1> USE DEF OnTheWay
<1>1. /\ handle' = {} /\ ready' = FALSE /\ starter' = "none"
      /\ policy' = [memory |-> "none", container |-> "none"]
      /\ token' = [memory |-> 0, container |-> 0] /\ UNCHANGED <<chain, offered>>
  BY DEF Gateway!Removed, Gateway!Nobody, Gateway!NoToken
<1>2. chain = <<>> /\ \A s \in Sessions : awaits[s] = 0
  BY NobodyRotates DEF GatewayInv, HeardIsGiven
<1>3. GatewayTypes' /\ ObjectKnows' /\ AccessFollows' /\ OneRotation'
  BY <1>1, <1>2 DEF GatewayInv, GatewayTypes, ObjectKnows, AccessFollows, OneRotation, OnTheWay
<1>4. HeardIsGiven'
  BY <1>2 DEF HeardIsGiven, OnTheWay
<1> QED
  BY <1>3, <1>4 DEF GatewayInv

(* The first rotation is over: its offered, if it is taken, is in memory.    *)
LEMMA OverKeeps ==
    ASSUME GatewayInv, chain # <<>>, NEW next \in {"looked", "done"}, Gateway!Over(next),
           GatewayTypes', OneRotation',
           token'.container = token.container, token.memory <= token'.memory,
           next = "looked" => token'.memory = token.container
    PROVE  GatewayInv'
<1> USE DEF OnTheWay
<1>1. /\ chain' = Tail(chain) /\ UNCHANGED <<starter, handle, docker, ready, policy, heard, given>>
      /\ \A s \in Sessions :
            /\ awaits'[s] = IF awaits[s] = 0 THEN 0 ELSE awaits[s] - 1
            /\ session'[s] = IF awaits[s] = 1 THEN next ELSE session[s]
  BY DEF Gateway!Over, Gateway!startVars
<1>2. Len(chain) \in Nat \ {0} /\ \A i \in 1..Len(chain') : i + 1 \in 1..Len(chain) /\ chain'[i] = chain[i + 1]
  <2>1. chain \in Seq(Sessions)
    BY DEF GatewayInv, GatewayTypes
  <2>2. Len(chain) \in Nat \ {0} /\ Len(chain') = Len(chain) - 1
        /\ \A i \in 1..(Len(chain) - 1) : chain'[i] = chain[i + 1]
    BY <1>1, <2>1, FirstOfChain
  <2> QED
    BY <2>2
<1>3. \A s \in Sessions : session[s] = "using" => session'[s] = "using"
  BY <1>1 DEF GatewayInv, HeardIsGiven
<1>4. \A s \in Sessions : session'[s] # session[s] => session[s] = "waiting"
  BY <1>1 DEF GatewayInv, HeardIsGiven
<1>5. \A i \in 1..Len(chain) : chain[i] \in Sessions
  BY DEF GatewayInv, GatewayTypes
<1>6. AccessFollows'
  <2>1. \A s \in Sessions : session'[s] \in OnTheWay => ready'
    BY <1>1, <1>4 DEF GatewayInv, AccessFollows
  <2>2. \A s \in Sessions : session'[s] = "using" => policy'.memory = "known"
    BY <1>1 DEF GatewayInv, AccessFollows
  <2>3. \A i \in 1..Len(chain') : session'[chain'[i]] = "using"
    BY <1>2, <1>3, <1>5 DEF GatewayInv, AccessFollows
  <2> QED
    BY <1>1, <2>1, <2>2, <2>3 DEF GatewayInv, AccessFollows
<1>7. HeardIsGiven'
  <2> SUFFICES ASSUME NEW s \in Sessions
               PROVE  /\ awaits'[s] # 0 => session'[s] = "waiting"
                      /\ session'[s] = "waiting" => awaits'[s] # 0 /\ heard[s] <= token'.container
                      /\ session'[s] \in {"looked", "configuring"} => heard[s] <= token'.memory
                      /\ session'[s] = "using" => heard[s] <= given[s]
    BY <1>1 DEF HeardIsGiven
  <2>1. /\ awaits[s] \in Nat /\ heard[s] \in Nat /\ given[s] \in Nat
        /\ token.memory \in Nat /\ token.container \in Nat
        /\ token'.memory \in Nat /\ token'.container \in Nat
    BY DEF GatewayInv, GatewayTypes
  <2>2. /\ awaits[s] # 0 => session[s] = "waiting"
        /\ session[s] = "waiting" => awaits[s] # 0 /\ heard[s] <= token.container
        /\ session[s] \in {"looked", "configuring"} => heard[s] <= token.memory
        /\ session[s] = "using" => heard[s] <= given[s]
    BY DEF GatewayInv, HeardIsGiven
  <2> QED
    BY <1>1, <2>1, <2>2
<1>8. ObjectKnows'
  BY <1>1 DEF GatewayInv, ObjectKnows
<1> QED
  BY <1>6, <1>7, <1>8 DEF GatewayInv

LEMMA GatewayKeeps ==
    ASSUME GatewayInv, Gateway!Next \/ UNCHANGED gatewayVars PROVE GatewayInv'
<1> USE DEF OnTheWay
<1>0. GatewayTypes /\ ObjectKnows /\ AccessFollows /\ OneRotation /\ HeardIsGiven
  BY DEF GatewayInv
<1>1. CASE UNCHANGED gatewayVars
  BY <1>1 DEF gatewayVars, GatewayInv, GatewayTypes, ObjectKnows, AccessFollows, OneRotation,
              HeardIsGiven
<1>2. ASSUME starter # "none", Gateway!StartFails PROVE GatewayInv'
  <2>1. PICK left : Gateway!Removed(left)
    BY <1>2 DEF Gateway!StartFails
  <2>2. \A s \in Sessions : session[s] \notin OnTheWay
    BY <1>0, <1>2 DEF ObjectKnows, AccessFollows, OnTheWay
  <2>3. /\ session' = [s \in Sessions |-> IF session[s] = "starting" THEN "idle" ELSE session[s]]
        /\ UNCHANGED <<awaits, heard, given>>
    BY <1>2 DEF Gateway!StartFails, Gateway!sessionVars
  <2>4. /\ session' \in [Sessions -> Phases]
        /\ \A s \in Sessions : session'[s] \notin OnTheWay
    BY <1>0, <2>2, <2>3 DEF GatewayTypes, Phases, OnTheWay
  <2> QED
    BY <2>1, <2>2, <2>3, <2>4, RemovedKeeps
<1>3. CASE Gateway!Stop
  <2>1. PICK left : Gateway!Removed(left)
    BY <1>3 DEF Gateway!Stop
  <2>2. /\ \A s \in Sessions : session[s] \notin OnTheWay
        /\ session' = [s \in Sessions |-> "idle"] /\ UNCHANGED <<awaits, heard, given>>
    BY <1>3 DEF Gateway!Stop, Gateway!sessionVars, OnTheWay
  <2>3. session' \in [Sessions -> Phases] /\ \A s \in Sessions : session'[s] \notin OnTheWay
    BY <2>2 DEF Phases, OnTheWay
  <2> QED
    BY <2>1, <2>2, <2>3, RemovedKeeps
<1>4. ASSUME starter = "container", Gateway!RunFails PROVE GatewayInv'
  <2>1. \A s \in Sessions : session[s] \notin OnTheWay /\ awaits[s] = 0
    BY <1>0, <1>4 DEF ObjectKnows, AccessFollows, OnTheWay, HeardIsGiven
  <2>2. /\ handle' = {} /\ ready' = FALSE /\ starter' = "none" /\ docker' = (docker \ handle) \cup {"container"}
        /\ session' = [s \in Sessions |-> IF session[s] = "starting" THEN "idle" ELSE session[s]]
        /\ UNCHANGED <<policy, token, chain, offered, lost, awaits, heard, given>>
    BY <1>4 DEF Gateway!RunFails, Gateway!tokenVars, Gateway!sessionVars, Gateway!Nobody
  <2>3. GatewayTypes'
    BY <1>0, <2>2 DEF GatewayTypes, Phases
  <2>4. \A s \in Sessions : session'[s] \notin OnTheWay
    BY <1>0, <2>1, <2>2 DEF GatewayTypes, OnTheWay
  <2>5. chain = <<>>
    BY <1>0, <2>1, NobodyRotates
  <2>6. AccessFollows' /\ HeardIsGiven'
    BY <1>0, <2>1, <2>2, <2>4, <2>5 DEF AccessFollows, HeardIsGiven, OnTheWay
  <2> QED
    BY <1>0, <2>2, <2>3, <2>6 DEF GatewayInv, ObjectKnows, OneRotation
<1>5. ASSUME NEW what, NEW next, Gateway!Create(what, next),
             \/ what = "network" /\ next = "container"
             \/ what = "container" /\ next = "health"
      PROVE  GatewayInv'
  <2>0. starter = what /\ starter # "none"
    BY <1>5 DEF Gateway!Create
  <2>1. CASE Gateway!StartFails
    BY <1>2, <2>0, <2>1
  <2>2. CASE what = "container" /\ Gateway!RunFails
    BY <1>4, <2>0, <2>2
  <2>3. CASE /\ docker' = docker \cup {what} /\ handle' = handle \cup {what} /\ starter' = next
             /\ UNCHANGED <<ready, session, policy, token, chain, offered, lost, awaits, heard, given>>
    <3>1. ObjectKnows'
      BY <1>0, <1>5, <2>0, <2>3 DEF ObjectKnows, Parts
    <3> QED
      BY <1>0, <2>3, <3>1 DEF GatewayInv, GatewayTypes, AccessFollows, OneRotation, HeardIsGiven
  <2> QED
    BY <1>5, <2>1, <2>2, <2>3 DEF Gateway!Create, Gateway!tokenVars, Gateway!sessionVars
<1>6. CASE Gateway!Healthy
  <2>0. starter = "health"
    BY <1>6 DEF Gateway!Healthy
  <2>1. CASE Gateway!StartFails
    BY <1>2, <2>0, <2>1
  <2>2. CASE /\ ready' = TRUE /\ starter' = "none" /\ token' = [memory |-> 1, container |-> 1]
             /\ UNCHANGED <<session, handle, docker, policy, chain, offered, lost, awaits, heard, given>>
    <3>1. \A s \in Sessions : session[s] \notin OnTheWay
      BY <1>0, <2>0 DEF ObjectKnows, AccessFollows, OnTheWay
    <3>2. chain = <<>> /\ offered = 0
      BY <1>0, <3>1, NobodyRotates DEF OneRotation
    <3>3. ObjectKnows'
      BY <1>0, <2>0, <2>2 DEF ObjectKnows
    <3>4. HeardIsGiven'
      BY <1>0, <2>2, <3>1 DEF HeardIsGiven, OnTheWay
    <3> QED
      BY <1>0, <2>2, <3>2, <3>3, <3>4 DEF GatewayInv, GatewayTypes, AccessFollows, OneRotation
  <2> QED
    BY <1>6, <2>1, <2>2 DEF Gateway!Healthy, Gateway!Nobody, Gateway!sessionVars
<1>7. CASE Gateway!Configured
  <2>1. /\ policy.memory = "sent"
        /\ UNCHANGED <<starter, handle, docker, ready, token, chain, offered, lost, awaits, heard, given>>
    BY <1>7 DEF Gateway!Configured, Gateway!startVars, Gateway!tokenVars, Gateway!sessionVars
  <2>2. \A s \in Sessions : session[s] # "using"
    BY <1>0, <2>1 DEF AccessFollows
  <2>3. \/ policy' = [memory |-> "known", container |-> "known"] /\ UNCHANGED session
        \/ /\ policy' \in {[policy EXCEPT !.memory = "none"],
                           [memory |-> "none", container |-> "known"]}
           /\ session' = [s \in Sessions |->
                  IF session[s] = "configuring" THEN "done" ELSE session[s]]
    BY <1>7 DEF Gateway!Configured
  <2>4. GatewayTypes' /\ ObjectKnows' /\ OneRotation'
    BY <1>0, <2>1, <2>3 DEF GatewayTypes, Phases, ObjectKnows, OneRotation
  <2>5. \A s \in Sessions : (session'[s] = session[s])
                           \/ (session'[s] = "done" /\ session[s] = "configuring")
    BY <1>0, <2>3 DEF GatewayTypes
  <2>6. chain = <<>>
    BY <1>0, <2>2, NobodyRotates
  <2>7. AccessFollows'
    BY <1>0, <2>1, <2>2, <2>3, <2>5, <2>6 DEF GatewayTypes, AccessFollows
  <2>8. HeardIsGiven'
    BY <1>0, <2>1, <2>5 DEF HeardIsGiven
  <2> QED
    BY <2>4, <2>7, <2>8 DEF GatewayInv
<1>8. ASSUME NEW s \in Sessions, Gateway!Ask(s) PROVE GatewayInv'
  <2>1. /\ session[s] = "idle" /\ session' = [session EXCEPT ![s] = "starting"]
        /\ \/ starter = "none" /\ ~ready /\ starter' = "network"
           \/ UNCHANGED starter
        /\ UNCHANGED <<handle, docker, ready, policy, token, chain, offered, lost, awaits, heard, given>>
    BY <1>8 DEF Gateway!Ask, Gateway!MayStart, Gateway!tokenVars, Gateway!sessionVars, Gateway!Nobody
  <2>2. ObjectKnows'
    BY <1>0, <2>1 DEF ObjectKnows
  <2>3. GatewayTypes' /\ OneRotation' /\ HeardIsGiven'
    BY <1>0, <2>1 DEF GatewayTypes, Phases, OneRotation, HeardIsGiven
  <2>4. AccessFollows'
    BY <1>0, <2>1 DEF GatewayTypes, AccessFollows
  <2> QED
    BY <2>2, <2>3, <2>4 DEF GatewayInv
<1>9. ASSUME NEW s \in Sessions, Gateway!Configure(s) \/ Gateway!Wait(s) PROVE GatewayInv'
  <2>1. /\ session[s] \in {"starting", "looked"} /\ ready
        /\ UNCHANGED <<starter, handle, docker, ready, token, chain, offered, lost, given>>
        /\ policy' = policy \/ policy' = [policy EXCEPT !.memory = IF @ = "none" THEN "sent" ELSE @]
    BY <1>0, <1>9 DEF Gateway!Configure, Gateway!Wait, Gateway!startVars, Gateway!tokenVars, AccessFollows
  <2>2. \/ /\ session' = [session EXCEPT ![s] = "configuring"] /\ UNCHANGED awaits
           /\ \/ session[s] = "looked" /\ UNCHANGED heard
              \/ chain = <<>> /\ heard' = [heard EXCEPT ![s] =
                                    IF chain = <<>> /\ lost THEN 0 ELSE token.container]
        \/ /\ session' = [session EXCEPT ![s] = "waiting"] /\ chain # <<>>
           /\ awaits' = [awaits EXCEPT ![s] = Len(chain)]
           /\ heard' = [heard EXCEPT ![s] = IF chain = <<>> /\ lost THEN 0 ELSE token.container]
    BY <1>9 DEF Gateway!Configure, Gateway!Wait, Gateway!Move, Gateway!Look, Gateway!NoToken
  <2>3. GatewayTypes'
    <3>1. Len(chain) \in Nat
      BY <1>0 DEF GatewayTypes
    <3>2. session' \in [Sessions -> Phases] /\ awaits' \in [Sessions -> Nat] /\ heard' \in [Sessions -> Nat]
      BY <1>0, <2>2, <3>1 DEF GatewayTypes, Phases
    <3>3. /\ policy'.memory \in {"none", "sent", "known"} /\ policy'.container \in {"none", "known"}
          /\ policy' = [memory |-> policy'.memory, container |-> policy'.container]
      BY <1>0, <2>1 DEF GatewayTypes
    <3> QED
      BY <1>0, <2>1, <3>2, <3>3 DEF GatewayTypes
  <2>4. ObjectKnows' /\ OneRotation'
    BY <1>0, <2>1 DEF ObjectKnows, OneRotation
  <2>5. AccessFollows'
    <3>1. \A i \in 1..Len(chain) : chain[i] \in Sessions /\ chain[i] # s
      BY <1>0, <2>1 DEF GatewayTypes, AccessFollows
    <3>2. \A t \in Sessions : t # s => session'[t] = session[t]
      BY <1>0, <2>2 DEF GatewayTypes
    <3>3. session'[s] \in {"waiting", "configuring"}
      BY <1>0, <2>2 DEF GatewayTypes
    <3> QED
      BY <1>0, <2>1, <3>1, <3>2, <3>3 DEF GatewayTypes, AccessFollows
  <2>6. HeardIsGiven'
    <3>1. chain = <<>> /\ ~lost => token.memory = token.container
      BY <1>0, <2>1 DEF OneRotation
    <3>2. chain # <<>> => Len(chain) # 0
      BY <1>0 DEF GatewayTypes
    <3> SUFFICES ASSUME NEW t \in Sessions
                 PROVE  /\ awaits'[t] # 0 => session'[t] = "waiting"
                        /\ session'[t] = "waiting" => awaits'[t] # 0 /\ heard'[t] <= token.container
                        /\ session'[t] \in {"looked", "configuring"} => heard'[t] <= token.memory
                        /\ session'[t] = "using" => heard'[t] <= given[t]
      BY <2>1 DEF HeardIsGiven
    <3>3. CASE t # s
      <4>1. session'[t] = session[t] /\ awaits'[t] = awaits[t] /\ heard'[t] = heard[t]
        BY <1>0, <2>2, <3>3 DEF GatewayTypes
      <4> QED
        BY <1>0, <4>1 DEF HeardIsGiven
    <3>4. CASE t = s
      BY <1>0, <2>1, <2>2, <3>1, <3>2, <3>4 DEF HeardIsGiven, GatewayTypes
    <3> QED
      BY <3>3, <3>4
  <2> QED
    BY <2>3, <2>4, <2>5, <2>6 DEF GatewayInv
<1>10. ASSUME NEW s \in Sessions, Gateway!Give(s) \/ Gateway!Leave(s) PROVE GatewayInv'
  <2>1. /\ \/ /\ session[s] = "configuring" /\ policy.memory = "known"
              /\ session' = [session EXCEPT ![s] = "using"]
              /\ given' = [given EXCEPT ![s] = token.memory] /\ UNCHANGED heard
           \/ /\ session[s] = "using" /\ session' = [session EXCEPT ![s] = "done"]
              /\ \A i \in DOMAIN chain : chain[i] # s
              /\ given' = [given EXCEPT ![s] = 0] /\ heard' = [heard EXCEPT ![s] = 0]
        /\ UNCHANGED <<starter, handle, docker, ready, policy, token, chain, offered, lost, awaits>>
    BY <1>10 DEF Gateway!Give, Gateway!Leave, Gateway!Rotates, Gateway!Known, Gateway!Move,
                 Gateway!NoToken, Gateway!startVars, Gateway!tokenVars
  <2>2. GatewayTypes'
    <3>1. /\ session' \in [Sessions -> Phases] /\ given' \in [Sessions -> Nat]
          /\ heard' \in [Sessions -> Nat]
      <4>1. /\ session \in [Sessions -> Phases] /\ given \in [Sessions -> Nat]
            /\ heard \in [Sessions -> Nat] /\ token.memory \in Nat
        BY <1>0 DEF GatewayTypes
      <4>2. "using" \in Phases /\ "done" \in Phases /\ 0 \in Nat
        BY DEF Phases
      <4> QED
        BY <2>1, <4>1, <4>2
    <3> QED
      BY <1>0, <2>1, <3>1 DEF GatewayTypes
  <2>5. ObjectKnows' /\ OneRotation'
    BY <1>0, <2>1 DEF ObjectKnows, OneRotation
  <2>3. AccessFollows'
    <3>1. \A i \in 1..Len(chain) : chain[i] \in Sessions /\ chain[i] # s
      BY <1>0, <2>1 DEF GatewayTypes, AccessFollows
    <3> QED
      BY <1>0, <2>1, <3>1 DEF GatewayTypes, AccessFollows
  <2>4. HeardIsGiven'
    BY <1>0, <2>1 DEF GatewayTypes, HeardIsGiven
  <2> QED
    BY <2>2, <2>3, <2>4, <2>5 DEF GatewayInv
<1>11. ASSUME NEW s \in Sessions, Gateway!Rotate(s) PROVE GatewayInv'
  <2>1. /\ session[s] = "using" /\ chain' = Append(chain, s)
        /\ UNCHANGED <<session, starter, handle, docker, ready, policy, token, offered, lost, awaits,
                       heard, given>>
    BY <1>11 DEF Gateway!Rotate, Gateway!startVars, Gateway!sessionVars
  <2>2. GatewayTypes' /\ ObjectKnows' /\ OneRotation' /\ HeardIsGiven'
    <3>1. chain' \in Seq(Sessions) /\ chain' # <<>>
      <4>1. chain \in Seq(Sessions)
        BY <1>0 DEF GatewayTypes
      <4>2. Append(chain, s) \in Seq(Sessions) /\ Len(Append(chain, s)) = Len(chain) + 1
            /\ Len(chain) \in Nat
        BY <4>1
      <4> QED
        BY <2>1, <4>2
    <3> QED
      BY <1>0, <2>1, <3>1 DEF GatewayTypes, ObjectKnows, OneRotation, HeardIsGiven
  <2>3. \A i \in 1..Len(chain') : chain'[i] = s \/ (i \in 1..Len(chain) /\ chain'[i] = chain[i])
    BY <1>0, <2>1 DEF GatewayTypes
  <2>4. AccessFollows'
    BY <1>0, <2>1, <2>3 DEF AccessFollows
  <2> QED
    BY <2>2, <2>4 DEF GatewayInv
<1>12. CASE Gateway!RotateInContainer
  <2>1. chain # <<>> /\ offered = 0
    BY <1>12 DEF Gateway!RotateInContainer, Gateway!NoToken
  <2>2. CASE /\ token' = [token EXCEPT !.container = @ + 1] /\ offered' = token.container + 1
             /\ UNCHANGED <<session, starter, handle, docker, ready, policy, chain, lost, awaits, heard, given>>
    <3>0. /\ token'.memory = token.memory /\ token'.container = token.container + 1
          /\ token' = [memory |-> token'.memory, container |-> token'.container]
      BY <1>0, <2>2 DEF GatewayTypes
    <3>3. GatewayTypes'
      BY <1>0, <2>2, <3>0 DEF GatewayTypes
    <3>1. ObjectKnows' /\ AccessFollows'
      BY <1>0, <2>2 DEF ObjectKnows, AccessFollows
    <3>2. OneRotation' /\ HeardIsGiven'
      BY <1>0, <2>1, <2>2 DEF GatewayTypes, OneRotation, HeardIsGiven
    <3> QED
      BY <3>1, <3>2, <3>3 DEF GatewayInv
  <2>3. CASE Gateway!Over("done") /\ UNCHANGED <<token, lost>>
    <3>1. offered' = 0 /\ ready' = ready
      BY <2>3 DEF Gateway!Over, Gateway!NoToken, Gateway!startVars
    <3>2. GatewayTypes'
      BY <1>0, <2>1, <2>3 DEF GatewayTypes, Phases, Gateway!Over, Gateway!NoToken
    <3>3. OneRotation'
      BY <1>0, <2>1, <2>3, <3>1 DEF OneRotation
    <3>4. token' = token /\ token.memory \in Nat /\ token.memory <= token'.memory
      BY <1>0, <2>3 DEF GatewayTypes
    <3> QED
      BY <2>1, <2>3, <3>2, <3>3, <3>4, OverKeeps
  <2> QED
    BY <1>12, <2>2, <2>3 DEF Gateway!RotateInContainer, Gateway!startVars, Gateway!sessionVars
<1>13. CASE Gateway!TakeAnswer
  <2>1. chain # <<>> /\ offered # 0 /\ offered = token.container
    BY <1>0, <1>13 DEF Gateway!TakeAnswer, Gateway!NoToken, OneRotation
  <2>2. ASSUME NEW next \in {"looked", "done"}, Gateway!Over(next),
               \/ next = "looked" /\ token' = [token EXCEPT !.memory = offered] /\ lost' = FALSE
               \/ next = "done" /\ lost' = TRUE /\ UNCHANGED token
        PROVE  GatewayInv'
    <3>1. offered' = 0 /\ ready' = ready
      BY <2>2 DEF Gateway!Over, Gateway!NoToken, Gateway!startVars
    <3>2. /\ token'.container = token.container /\ token.memory <= token'.memory
          /\ next = "looked" => token'.memory = token.container
          /\ token'.memory <= token'.container
      BY <1>0, <2>1, <2>2 DEF GatewayTypes, OneRotation
    <3>3. GatewayTypes'
      BY <1>0, <2>1, <2>2, <3>2 DEF GatewayTypes, Phases, Gateway!Over, Gateway!NoToken
    <3>4. OneRotation'
      BY <1>0, <2>2, <3>1, <3>2 DEF OneRotation
    <3> QED
      BY <2>1, <2>2, <3>2, <3>3, <3>4, OverKeeps
  <2> QED
    BY <1>13, <2>2 DEF Gateway!TakeAnswer
<1> QED
  BY <1>1, <1>3, <1>5, <1>6, <1>7, <1>8, <1>9, <1>10, <1>11, <1>12, <1>13 DEF Gateway!Next

LEMMA GatewayResult == ASSUME GatewayInv PROVE Gateway!AccessIsGood
<1>1. Gateway!ServedWhileUsed
  BY DEF GatewayInv, ObjectKnows, AccessFollows, OnTheWay, Parts, Gateway!ServedWhileUsed
<1>2. Gateway!TokensAgree
  BY DEF GatewayInv, OneRotation, Gateway!TokensAgree
<1>3. Gateway!GivenAfterLook
  BY DEF GatewayInv, GatewayTypes, HeardIsGiven, Gateway!GivenAfterLook
<1> QED
  BY <1>1, <1>2, <1>3 DEF Gateway!AccessIsGood

(* However sessions that share a gateway start it, rotate its token and    *)
(* stop, it stays up for the ones that use it, its container takes the     *)
(* token that the gateway object knows when no rotation goes on, unless an *)
(* answer was lost, and no session was given a token that was out of date  *)
(* when it looked.  For any sessions and bounds.                           *)
THEOREM AccessStaysGood == Spec => []AccessIsGood
<1>1. Init => GatewayInv
  BY GatewayInit, Assumptions DEF Init
<1>2. GatewayInv /\ [Next]_operation => GatewayInv'
  BY GatewayKeeps, OperationStep, Assumptions
<1>3. GatewayInv => AccessIsGood
  BY GatewayResult DEF AccessIsGood
<1> QED
  BY <1>1, <1>2, <1>3, PTL DEF Spec

-----------------------------------------------------------------------------
(* The diagnostics of a run                                                *)

Usages == [Diagnostics!Roles -> [tokens : Int, complete : BOOLEAN]]
Keys == (1..Observed) \X Sides \X Tasks
Durations == [took : {1, 9}, ok : BOOLEAN]
Reports ==
    [usage : Usages, recorded : [1..Observed -> {0, 1}], seen : SUBSET Keys, bad : SUBSET Keys,
     durations : Seq(Durations)]

DiagnosticsTypes ==
    /\ driver \in Usages /\ offset \in Usages /\ memory \in Reports
    /\ used \in [Diagnostics!Roles -> Int] /\ kept \in [Diagnostics!Roles -> Int]
    /\ unsaved \in [Diagnostics!Roles -> Int]
    /\ recent \in 0..Observed
    /\ saved.ended \in 0..Observed /\ saved.diagnostics \in Reports

(* What the next process could be given: a short history, failures only    *)
(* where something was observed, counts only of generations that ended.    *)
ReportSound(d, n) ==
    /\ d.bad \subseteq d.seen /\ Len(d.durations) <= Kept
    /\ \A g \in 1..Observed : g > n => d.recorded[g] = 0

(* A token that was spent is in the offset, in the driver's count, or was  *)
(* lost with its process.                                                  *)
TokensAccounted ==
    \A r \in Diagnostics!Roles :
        /\ used[r] = offset[r].tokens + driver[r].tokens + unsaved[r]
        /\ saved.diagnostics.usage[r].tokens = kept[r]

DiagnosticsInv ==
    /\ DiagnosticsTypes /\ TokensAccounted
    /\ ReportSound(memory, recent) /\ ReportSound(saved.diagnostics, saved.ended)
    /\ \A g \in 1..Observed :
           saved.diagnostics.recorded[g] = IF g <= saved.ended THEN 1 ELSE 0

LEMMA DiagnosticsInit ==
    ASSUME Diagnostics!DiagnosticsAssumption, Diagnostics!Init PROVE DiagnosticsInv
<1>1. Diagnostics!NoUsage \in Usages /\ \A r \in Diagnostics!Roles : Diagnostics!NoUsage[r].tokens = 0
  BY DEF Diagnostics!NoUsage, Usages
<1> DEFINE f == Diagnostics!Fresh
<1>2. /\ f \in Reports /\ f.bad = {} /\ f.seen = {} /\ f.durations = <<>>
      /\ f.usage = Diagnostics!NoUsage /\ f.recorded = [g \in 1..Observed |-> 0]
  BY <1>1 DEF Diagnostics!Fresh, Reports
<1> HIDE DEF f
<1>3. /\ driver = Diagnostics!NoUsage /\ offset = Diagnostics!NoUsage /\ memory = f /\ recent = 0
      /\ saved.ended = 0 /\ saved.diagnostics = f
      /\ used = [r \in Diagnostics!Roles |-> 0] /\ kept = used /\ unsaved = used
  BY DEF Diagnostics!Init, f
<1>4. ReportSound(f, 0)
  BY <1>2 DEF ReportSound, Diagnostics!DiagnosticsAssumption
<1>5. DiagnosticsTypes
  BY <1>1, <1>2, <1>3 DEF DiagnosticsTypes, Diagnostics!DiagnosticsAssumption
<1>6. TokensAccounted
  BY <1>1, <1>2, <1>3 DEF TokensAccounted
<1>7. ReportSound(memory, recent) /\ ReportSound(saved.diagnostics, saved.ended)
  BY <1>3, <1>4
<1>8. ASSUME NEW g \in 1..Observed
      PROVE  saved.diagnostics.recorded[g] = IF g <= saved.ended THEN 1 ELSE 0
  <2>1. f.recorded[g] = 0 /\ ~(g <= 0)
    BY <1>2 DEF Diagnostics!DiagnosticsAssumption
  <2> QED
    BY <1>3, <2>1
<1> QED
  BY <1>5, <1>6, <1>7, <1>8 DEF DiagnosticsInv

LEMMA DiagnosticsKeeps ==
    ASSUME Diagnostics!DiagnosticsAssumption, DiagnosticsInv,
           Diagnostics!Next \/ UNCHANGED diagnosticsVars
    PROVE  DiagnosticsInv'
<1>0. /\ DiagnosticsTypes /\ TokensAccounted
      /\ ReportSound(memory, recent) /\ ReportSound(saved.diagnostics, saved.ended)
  BY DEF DiagnosticsInv
<1>a. Observed \in Nat /\ Kept \in Nat \ {0}
  BY DEF Diagnostics!DiagnosticsAssumption
<1>1. CASE UNCHANGED diagnosticsVars
  BY <1>1 DEF diagnosticsVars, DiagnosticsInv, DiagnosticsTypes, TokensAccounted, ReportSound
(* Most steps leave the saved state and the books of other processes.      *)
<1>2. ASSUME UNCHANGED <<saved, kept, unsaved, offset>>, memory' \in Reports,
             recent' \in 0..Observed, ReportSound(memory', recent'),
             \/ UNCHANGED <<used, driver>>
             \/ \E r \in Diagnostics!Roles, complete \in BOOLEAN : Diagnostics!Spent(r, complete)
      PROVE  DiagnosticsInv'
  <2>1. CASE UNCHANGED <<used, driver>>
    BY <1>2, <2>1 DEF DiagnosticsInv, DiagnosticsTypes, TokensAccounted
  <2>2. ASSUME NEW r \in Diagnostics!Roles, NEW complete \in BOOLEAN,
               Diagnostics!Spent(r, complete)
        PROVE  DiagnosticsInv'
    <3>1. /\ used' = [used EXCEPT ![r] = used[r] + 1]
          /\ driver' = [driver EXCEPT ![r] = [tokens |-> driver[r].tokens + 1,
                                              complete |-> driver[r].complete /\ complete]]
      BY <2>2 DEF Diagnostics!Spent
    <3>2. used[r] \in Int /\ driver[r].tokens \in Int /\ driver[r].complete \in BOOLEAN
      BY <1>0 DEF DiagnosticsTypes, Usages
    <3>3. /\ used' \in [Diagnostics!Roles -> Int] /\ driver' \in Usages
          /\ used'[r] = used[r] + 1 /\ driver'[r].tokens = driver[r].tokens + 1
          /\ \A s \in Diagnostics!Roles \ {r} : used'[s] = used[s] /\ driver'[s] = driver[s]
      BY <1>0, <3>1, <3>2 DEF DiagnosticsTypes, Usages
    <3>4. \A s \in Diagnostics!Roles : offset[s].tokens \in Int /\ unsaved[s] \in Int
      BY <1>0 DEF DiagnosticsTypes, Usages
    <3>5. TokensAccounted'
      BY <1>0, <1>2, <3>2, <3>3, <3>4 DEF TokensAccounted
    <3> QED
      BY <1>2, <3>3, <3>5 DEF DiagnosticsInv, DiagnosticsTypes
  <2> QED
    BY <1>2, <2>1, <2>2
<1>3. ASSUME NEW complete \in BOOLEAN, Diagnostics!Solve(complete) PROVE DiagnosticsInv'
  <2>1. /\ UNCHANGED <<saved, kept, unsaved, offset, memory, recent>>
        /\ Diagnostics!Spent("solver", complete) /\ "solver" \in Diagnostics!Roles
    BY <1>3 DEF Diagnostics!Solve, Diagnostics!Elsewhere, Diagnostics!Roles
  <2> QED
    BY <1>0, <1>2, <2>1 DEF DiagnosticsTypes
<1>4. ASSUME NEW took \in {1, 9}, Diagnostics!Update(took) PROVE DiagnosticsInv'
  <2>1. /\ UNCHANGED <<saved, kept, unsaved, offset, recent>>
        /\ Diagnostics!Spent("updater", TRUE) /\ "updater" \in Diagnostics!Roles
    BY <1>4 DEF Diagnostics!Update, Diagnostics!Elsewhere, Diagnostics!Roles
  <2> DEFINE e == [took |-> took, ok |-> took < Diagnostics!Limit(6)]
             h == Append(memory.durations, e)
             k == Diagnostics!Shifted(h)
  <2>2. e \in Durations
    BY DEF Durations
  <2>3. memory' = [memory EXCEPT !.durations = k]
    BY <1>4 DEF Diagnostics!Update
  <2>4. memory.durations \in Seq(Durations) /\ Len(memory.durations) <= Kept
    BY <1>0 DEF DiagnosticsTypes, Reports, ReportSound
  <2>5. h \in Seq(Durations) /\ Len(h) = Len(memory.durations) + 1
    BY <2>2, <2>4, Appended
  <2> HIDE DEF e, h
  <2>6. k \in Seq(Durations) /\ Len(k) <= Kept
    BY <1>a, <2>4, <2>5 DEF Diagnostics!Shifted
  <2> HIDE DEF k
  <2>7. /\ memory' \in Reports /\ memory'.durations = k /\ memory'.bad = memory.bad
        /\ memory'.seen = memory.seen /\ memory'.recorded = memory.recorded
    BY <1>0, <2>3, <2>6 DEF DiagnosticsTypes, Reports
  <2>8. ReportSound(memory', recent')
    BY <1>0, <2>1, <2>6, <2>7 DEF ReportSound
  <2> QED
    BY <1>0, <1>2, <2>1, <2>7, <2>8 DEF DiagnosticsTypes
<1>5. ASSUME NEW side \in Sides, NEW t \in Tasks, NEW isBad \in BOOLEAN,
             Diagnostics!Observe(side, t, isBad)
      PROVE  DiagnosticsInv'
  <2>1. /\ UNCHANGED <<saved, kept, unsaved, offset, recent, driver, used>> /\ recent < Observed
        /\ memory' = [memory EXCEPT !.seen = @ \cup {<<recent + 1, side, t>>},
               !.bad = IF isBad THEN @ \cup {<<recent + 1, side, t>>}
                       ELSE @ \ {<<recent + 1, side, t>>}]
    BY <1>5 DEF Diagnostics!Observe, Diagnostics!Elsewhere
  <2> DEFINE key == <<recent + 1, side, t>>
  <2>2. key \in Keys
    <3>1. recent + 1 \in 1..Observed
      BY <1>0, <1>a, <2>1 DEF DiagnosticsTypes
    <3> QED
      BY <3>1 DEF Keys
  <2> HIDE DEF key
  <2>3. /\ memory' \in Reports /\ memory'.durations = memory.durations
        /\ memory'.seen = memory.seen \cup {key} /\ memory'.recorded = memory.recorded
        /\ memory'.bad \in {memory.bad \cup {key}, memory.bad \ {key}}
    BY <1>0, <2>1, <2>2 DEF DiagnosticsTypes, Reports, key
  <2>4. ReportSound(memory', recent')
    BY <1>0, <2>1, <2>3 DEF ReportSound
  <2> QED
    BY <1>0, <1>2, <2>1, <2>3, <2>4 DEF DiagnosticsTypes
<1>6. ASSUME NEW atOnce \in BOOLEAN, Diagnostics!End(atOnce) PROVE DiagnosticsInv'
  <2>1. /\ UNCHANGED <<saved, kept, unsaved, offset, driver, used>>
        /\ recent < Observed /\ recent' = recent + 1
        /\ \/ memory' = memory
           \/ memory' = [memory EXCEPT !.recorded[recent + 1] = @ + 1]
    BY <1>6 DEF Diagnostics!End
  <2>2. recent + 1 \in 1..Observed /\ recent' \in 0..Observed /\ recent \in Int
    BY <1>0, <1>a, <2>1 DEF DiagnosticsTypes
  <2>3. memory.recorded[recent + 1] = 0
    BY <1>0, <2>2 DEF ReportSound
  <2>4. CASE memory' = memory
    <3>1. ReportSound(memory', recent')
      BY <1>0, <1>a, <2>1, <2>2, <2>4 DEF ReportSound
    <3> QED
      BY <1>0, <1>2, <2>1, <2>2, <2>4, <3>1 DEF DiagnosticsTypes
  <2>5. CASE memory' = [memory EXCEPT !.recorded[recent + 1] = @ + 1]
    <3> DEFINE f == [memory.recorded EXCEPT ![recent + 1] = 1]
    <3>1. memory' = [memory EXCEPT !.recorded = f]
      BY <1>0, <2>3, <2>5 DEF DiagnosticsTypes, Reports
    <3>2. f \in [1..Observed -> {0, 1}]
      BY <1>0 DEF DiagnosticsTypes, Reports
    <3>3. \A g \in 1..Observed : g > recent + 1 => f[g] = 0
      BY <1>0, <1>a, <2>2 DEF DiagnosticsTypes, Reports, ReportSound
    <3> HIDE DEF f
    <3>4. /\ memory' \in Reports /\ memory'.durations = memory.durations /\ memory'.bad = memory.bad
          /\ memory'.seen = memory.seen /\ memory'.recorded = f
      BY <1>0, <3>1, <3>2 DEF DiagnosticsTypes, Reports
    <3>5. ReportSound(memory', recent')
      BY <1>0, <2>1, <3>3, <3>4 DEF ReportSound
    <3> QED
      BY <1>2, <2>1, <2>2, <3>4, <3>5
  <2> QED
    BY <2>1, <2>4, <2>5
<1>7. CASE Diagnostics!Persist
  <2> DEFINE c == Diagnostics!Current
             u == [r \in Diagnostics!Roles |-> Diagnostics!Total(r)]
             f == [g \in 1..Observed |-> IF g \in Diagnostics!Unrecorded
                                         THEN memory.recorded[g] + 1 ELSE memory.recorded[g]]
  <2>1. /\ memory' = c /\ saved' = [ended |-> recent, diagnostics |-> c]
        /\ kept' = [r \in Diagnostics!Roles |-> used[r] - unsaved[r]]
        /\ UNCHANGED <<driver, offset, recent, used, unsaved>>
    BY <1>7 DEF Diagnostics!Persist
  <2>2. /\ u \in Usages
        /\ \A r \in Diagnostics!Roles : u[r].tokens = offset[r].tokens + driver[r].tokens
    BY <1>0 DEF DiagnosticsTypes, Usages, Diagnostics!Total
  <2>3. \A g \in 1..Observed : f[g] = IF g <= recent THEN 1 ELSE 0
    BY <1>0, <1>a DEF DiagnosticsTypes, Reports, ReportSound, Diagnostics!Unrecorded
  <2>4. f \in [1..Observed -> {0, 1}]
    BY <2>3
  <2>5. c = [memory EXCEPT !.usage = u, !.recorded = f]
    BY DEF Diagnostics!Current
  <2> HIDE DEF u, f, c
  <2>6. /\ c \in Reports /\ c.usage = u /\ c.recorded = f /\ c.bad = memory.bad
        /\ c.seen = memory.seen /\ c.durations = memory.durations
    BY <1>0, <2>2, <2>4, <2>5 DEF DiagnosticsTypes, Reports
  <2>7. saved'.ended = recent /\ saved'.diagnostics = c
    BY <2>1
  <2>8. ReportSound(c, recent)
    BY <1>0, <1>a, <2>3, <2>6 DEF ReportSound, DiagnosticsTypes
  <2>9. TokensAccounted'
    <3>1. \A r \in Diagnostics!Roles : /\ used[r] \in Int /\ unsaved[r] \in Int
                                       /\ offset[r].tokens \in Int /\ driver[r].tokens \in Int
      BY <1>0 DEF DiagnosticsTypes, Usages
    <3>2. \A r \in Diagnostics!Roles : c.usage[r].tokens = kept'[r]
      BY <1>0, <2>1, <2>2, <2>6, <3>1 DEF TokensAccounted
    <3> QED
      BY <1>0, <2>1, <2>7, <3>2 DEF TokensAccounted
  <2>10. DiagnosticsTypes'
    BY <1>0, <2>1, <2>6, <2>7 DEF DiagnosticsTypes
  <2> QED
    BY <2>1, <2>3, <2>6, <2>7, <2>8, <2>9, <2>10 DEF DiagnosticsInv
<1>8. CASE Diagnostics!Restart
  <2>1. /\ memory' = saved.diagnostics /\ recent' = saved.ended
        /\ offset' = saved.diagnostics.usage /\ driver' = Diagnostics!NoUsage
        /\ unsaved' = [r \in Diagnostics!Roles |-> used[r] - kept[r]]
        /\ UNCHANGED <<saved, used, kept>>
    BY <1>8 DEF Diagnostics!Restart
  <2>2. driver' \in Usages /\ \A r \in Diagnostics!Roles : driver'[r].tokens = 0
    BY <2>1 DEF Diagnostics!NoUsage, Usages
  <2>3. \A r \in Diagnostics!Roles : used[r] \in Int /\ kept[r] \in Int
    BY <1>0 DEF DiagnosticsTypes
  <2>4. DiagnosticsTypes'
    BY <1>0, <2>1, <2>2, <2>3 DEF DiagnosticsTypes, Reports
  <2>5. TokensAccounted'
    BY <1>0, <2>1, <2>2, <2>3 DEF TokensAccounted
  <2> QED
    BY <1>0, <2>1, <2>4, <2>5 DEF DiagnosticsInv
<1> QED
  BY <1>1, <1>3, <1>4, <1>5, <1>6, <1>7, <1>8 DEF Diagnostics!Next

LEMMA DiagnosticsResult == ASSUME DiagnosticsInv PROVE Diagnostics!DiagnosticsAgree
<1> DEFINE d == saved.diagnostics
<1>1. Diagnostics!TokensCountedOnce /\ Diagnostics!GenerationsCountedOnce
  BY DEF DiagnosticsInv, TokensAccounted, Diagnostics!TokensCountedOnce,
         Diagnostics!GenerationsCountedOnce
<1>2. Diagnostics!SavedIsRestorable
  BY DEF DiagnosticsInv, ReportSound, Diagnostics!SavedIsRestorable, Diagnostics!Restorable
<1>3. d.bad \subseteq d.seen
  BY DEF DiagnosticsInv, ReportSound
<1>4. ASSUME NEW t \in Diagnostics!AlwaysFailing(d), NEW g \in 1..Observed,
             t \in Diagnostics!SeenIn(d, g)
      PROVE  t \in Diagnostics!BadIn(d, g)
  <2>1. g \in Diagnostics!ObservedGenerations(d)
    BY <1>4 DEF Diagnostics!SeenIn, Diagnostics!ObservedGenerations
  <2> QED
    BY <1>4, <2>1 DEF Diagnostics!AlwaysFailing
<1>5. \A g : Diagnostics!BadIn(d, g) \subseteq Diagnostics!SeenIn(d, g)
  BY <1>3 DEF Diagnostics!BadIn, Diagnostics!SeenIn
<1>6. ASSUME NEW t \in Diagnostics!NewlyFailing(d) \cup Diagnostics!Improved(d),
             NEW g \in {Diagnostics!Min(Diagnostics!ObservedGenerations(d)),
                        Diagnostics!Max(Diagnostics!ObservedGenerations(d))}
      PROVE  t \in Diagnostics!SeenIn(d, g)
  BY <1>5, <1>6 DEF Diagnostics!NewlyFailing, Diagnostics!Improved
<1> QED
  BY <1>1, <1>2, <1>4, <1>6 DEF Diagnostics!DiagnosticsAgree, Diagnostics!TrendsAreObserved

-----------------------------------------------------------------------------
(* The event log of a server run                                           *)

FromRun == {i \in DOMAIN events : events[i][2] # 0}

FeedTypes ==
    /\ events \in Seq(Nat \X Nat) /\ core \in Nat /\ sequence \in Nat
    /\ reading \subseteq Getters /\ import \in [Getters -> Nat \X Nat]

(* The cached number is that of the last entry; at most one read imports,  *)
(* and it knows how many of the run's events are there.                    *)
FeedInv ==
    /\ FeedTypes
    /\ Feed!NumbersAreSteady /\ Feed!CoreImportedOnce
    /\ sequence = 0 \/ sequence = Len(events)
    /\ \A g, h \in reading : g = h
    /\ \A g \in reading : import[g][1] = Cardinality(FromRun)

LEMMA FeedCounts ==
    ASSUME FeedTypes
    PROVE  /\ IsFiniteSet(FromRun) /\ Cardinality(FromRun) \in Nat
           /\ Feed!Imported = Cardinality(FromRun)
           /\ \A S : Feed!Cardinality(S) = Cardinality(S)
<1>1. \A S : Feed!Cardinality(S) = Cardinality(S)
  BY DEF Feed!Cardinality, Cardinality
<1>2. FromRun \subseteq 1 .. Len(events) /\ 1 \in Int /\ Len(events) \in Int
  BY DEF FeedTypes, FromRun
<1>3. IsFiniteSet(1 .. Len(events))
  BY <1>2, FS_Interval
<1> QED
  BY <1>1, <1>2, <1>3, FS_Subset, FS_CardinalityType DEF Feed!Imported, FromRun

LEMMA FeedInit == ASSUME Feed!Init PROVE FeedInv
<1>1. FeedTypes /\ events = <<>>
  BY DEF Feed!Init, FeedTypes
<1> QED
  BY <1>1 DEF Feed!Init, FeedInv, Feed!NumbersAreSteady, Feed!CoreImportedOnce

(* An entry of the server, or the next one of the run.                     *)
LEMMA EntryAppended ==
    ASSUME FeedInv, NEW origin \in Nat, Feed!Append_(origin),
           origin # 0 => origin = Cardinality(FromRun) + 1
    PROVE  /\ events' \in Seq(Nat \X Nat) /\ sequence' = Len(events') /\ sequence' \in Nat
           /\ Feed!NumbersAreSteady' /\ Feed!CoreImportedOnce'
           /\ Cardinality(FromRun)' = IF origin = 0 THEN Cardinality(FromRun)
                                       ELSE Cardinality(FromRun) + 1
<1> DEFINE n == Len(events)
           entry == <<n + 1, origin>>
<1>0. FeedTypes /\ n \in Nat /\ DOMAIN events = 1 .. n
  BY DEF FeedInv, FeedTypes
<1>1. Feed!Number = n + 1
  <2>1. n > 0 => events[n][1] = n
    BY <1>0 DEF FeedInv, Feed!NumbersAreSteady
  <2>2. events = <<>> <=> n = 0
    BY <1>0 DEF FeedTypes
  <2> QED
    BY <1>0, <2>1, <2>2 DEF FeedInv, Feed!Number
<1>2. /\ events' = Append(events, entry) /\ sequence' = n + 1
      /\ entry \in Nat \X Nat
  BY <1>0, <1>1 DEF Feed!Append_
<1>3. /\ events' \in Seq(Nat \X Nat) /\ Len(events') = n + 1 /\ DOMAIN events' = 1 .. n + 1
      /\ events'[n + 1] = entry /\ \A i \in 1 .. n : events'[i] = events[i]
  BY <1>0, <1>2 DEF FeedTypes
<1>4. entry[1] = n + 1 /\ entry[2] = origin
  OBVIOUS
<1> HIDE DEF entry
<1>5. Feed!NumbersAreSteady'
  <2> SUFFICES ASSUME NEW i \in 1 .. n + 1 PROVE events'[i][1] = i
    BY <1>3 DEF Feed!NumbersAreSteady
  <2>1. i \in 1 .. n => events'[i] = events[i] /\ events[i][1] = i
    BY <1>3 DEF FeedInv, Feed!NumbersAreSteady
  <2>2. i \in 1 .. n \/ i = n + 1
    BY <1>0
  <2> QED
    BY <1>3, <1>4, <2>1, <2>2
<1>6. FromRun' = IF origin = 0 THEN FromRun ELSE FromRun \cup {n + 1}
  BY <1>0, <1>3, <1>4 DEF FromRun
<1>7. Cardinality(FromRun)' = IF origin = 0 THEN Cardinality(FromRun) ELSE Cardinality(FromRun) + 1
  <2>1. n + 1 \notin FromRun /\ IsFiniteSet(FromRun)
    BY <1>0, FeedCounts DEF FromRun
  <2> QED
    BY <1>6, <2>1, OneMore
<1>8. Feed!CoreImportedOnce'
  <2> SUFFICES ASSUME NEW i \in 1 .. n + 1, events'[i][2] # 0
               PROVE  events'[i][2] = Cardinality({j \in 1 .. i : events'[j][2] # 0})
    BY <1>0, <1>3, FeedCounts DEF Feed!CoreImportedOnce, Feed!Cardinality, Cardinality
  <2>1. CASE i # n + 1
    <3>1. {j \in 1 .. i : events'[j][2] # 0} = {j \in 1 .. i : events[j][2] # 0}
      BY <1>0, <1>3, <2>1
    <3>2. i \in 1 .. Len(events) /\ events'[i] = events[i]
      BY <1>0, <1>3, <2>1
    <3>3. events[i][2] = Cardinality({j \in 1 .. i : events[j][2] # 0})
      BY <1>0, <3>2, FeedCounts DEF FeedInv, Feed!CoreImportedOnce
    <3> QED
      BY <3>1, <3>2, <3>3
  <2>2. CASE i = n + 1
    <3>1. {j \in 1 .. i : events'[j][2] # 0} = FromRun'
      BY <1>0, <1>3, <2>2 DEF FromRun
    <3> QED
      BY <1>3, <1>4, <1>7, <2>2, <3>1
  <2> QED
    BY <2>1, <2>2
<1> QED
  BY <1>0, <1>2, <1>3, <1>5, <1>7, <1>8

LEMMA FeedKeeps == ASSUME FeedInv, Feed!Next \/ UNCHANGED feedVars PROVE FeedInv'
<1>0. FeedTypes /\ Cardinality(FromRun) \in Nat /\ Feed!Imported = Cardinality(FromRun)
  BY FeedCounts DEF FeedInv
<1>1. ASSUME UNCHANGED events
      PROVE  /\ FromRun' = FromRun /\ Cardinality(FromRun)' = Cardinality(FromRun)
             /\ Feed!NumbersAreSteady' /\ Feed!CoreImportedOnce'
  BY <1>1 DEF FromRun, FeedInv, Feed!NumbersAreSteady, Feed!CoreImportedOnce
<1>2. CASE UNCHANGED feedVars
  BY <1>1, <1>2 DEF feedVars, FeedInv, FeedTypes
<1>3. CASE Feed!CorePublishes
  BY <1>1, <1>3 DEF Feed!CorePublishes, FeedInv, FeedTypes
<1>4. CASE Feed!Event
  <2>1. Feed!Append_(0) /\ UNCHANGED <<core, reading, import>>
    BY <1>4 DEF Feed!Event
  <2> QED
    BY <2>1, EntryAppended DEF FeedInv, FeedTypes
<1>5. CASE Feed!Restart
  BY <1>1, <1>5 DEF Feed!Restart, FeedInv, FeedTypes
<1>6. ASSUME NEW g \in Getters, Feed!GetEvents(g) PROVE FeedInv'
  <2>1. /\ reading = {} /\ reading' = {g} /\ UNCHANGED <<events, core, sequence>>
        /\ import' = [import EXCEPT ![g] = <<Cardinality(FromRun), core>>]
    BY <1>0, <1>6 DEF Feed!GetEvents, Feed!FreeTurn
  <2>2. import' \in [Getters -> Nat \X Nat] /\ import'[g][1] = Cardinality(FromRun)
    BY <1>0, <2>1 DEF FeedTypes
  <2> QED
    BY <1>1, <2>1, <2>2 DEF FeedInv, FeedTypes
<1>7. ASSUME NEW g \in Getters, Feed!ImportOne(g) PROVE FeedInv'
  <2> DEFINE n == import[g][1]
  <2>1. /\ g \in reading /\ Feed!Append_(n + 1) /\ UNCHANGED <<core, reading>>
        /\ import' = [import EXCEPT ![g][1] = @ + 1] /\ n = Cardinality(FromRun)
    BY <1>7 DEF Feed!ImportOne, FeedInv
  <2>2. import' \in [Getters -> Nat \X Nat] /\ import'[g][1] = n + 1
    <3>1. import[g] \in Nat \X Nat /\ n + 1 \in Nat
      BY <1>0, <2>1 DEF FeedTypes
    <3>2. \A x \in Nat : /\ [import[g] EXCEPT ![1] = x] \in Nat \X Nat
                          /\ [import[g] EXCEPT ![1] = x][1] = x
      BY <3>1
    <3>3. import' = [import EXCEPT ![g] = [import[g] EXCEPT ![1] = n + 1]]
      BY <2>1
    <3> HIDE DEF n
    <3> QED
      BY <1>0, <2>1, <3>1, <3>2, <3>3 DEF FeedTypes
  <2>3. \A h \in reading : h = g
    BY <2>1 DEF FeedInv
  <2>4. n + 1 \in Nat /\ n + 1 # 0
    BY <1>0, <2>1
  <2> HIDE DEF n
  <2> QED
    BY <1>0, <2>1, <2>2, <2>3, <2>4, EntryAppended DEF FeedInv, FeedTypes
<1>8. ASSUME NEW g \in Getters, Feed!Answer(g) PROVE FeedInv'
  BY <1>1, <1>8 DEF Feed!Answer, FeedInv, FeedTypes
<1> QED
  BY <1>2, <1>3, <1>4, <1>5, <1>6, <1>7, <1>8 DEF Feed!Next

(* Saved diagnostics agree with the history they were saved with, over any *)
(* crashes and restarts; events keep their numbers, and those of the run   *)
(* are imported once and in order, over any restarts and reads.            *)
THEOREM ReportsKeepAgreeing == Spec => []ReportsAgree
<1>1. Init => DiagnosticsInv /\ FeedInv
  BY DiagnosticsInit, FeedInit, Assumptions DEF Init
<1>2. DiagnosticsInv /\ FeedInv /\ [Next]_operation => DiagnosticsInv' /\ FeedInv'
  BY DiagnosticsKeeps, FeedKeeps, OperationStep, Assumptions
<1>3. DiagnosticsInv /\ FeedInv => ReportsAgree
  BY DiagnosticsResult DEF ReportsAgree, FeedInv
<1> QED
  BY <1>1, <1>2, <1>3, PTL DEF Spec

-----------------------------------------------------------------------------
(* The suite scripts                                                       *)

Places == {"free", "reading", "starting", "waiting", "sleeping", "gone"}
Modes == Suite!Modes

SuiteTypes ==
    /\ style \in Suite!Styles /\ queue \in Seq(Modes) /\ worker \in [Workers -> Places]
    /\ task \in [Workers -> Modes \cup {"none"}]
    /\ public \in [Modes -> {"absent", "EVOLVING", "PAUSED", "CLOSED"}]
    /\ shown \in [Modes -> {"PENDING", "RUNNING", "COMPLETED", "FAILED"}]
    /\ child \subseteq Modes /\ late \in [Workers -> Nat]

(* A campaign is queued once or has one worker.                            *)
OneWorkerEach ==
    /\ \A w \in Workers : worker[w] \in {"free", "gone"} <=> task[w] = "none"
    /\ \A w, v \in Workers : task[w] # "none" /\ task[w] = task[v] => w = v
    /\ \A i \in 1..Len(queue), w \in Workers : queue[i] # task[w]
    /\ \A i, j \in 1..Len(queue) : i # j => queue[i] # queue[j]

ControllersAwaited ==
    \A c \in child : \E w \in Workers : worker[w] = "waiting" /\ task[w] = c

Announced ==
    style # "sequence" => \A w \in Workers :
        /\ worker[w] = "starting" => public[task[w]] \in {"absent", "PAUSED"}
        /\ late[w] <= 1
        /\ ~signalled \/ worker[w] = "starting" => late[w] = 0

(* What is completed is nobody's work any more.                            *)
CompletedIsOver ==
    \A c \in Modes : shown[c] = "COMPLETED" =>
        /\ public[c] = "CLOSED"
        /\ \A w \in Workers : task[w] # c
        /\ \A i \in 1..Len(queue) : queue[i] # c

SuiteInv ==
    SuiteTypes /\ OneWorkerEach /\ ControllersAwaited /\ Announced /\ CompletedIsOver

(* A sequence of distinct campaigns.                                       *)
LEMMA CampaignsAreModes ==
    ASSUME Suite!SuiteAssumption
    PROVE  /\ Campaigns \in Seq(Modes) /\ "none" \notin Modes
           /\ \A i \in 1..Len(Campaigns) : Campaigns[i] \in Modes
           /\ \A i, j \in 1..Len(Campaigns) : i # j => Campaigns[i] # Campaigns[j]
  BY DEF Suite!SuiteAssumption, Modes

LEMMA QueuedAreModes ==
    ASSUME SuiteTypes
    PROVE  "none" \notin Modes /\ \A i \in 1..Len(queue) : queue[i] \in Modes
  BY CampaignsAreModes, Assumptions DEF SuiteTypes

LEMMA LaunchedAnew ==
    ASSUME Suite!SuiteAssumption, style' \in Suite!Styles, queue' = Campaigns,
           worker' = [w \in Workers |-> IF w \in Suite!Team' THEN "free" ELSE "gone"],
           task' = [w \in Workers |-> "none"], late' = [w \in Workers |-> 0],
           shown' = [c \in Modes |-> "PENDING"], child' = {},
           public' \in [Modes -> {"absent", "EVOLVING", "PAUSED", "CLOSED"}]
    PROVE  SuiteInv'
<1>1. SuiteTypes'
  BY CampaignsAreModes DEF SuiteTypes, Places
<1>2. OneWorkerEach'
  BY CampaignsAreModes DEF OneWorkerEach
<1>3. ControllersAwaited' /\ Announced' /\ CompletedIsOver'
  BY DEF ControllersAwaited, Announced, CompletedIsOver
<1> QED
  BY <1>1, <1>2, <1>3 DEF SuiteInv

LEMMA SuiteInit == ASSUME Suite!SuiteAssumption, Suite!Init PROVE SuiteInv
<1>1. /\ style \in Suite!Styles /\ queue = Campaigns /\ child = {}
      /\ worker = [w \in Workers |-> IF w \in Suite!Team THEN "free" ELSE "gone"]
      /\ task = [w \in Workers |-> "none"] /\ late = [w \in Workers |-> 0]
      /\ shown = [c \in Modes |-> "PENDING"] /\ public = [c \in Modes |-> "absent"]
  BY DEF Suite!Init, Suite!Ready, Suite!Nothing, Modes
<1>2. SuiteTypes /\ OneWorkerEach
  BY <1>1, CampaignsAreModes DEF SuiteTypes, Places, OneWorkerEach
<1>3. ControllersAwaited /\ Announced /\ CompletedIsOver
  BY <1>1 DEF ControllersAwaited, Announced, CompletedIsOver
<1> QED
  BY <1>2, <1>3 DEF SuiteInv

(* A worker that does not wait for a living controller may fail,           *)
LEMMA WorkerFails ==
    ASSUME SuiteInv, NEW w \in Workers, worker[w] = "waiting" => task[w] \notin child,
           Suite!Failed(w), UNCHANGED <<style, queue, public, child, signalled, late>>
    PROVE  SuiteInv'
<1>0. SuiteTypes /\ OneWorkerEach /\ ControllersAwaited /\ Announced /\ CompletedIsOver
  BY DEF SuiteInv
<1>1. PICK next \in {"free", "gone"} : worker' = [worker EXCEPT ![w] = next]
  BY DEF Suite!Failed, Suite!Step
<1>2. task' = [task EXCEPT ![w] = "none"]
  BY DEF Suite!Failed, Suite!Nothing
<1>3. /\ shown' \in [Modes -> {"PENDING", "RUNNING", "COMPLETED", "FAILED"}]
      /\ \A c \in Modes : shown'[c] \in {"FAILED", shown[c]}
  BY <1>0 DEF Suite!Failed, SuiteTypes, Modes
<1>4. SuiteTypes'
  BY <1>0, <1>1, <1>2, <1>3 DEF SuiteTypes, Places
<1>5. OneWorkerEach'
  BY <1>0, <1>1, <1>2, <1>4, QueuedAreModes DEF SuiteTypes, OneWorkerEach
<1>6. ControllersAwaited'
  BY <1>0, <1>1, <1>2 DEF SuiteTypes, ControllersAwaited
<1>7. Announced'
  BY <1>0, <1>1, <1>2 DEF SuiteTypes, Announced
<1>8. CompletedIsOver'
  BY <1>0, <1>2, <1>3, QueuedAreModes DEF SuiteTypes, CompletedIsOver
<1> QED
  BY <1>4, <1>5, <1>6, <1>7, <1>8 DEF SuiteInv

(* or go on with its campaign.                                             *)
LEMMA WorkerGoesOn ==
    ASSUME SuiteInv, NEW w \in Workers, worker[w] = "waiting" => task[w] \notin child,
           worker[w] \notin {"free", "gone"}, NEW next \in {"reading", "sleeping"},
           worker' = [worker EXCEPT ![w] = next],
           UNCHANGED <<style, queue, task, public, child, signalled, late, shown>>
    PROVE  SuiteInv'
<1>0. SuiteTypes /\ OneWorkerEach /\ ControllersAwaited /\ Announced /\ CompletedIsOver
  BY DEF SuiteInv
<1>1. SuiteTypes'
  BY <1>0 DEF SuiteTypes, Places
<1>2. OneWorkerEach'
  BY <1>0 DEF SuiteTypes, OneWorkerEach
<1>3. ControllersAwaited'
  BY <1>0 DEF SuiteTypes, ControllersAwaited
<1>4. Announced' /\ CompletedIsOver'
  BY <1>0 DEF SuiteTypes, Announced, CompletedIsOver
<1> QED
  BY <1>1, <1>2, <1>3, <1>4 DEF SuiteInv

LEMMA SuiteKeeps ==
    ASSUME Suite!SuiteAssumption, SuiteInv, Suite!Next \/ UNCHANGED suiteVars PROVE SuiteInv'
<1>0. SuiteTypes /\ OneWorkerEach /\ ControllersAwaited /\ Announced /\ CompletedIsOver
  BY DEF SuiteInv
<1>1. CASE UNCHANGED suiteVars
  BY <1>1 DEF suiteVars, SuiteInv, SuiteTypes, OneWorkerEach, ControllersAwaited, Announced,
              CompletedIsOver
<1>2. ASSUME NEW w \in Workers, Suite!Take(w) PROVE SuiteInv'
  <2>1. /\ worker[w] = "free" /\ UNCHANGED <<style, public, child, signalled, late, shown>>
        /\ \/ worker' = [worker EXCEPT ![w] = "gone"] /\ UNCHANGED <<queue, task>>
           \/ /\ queue # <<>> /\ queue' = Tail(queue)
              /\ task' = [task EXCEPT ![w] = Head(queue)]
              /\ worker' = [worker EXCEPT ![w] = "reading"]
    BY <1>2 DEF Suite!Take, Suite!Step, Suite!Keeps
  <2>2. CASE worker' = [worker EXCEPT ![w] = "gone"] /\ UNCHANGED <<queue, task>>
    <3>1. SuiteTypes' /\ OneWorkerEach'
      BY <1>0, <2>1, <2>2 DEF SuiteTypes, Places, OneWorkerEach
    <3>2. ControllersAwaited' /\ Announced' /\ CompletedIsOver'
      BY <1>0, <2>1, <2>2 DEF SuiteTypes, ControllersAwaited, Announced, CompletedIsOver
    <3> QED
      BY <3>1, <3>2 DEF SuiteInv
  <2>3. CASE /\ queue # <<>> /\ queue' = Tail(queue)
             /\ task' = [task EXCEPT ![w] = Head(queue)]
             /\ worker' = [worker EXCEPT ![w] = "reading"]
    <3>1. /\ queue' \in Seq(Modes) /\ Head(queue) = queue[1] /\ queue[1] \in Modes
          /\ 1 \in 1..Len(queue)
          /\ \A i \in 1..Len(queue') : queue'[i] = queue[i + 1] /\ i + 1 \in 1..Len(queue)
      BY <1>0, <2>3 DEF SuiteTypes
    <3>2. "none" \notin Modes
      BY CampaignsAreModes
    <3>3. SuiteTypes'
      BY <1>0, <2>1, <2>3, <3>1 DEF SuiteTypes, Places
    <3>4. \A i \in 1..Len(queue') : queue'[i] # queue[1]
      BY <1>0, <3>1 DEF OneWorkerEach
    <3>5. OneWorkerEach'
      <4>1. \A v \in Workers : v # w => task'[v] = task[v] /\ worker'[v] = worker[v]
        BY <1>0, <2>3 DEF SuiteTypes
      <4>2. task'[w] = queue[1] /\ worker'[w] = "reading"
        BY <1>0, <2>3, <3>1 DEF SuiteTypes
      <4>3. \A i, j \in 1..Len(queue') : i # j => queue'[i] # queue'[j]
        BY <1>0, <3>1 DEF OneWorkerEach
      <4>4. \A i \in 1..Len(queue'), v \in Workers : queue'[i] # task'[v]
        BY <1>0, <3>1, <3>4, <4>1, <4>2 DEF OneWorkerEach
      <4>5. \A v, u \in Workers : task'[v] # "none" /\ task'[v] = task'[u] => v = u
        BY <1>0, <3>1, <4>1, <4>2 DEF OneWorkerEach
      <4>6. \A v \in Workers : worker'[v] \in {"free", "gone"} <=> task'[v] = "none"
        BY <1>0, <3>1, <3>2, <4>1, <4>2 DEF OneWorkerEach
      <4> QED
        BY <4>3, <4>4, <4>5, <4>6 DEF OneWorkerEach
    <3>6. ControllersAwaited' /\ Announced'
      BY <1>0, <2>1, <2>3 DEF SuiteTypes, ControllersAwaited, Announced
    <3>7. CompletedIsOver'
      BY <1>0, <2>1, <2>3, <3>1 DEF SuiteTypes, CompletedIsOver
    <3> QED
      BY <3>3, <3>5, <3>6, <3>7 DEF SuiteInv
  <2> QED
    BY <2>1, <2>2, <2>3
<1>3. ASSUME NEW w \in Workers, Suite!Look(w) PROVE SuiteInv'
  <2>1. worker[w] = "reading" /\ UNCHANGED <<style, public, signalled, queue, child, late>>
    BY <1>3 DEF Suite!Look, Suite!Keeps
  <2>2. PICK c \in Modes : c = task[w]
    BY <1>0, <2>1 DEF SuiteTypes, OneWorkerEach
  <2>3. CASE Suite!Failed(w)
    BY <2>1, <2>3, WorkerFails
  <2>4. CASE /\ public[c] = "CLOSED" /\ worker' = [worker EXCEPT ![w] = "free"]
             /\ shown' = [shown EXCEPT ![c] = "COMPLETED"] /\ task' = [task EXCEPT ![w] = "none"]
    <3>1. SuiteTypes'
      BY <1>0, <2>1, <2>4 DEF SuiteTypes, Places
    <3>2. OneWorkerEach'
      BY <1>0, <2>1, <2>4, <3>1, QueuedAreModes DEF SuiteTypes, OneWorkerEach
    <3>3. ControllersAwaited' /\ Announced'
      BY <1>0, <2>1, <2>4 DEF SuiteTypes, ControllersAwaited, Announced
    <3>4. /\ \A v \in Workers : task'[v] # c
          /\ \A i \in 1..Len(queue) : queue[i] # c
      BY <1>0, <2>1, <2>2, <2>4, CampaignsAreModes DEF SuiteTypes, OneWorkerEach
    <3>5. CompletedIsOver'
      BY <1>0, <2>1, <2>2, <2>4, <3>4, CampaignsAreModes DEF SuiteTypes, CompletedIsOver
    <3> QED
      BY <3>1, <3>2, <3>3, <3>5 DEF SuiteInv
  <2>5. CASE /\ style # "sequence" => ~signalled /\ public[c] \in {"absent", "PAUSED"}
             /\ worker' = [worker EXCEPT ![w] = "starting"]
             /\ shown' = [shown EXCEPT ![c] = "RUNNING"] /\ UNCHANGED task
    <3>1. SuiteTypes' /\ OneWorkerEach'
      BY <1>0, <2>1, <2>5 DEF SuiteTypes, Places, OneWorkerEach
    <3>2. ControllersAwaited'
      BY <1>0, <2>1, <2>5 DEF SuiteTypes, ControllersAwaited
    <3>3. Announced'
      BY <1>0, <2>1, <2>2, <2>5 DEF SuiteTypes, Announced
    <3>4. CompletedIsOver'
      BY <1>0, <2>1, <2>2, <2>5 DEF SuiteTypes, CompletedIsOver
    <3> QED
      BY <3>1, <3>2, <3>3, <3>4 DEF SuiteInv
  <2> QED
    BY <1>3, <2>2, <2>3, <2>4, <2>5
    DEF Suite!Look, Suite!Step, Suite!Tell, Suite!Nothing, Suite!Interrupted, Suite!Stops,
        Suite!Advanceable, Suite!Startable
<1>4. ASSUME NEW w \in Workers, Suite!Start(w) PROVE SuiteInv'
  <2>1. /\ worker[w] = "starting" /\ child' = child \cup {task[w]}
        /\ worker' = [worker EXCEPT ![w] = "waiting"]
        /\ late' = [late EXCEPT ![w] = IF signalled THEN @ + 1 ELSE @]
        /\ UNCHANGED <<style, public, signalled, queue, task, shown>>
    BY <1>4 DEF Suite!Start, Suite!Step, Suite!Keeps
  <2>2. task[w] \in Modes
    BY <1>0, <2>1 DEF SuiteTypes, OneWorkerEach
  <2>3. SuiteTypes'
    <3>1. late' \in [Workers -> Nat]
      BY <1>0, <2>1 DEF SuiteTypes
    <3> QED
      BY <1>0, <2>1, <2>2, <3>1 DEF SuiteTypes, Places
  <2>4. OneWorkerEach' /\ ControllersAwaited' /\ CompletedIsOver'
    BY <1>0, <2>1 DEF SuiteTypes, OneWorkerEach, ControllersAwaited, CompletedIsOver
  <2>5. Announced'
    BY <1>0, <2>1 DEF SuiteTypes, Announced
  <2> QED
    BY <2>3, <2>4, <2>5 DEF SuiteInv
<1>5. ASSUME NEW w \in Workers, Suite!Ended(w) \/ Suite!Wake(w) PROVE SuiteInv'
  <2>1. /\ worker[w] \in {"waiting", "sleeping"}
        /\ worker[w] = "waiting" => task[w] \notin child
        /\ UNCHANGED <<style, public, signalled, queue, child, late>>
    BY <1>5 DEF Suite!Ended, Suite!Wake, Suite!Keeps
  <2>2. CASE Suite!Failed(w)
    BY <2>1, <2>2, WorkerFails
  <2>3. CASE /\ \E next \in {"reading", "sleeping"} : worker' = [worker EXCEPT ![w] = next]
             /\ UNCHANGED <<task, shown>>
    <3>1. worker[w] \notin {"free", "gone"} /\ UNCHANGED <<task, shown>>
      BY <2>1, <2>3
    <3>2. ASSUME NEW next \in {"reading", "sleeping"}, worker' = [worker EXCEPT ![w] = next]
          PROVE  SuiteInv'
      <4>1. UNCHANGED <<style, queue, task, public, child, signalled, late, shown>>
        BY <2>1, <3>1
      <4> QED
        BY <2>1, <3>1, <3>2, <4>1, WorkerGoesOn
    <3> QED
      BY <2>3, <3>2
  <2> QED
    BY <1>5, <2>2, <2>3 DEF Suite!Ended, Suite!Wake, Suite!Step
<1>6. ASSUME NEW c \in Modes, Suite!Controller(c) PROVE SuiteInv'
  <2>1. /\ c \in child /\ child' \subseteq child
        /\ UNCHANGED <<style, queue, worker, task, signalled, late, shown>>
    BY <1>6 DEF Suite!Controller, Suite!Opens, Suite!Ends
  <2>2. PICK status \in {"EVOLVING", "PAUSED", "CLOSED", public[c]} :
            public' = [public EXCEPT ![c] = status]
    BY <1>6 DEF Suite!Controller, Suite!Opens, Suite!Ends
  <2>3. SuiteTypes' /\ OneWorkerEach' /\ ControllersAwaited'
    <3>1. status \in {"absent", "EVOLVING", "PAUSED", "CLOSED"}
      BY <1>0, <2>2 DEF SuiteTypes
    <3>2. SuiteTypes'
      BY <1>0, <2>1, <2>2, <3>1 DEF SuiteTypes
    <3> QED
      BY <1>0, <2>1, <3>2 DEF OneWorkerEach, ControllersAwaited
  <2>4. PICK w \in Workers : worker[w] = "waiting" /\ task[w] = c
    BY <1>0, <2>1 DEF ControllersAwaited
  <2>5. \A v \in Workers : worker[v] = "starting" => task[v] # c
    BY <1>0, <2>4, CampaignsAreModes DEF OneWorkerEach
  <2>6. Announced'
    BY <1>0, <2>1, <2>2, <2>5 DEF SuiteTypes, OneWorkerEach, Announced
  <2>7. CompletedIsOver'
    BY <1>0, <2>1, <2>2, <2>4 DEF SuiteTypes, CompletedIsOver
  <2> QED
    BY <2>3, <2>6, <2>7 DEF SuiteInv
<1>7. CASE Suite!Signal
  BY <1>0, <1>7 DEF Suite!Signal, SuiteInv, SuiteTypes, OneWorkerEach, ControllersAwaited,
                    Announced, CompletedIsOver
<1>8. CASE Suite!Relaunch
  <2>1. /\ queue' = Campaigns /\ task' = [w \in Workers |-> "none"]
        /\ worker' = [w \in Workers |-> IF w \in Suite!Team THEN "free" ELSE "gone"]
        /\ late' = [w \in Workers |-> 0] /\ shown' = [c \in Modes |-> "PENDING"]
        /\ child' = {} /\ UNCHANGED <<style, public>>
    BY <1>8 DEF Suite!Relaunch, Suite!Nothing, Modes
  <2>2. Suite!Team' = Suite!Team
    BY <2>1 DEF Suite!Team
  <2> QED
    BY <1>0, <2>1, <2>2, LaunchedAnew DEF SuiteTypes
<1> QED
  BY <1>1, <1>2, <1>3, <1>4, <1>5, <1>6, <1>7, <1>8 DEF Suite!Next, Suite!Script, Modes

LEMMA SuiteResult == ASSUME SuiteInv PROVE Suite!SuiteInCharge
  BY DEF SuiteInv, ControllersAwaited, Announced, CompletedIsOver, Modes, Suite!SuiteInCharge,
         Suite!NeverOverAWriter, Suite!SignalStops, Suite!CompletedIsClosed

(* The worker pools of a suite start a controller only for a campaign that *)
(* is absent or paused, after a signal at most the one they had announced; *)
(* a controller that runs has a worker that waits for it, and what is called*)
(* completed is closed.  For any campaigns, workers and bounds.            *)
THEOREM SuiteStaysInCharge == Spec => []SuiteInCharge
<1>1. Init => SuiteInv
  BY SuiteInit, Assumptions DEF Init
<1>2. SuiteInv /\ [Next]_operation => SuiteInv'
  BY SuiteKeeps, OperationStep, Assumptions
<1>3. SuiteInv => SuiteInCharge
  BY SuiteResult DEF SuiteInCharge
<1> QED
  BY <1>1, <1>2, <1>3, PTL DEF Spec
=============================================================================
