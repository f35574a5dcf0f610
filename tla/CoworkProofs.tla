---------------------------- MODULE CoworkProofs ----------------------------
(***************************************************************************)
(* Proofs about CoworkBranch, for every scenario set, budget, number of    *)
(* attempts, cadence and number of faults:                                 *)
(*   AttemptsStayBounded  a candidate is attempted within its retry budget *)
(*   CandidatesStayKept   what a restart will ask for is on disk, whole    *)
(*   HistoryStaysKept     log and strategy follow from the saved history   *)
(*   TypeCorrect          every variable keeps its type                    *)
(*   BranchIsDriver       the branch refines BranchDriver                  *)
(* The strategy is replayed from a history by a recursive function: that   *)
(* it adds what the next entry adds (ReplayAppend) is proved by induction  *)
(* over the length of the history.  The inductive invariant says which     *)
(* saved status each place of the process can meet (Position), what the    *)
(* journal and the candidate at work hold there (JournalSound,             *)
(* CandidateAtWork), and that a process holds the strategy its own         *)
(* history makes (StrategyFollowsHistory): a crash forgets the process and *)
(* leaves only what SavedSound says of the disk.                           *)
(***************************************************************************)
EXTENDS CoworkBranch, WellFoundedInduction, TLAPS

-----------------------------------------------------------------------------
(* Replaying a history                                                     *)

(* Induction over the natural numbers, for a set.                          *)
LEMMA Induction ==
    ASSUME NEW S, 0 \in S, \A n \in Nat : n \in S => n + 1 \in S
    PROVE  \A n \in Nat : n \in S
<1> DEFINE T == Nat \ S
           R == OpToRel(<, Nat)
<1> SUFFICES ASSUME T # {} PROVE FALSE
  OBVIOUS
<1>1. PICK x \in T : \A y \in T : ~ (<<y, x>> \in R)
  <2>1. T \subseteq Nat
    OBVIOUS
  <2>2. IsWellFoundedOn(R, Nat)
    BY NatLessThanWellFounded
  <2> HIDE DEF T, R
  <2> QED
    BY <2>1, <2>2, WFMin
<1>2. x \in Nat /\ x # 0 /\ x - 1 \in Nat
  OBVIOUS
<1>3. <<x - 1, x>> \in R
  BY <1>2 DEF OpToRel
<1>4. x - 1 \in S
  BY <1>1, <1>2, <1>3
<1> QED
  BY <1>2, <1>4

(* What the recursive function of ReplayedStrategy says of itself.         *)
IsReplay(f, h) ==
    f = [n \in 0 .. Len(h) |->
            IF n = 0 THEN FreshStrategy ELSE Observed(Proposed(f[n - 1]), h[n])]

(* Two replays agree as far as their histories do.                         *)
LEMMA ReplaysAgree ==
    ASSUME NEW h, NEW k, Len(h) \in Nat, Len(k) \in Nat, Len(h) <= Len(k),
           \A n \in 1 .. Len(h) : h[n] = k[n],
           NEW f, IsReplay(f, h), NEW g, IsReplay(g, k)
    PROVE  \A n \in 0 .. Len(h) : f[n] = g[n]
<1> DEFINE S == {n \in Nat : n <= Len(h) => f[n] = g[n]}
<1>1. 0 \in S
  BY DEF IsReplay
<1>2. ASSUME NEW n \in Nat, n \in S PROVE n + 1 \in S
  <2> SUFFICES ASSUME n + 1 <= Len(h) PROVE f[n + 1] = g[n + 1]
    OBVIOUS
  <2>1. f[n] = g[n] /\ (n + 1) - 1 = n /\ n + 1 # 0 /\ n + 1 \in 1 .. Len(h)
    BY <1>2
  <2>2. f[n + 1] = Observed(Proposed(f[n]), h[n + 1])
    BY <2>1 DEF IsReplay
  <2>3. g[n + 1] = Observed(Proposed(g[n]), k[n + 1])
    BY <2>1 DEF IsReplay
  <2> QED
    BY <2>1, <2>2, <2>3
<1>3. \A n \in Nat : n \in S
  <2> HIDE DEF S
  <2> QED
    BY <1>1, <1>2, Induction
<1> QED
  BY <1>3

(* One more outcome extends a replay.                                      *)
LEMMA ReplayExtends ==
    ASSUME NEW h \in Seq(Outcomes), NEW o \in Outcomes, NEW f, IsReplay(f, h)
    PROVE  \E g : IsReplay(g, Append(h, o))
<1> DEFINE k == Append(h, o)
           last == Observed(Proposed(f[Len(h)]), o)
           g == [n \in 0 .. Len(k) |-> IF n <= Len(h) THEN f[n] ELSE last]
           body(n) == IF n = 0 THEN FreshStrategy
                      ELSE Observed(Proposed(g[n - 1]), k[n])
<1>1. /\ Len(h) \in Nat /\ Len(k) = Len(h) + 1 /\ k[Len(h) + 1] = o
      /\ \A n \in 1 .. Len(h) : k[n] = h[n]
  OBVIOUS
<1>2. ASSUME NEW n \in 0 .. Len(k) PROVE g[n] = body(n)
  <2>1. CASE n = 0
    BY <2>1, <1>1 DEF IsReplay
  <2>2. CASE n \in 1 .. Len(h)
    <3>1. g[n] = f[n] /\ g[n - 1] = f[n - 1] /\ k[n] = h[n]
      BY <2>2, <1>1
    <3>2. f[n] = Observed(Proposed(f[n - 1]), h[n])
      BY <2>2, <1>1 DEF IsReplay
    <3> QED
      BY <2>2, <3>1, <3>2
  <2>3. CASE n = Len(k)
    <3>1. g[n] = last /\ g[n - 1] = f[Len(h)] /\ k[n] = o /\ n # 0
      BY <2>3, <1>1
    <3> QED
      BY <3>1
  <2> QED
    BY <2>1, <2>2, <2>3, <1>1
<1>3. g = [n \in 0 .. Len(k) |-> body(n)]
  BY <1>2
<1> QED
  BY <1>3 DEF IsReplay

(* Every history has a replay.                                             *)
LEMMA ReplayExists == \A h \in Seq(Outcomes) : \E f : IsReplay(f, h)
<1> DEFINE S == {n \in Nat : \A h \in Seq(Outcomes) :
                                Len(h) = n => \E f : IsReplay(f, h)}
<1>1. 0 \in S
  <2> SUFFICES ASSUME NEW h \in Seq(Outcomes), Len(h) = 0
               PROVE  \E f : IsReplay(f, h)
    OBVIOUS
  <2> DEFINE f == [n \in {0} |-> FreshStrategy]
  <2>1. 0 .. Len(h) = {0}
    OBVIOUS
  <2>2. IsReplay(f, h)
    BY <2>1 DEF IsReplay
  <2> QED
    BY <2>2
<1>2. ASSUME NEW n \in Nat, n \in S PROVE n + 1 \in S
  <2> SUFFICES ASSUME NEW h \in Seq(Outcomes), Len(h) = n + 1
               PROVE  \E f : IsReplay(f, h)
    OBVIOUS
  <2> DEFINE front == SubSeq(h, 1, n)
  <2>1. /\ front \in Seq(Outcomes) /\ Len(front) = n /\ h[n + 1] \in Outcomes
        /\ h = Append(front, h[n + 1])
    OBVIOUS
  <2>2. PICK f : IsReplay(f, front)
    BY <1>2, <2>1
  <2> HIDE DEF front
  <2> QED
    BY <2>1, <2>2, ReplayExtends
<1>3. \A n \in Nat : n \in S
  <2> HIDE DEF S
  <2> QED
    BY <1>1, <1>2, Induction
<1> QED
  BY <1>3

(* The strategy a history leads to is the last value of its replay.        *)
LEMMA ReplayedIsReplay ==
    ASSUME NEW h \in Seq(Outcomes)
    PROVE  \E f : IsReplay(f, h) /\ ReplayedStrategy(h) = f[Len(h)]
<1> DEFINE f == CHOOSE f : IsReplay(f, h)
<1>1. IsReplay(f, h)
  BY ReplayExists
<1>2. ReplayedStrategy(h) = f[Len(h)]
  BY DEF ReplayedStrategy, IsReplay
<1> QED
  BY <1>1, <1>2

(* From the start the strategy is fresh; one more outcome of the history   *)
(* is one more proposal and one more observation.                          *)
LEMMA ReplayFresh == ReplayedStrategy(<<>>) = FreshStrategy
<1>1. <<>> \in Seq(Outcomes) /\ Len(<<>>) = 0
  OBVIOUS
<1>2. PICK f : IsReplay(f, <<>>) /\ ReplayedStrategy(<<>>) = f[Len(<<>>)]
  BY <1>1, ReplayedIsReplay
<1> QED
  BY <1>1, <1>2 DEF IsReplay

LEMMA ReplayAppend ==
    ASSUME NEW h \in Seq(Outcomes), NEW o \in Outcomes
    PROVE  ReplayedStrategy(Append(h, o)) = Observed(Proposed(ReplayedStrategy(h)), o)
<1> DEFINE k == Append(h, o)
<1>1. PICK f : IsReplay(f, h) /\ ReplayedStrategy(h) = f[Len(h)]
  BY ReplayedIsReplay
<1>0. k \in Seq(Outcomes)
  OBVIOUS
<1>2. PICK g : IsReplay(g, k) /\ ReplayedStrategy(k) = g[Len(k)]
  BY <1>0, ReplayedIsReplay
<1>3. /\ Len(h) \in Nat /\ Len(k) = Len(h) + 1 /\ k[Len(h) + 1] = o
      /\ \A n \in 1 .. Len(h) : h[n] = k[n]
  OBVIOUS
<1>4. g[Len(h)] = f[Len(h)]
  <2>1. /\ Len(k) \in Nat /\ Len(h) <= Len(k) /\ Len(h) \in 0 .. Len(h)
        /\ IsReplay(f, h) /\ IsReplay(g, k)
    BY <1>1, <1>2, <1>3
  <2> HIDE DEF k
  <2>2. \A n \in 0 .. Len(h) : f[n] = g[n]
    BY <2>1, <1>3, ReplaysAgree
  <2> QED
    BY <2>1, <2>2
<1>5. g[Len(k)] = Observed(Proposed(g[Len(h)]), o)
  <2>1. Len(k) \in 0 .. Len(k) /\ Len(k) # 0 /\ Len(k) - 1 = Len(h)
    BY <1>3
  <2> QED
    BY <2>1, <1>2, <1>3 DEF IsReplay
<1> QED
  BY <1>1, <1>2, <1>4, <1>5
-----------------------------------------------------------------------------
(* The inductive invariant                                                 *)

Statuses == {"baseline-running", "running", "stopped"}
Strategies == [level : Nat, misses : Nat, proposed : Nat, observed : Nat,
               exhausted : BOOLEAN]
BranchStates == [status : Statuses, history : Seq(Outcomes), champion : Nat,
                 inFlight : Nat, strategy : Strategies]
Journals == [status : {"none", "running", "failed", "succeeded"},
             attempts : Seq({"running", "interrupted", "failed", "fatal",
                             "invalid", "succeeded"})]
InRound == {"feedback", "update", "attempt", "clear", "save", "decide", "commit",
            "observe"}
Places == {"down", "founding", "baseline", "repair", "archive", "idle"} \cup InRound

Types ==
    /\ charged \in 0 .. Budget /\ root \in BOOLEAN
    /\ saved \in BranchStates \cup {NoState} /\ state \in BranchStates \cup {NoState}
    /\ log \in Seq(Outcomes) \cup {NoLog}
    /\ journal \in [Generations -> Journals]
    /\ dir \in [Generations -> {"none", "partial", "whole"}]
    /\ outputs \subseteq Kinds \X Generations
    /\ pc \in Places /\ outcome \in Outcomes \cup {"none"}
    /\ before \in Strategies
    /\ launched \in [Generations -> Nat] /\ faults \in 0 .. MaxFaults

(* What state.json says by itself, and how far the population is behind.   *)
SavedSound ==
    IF Exists(saved)
    THEN /\ root
         /\ charged <= Completed(saved) /\ Completed(saved) <= charged + 1
         /\ Completed(saved) <= Budget /\ saved.champion <= Completed(saved)
         /\ saved.inFlight # 0 =>
               /\ saved.inFlight = charged + 1 /\ Completed(saved) = charged
               /\ charged < Budget /\ saved.status = "running"
         /\ saved.status = "baseline-running" => saved = Baseline
    ELSE charged = 0

(* The driver's copy of the state during a round, and at its commit.       *)
Working == IF saved.inFlight # 0 THEN saved
           ELSE [saved EXCEPT !.strategy = Proposed(@)]
AtWork == Len(saved.history) + 1

(* What each step of the process knows: its copy is the saved state, but   *)
(* for the proposal that only a saved candidate makes permanent.           *)
Position ==
    /\ ~root => log = NoLog /\ pc = "down"
    /\ pc = "down" => state = NoState
    /\ pc \notin InRound => before = FreshStrategy
    /\ pc = "founding" =>
          /\ state = saved /\ log \in {NoLog, <<>>}
          /\ Exists(saved) => saved = Baseline /\ log = NoLog
    /\ pc \in {"baseline", "repair", "archive", "idle"} =>
          Exists(saved) /\ state = saved
    /\ pc = "baseline" => saved = Baseline
    /\ pc \in {"archive", "idle"} => saved.status # "baseline-running"
    /\ pc \in InRound =>
          /\ Exists(saved) /\ saved.status = "running"
          /\ Completed(saved) = charged /\ charged < Budget
          /\ before = saved.strategy \/ saved.inFlight # 0
    /\ pc \in InRound \ {"observe"} => state = Working
    /\ pc = "observe" => state = Committed(Working)
    /\ pc \in {"attempt", "clear"} => saved.inFlight = 0
    /\ pc = "decide" => saved.inFlight # 0
    /\ pc \in {"commit", "observe"} => outcome \in Outcomes

(* Only an attempt that may be tried again is followed by another one.     *)
Retried == {"failed", "interrupted"}
WellKept(j) ==
    /\ \A n \in 1 .. Len(j.attempts) - 1 : j.attempts[n] \in Retried
    /\ j.status \in {"none", "failed"} /\ j.attempts # <<>> =>
          j.attempts[Len(j.attempts)] \in Retried \cup {"fatal", "invalid"}

(* The journal counts what was started, and a candidate in use is whole.   *)
JournalSound ==
    \A g \in Generations :
       /\ launched[g] = Len(journal[g].attempts)
       /\ launched[g] <= MaximumRetries + 1
       /\ journal[g].status = "running" => journal[g].attempts # <<>>
       /\ WellKept(journal[g])
CandidateAtWork ==
    /\ pc = "attempt" => journal[AtWork].status = "running"
    /\ pc = "clear" => journal[AtWork].status = "failed"
    /\ pc \in {"save", "commit", "observe"} => dir[AtWork] = "whole"

Evidence ==
    /\ EvidenceIsHistory
    /\ pc = "observe" => log = Append(saved.history, outcome)

IInv == /\ Types /\ SavedSound /\ Position
        /\ JournalSound /\ CandidateAtWork /\ CandidatesKept
        /\ Evidence /\ StrategyFollowsHistory

-----------------------------------------------------------------------------
(* Types                                                                   *)

LEMMA StrategyTypes ==
    ASSUME NEW s \in Strategies, NEW o
    PROVE  Proposed(s) \in Strategies /\ Observed(s, o) \in Strategies
<1> DEFINE missed == IF o = "promoted" THEN 0 ELSE s.misses + 1
           spent == missed >= Misses
           climbs == spent /\ s.level < TopLevel
           level == IF climbs THEN s.level + 1 ELSE s.level
           misses == IF climbs THEN 0 ELSE missed
           exhausted == spent /\ ~climbs
<1>1. Proposed(s) \in Strategies
  BY DEF Strategies, Proposed
<1>2. level \in Nat /\ misses \in Nat /\ exhausted \in BOOLEAN
  BY DEF Strategies
<1>3. Observed(s, o) = [s EXCEPT !.observed = @ + 1, !.level = level,
                                 !.misses = misses, !.exhausted = exhausted]
  BY DEF Observed
<1>4. ASSUME NEW l \in Nat, NEW m \in Nat, NEW e \in BOOLEAN
      PROVE  [s EXCEPT !.observed = @ + 1, !.level = l, !.misses = m,
                       !.exhausted = e] \in Strategies
  <2>1. s.observed + 1 \in Nat
    BY DEF Strategies
  <2> QED
    BY <2>1, Zenon DEF Strategies
<1> HIDE DEF level, misses, exhausted
<1>5. [s EXCEPT !.observed = @ + 1, !.level = level, !.misses = misses,
                !.exhausted = exhausted] \in Strategies
  BY <1>2, <1>4
<1> QED
  BY <1>1, <1>3, <1>5

LEMMA BaselineType == Baseline \in BranchStates /\ FreshStrategy \in Strategies
  BY DEF Baseline, BranchStates, Statuses, FreshStrategy, Strategies, Outcomes

LEMMA SavedTypes ==
    ASSUME Types
    PROVE  /\ Exists(saved) <=> saved \in BranchStates
           /\ Exists(state) <=> state \in BranchStates
  BY DEF Types, Exists, NoState, BranchStates, Statuses

(* The driver's copy during a round differs from state.json by the         *)
(* proposal of the strategy only.                                          *)
LEMMA WorkingIsSaved ==
    ASSUME Types, Exists(saved)
    PROVE  /\ Working \in BranchStates /\ Working.status = saved.status
           /\ Working.history = saved.history /\ Working.champion = saved.champion
           /\ Working.inFlight = saved.inFlight
           /\ Working.strategy = IF saved.inFlight # 0 THEN saved.strategy
                                 ELSE Proposed(saved.strategy)
  BY SavedTypes, StrategyTypes DEF Working, BranchStates

LEMMA RoundFacts ==
    ASSUME Types, SavedSound, Position, pc \in InRound \ {"observe"}
    PROVE  /\ Exists(saved) /\ state = Working /\ state \in BranchStates
           /\ state.history = saved.history /\ state.status = "running"
           /\ state.champion = saved.champion /\ state.inFlight = saved.inFlight
           /\ G = AtWork /\ AtWork \in Generations /\ AtWork = charged + 1
<1>1. Exists(saved) /\ state = Working /\ saved.status = "running"
  BY DEF Position
<1>2. /\ Working \in BranchStates /\ Working.status = saved.status
      /\ Working.history = saved.history /\ Working.champion = saved.champion
      /\ Working.inFlight = saved.inFlight
  BY <1>1, WorkingIsSaved
<1>3. AtWork = charged + 1 /\ charged < Budget
  BY DEF Position, AtWork, Completed
<1> QED
  BY <1>1, <1>2, <1>3, CoworkBranchAssumption
     DEF G, Current, Completed, AtWork, Generations, Types, CoworkBranchAssumption

(* Rolling a round back, or ending before it, leaves state.json as it is.  *)
LEMMA RollbackIsSaved ==
    ASSUME Types, SavedSound, Position, pc \in {"baseline"} \cup (InRound \ {"observe"})
    PROVE  RolledBack(state) = saved
<1>1. CASE pc = "baseline"
  <2>1. state = saved /\ saved = Baseline /\ before = FreshStrategy
    BY <1>1 DEF Position, InRound
  <2> QED
    BY <2>1 DEF RolledBack, Baseline
<1>2. CASE pc \in InRound \ {"observe"}
  <2>1. /\ state = Working /\ state.inFlight = saved.inFlight
        /\ saved \in BranchStates /\ (before = saved.strategy \/ saved.inFlight # 0)
    BY <1>2, RoundFacts, SavedTypes DEF Position
  <2>2. CASE saved.inFlight # 0
    BY <2>1, <2>2 DEF RolledBack, Working
  <2>3. CASE saved.inFlight = 0
    BY <2>1, <2>3 DEF RolledBack, Working, BranchStates
  <2> QED
    BY <2>2, <2>3
<1> QED
  BY <1>1, <1>2

LEMMA JournalTypes ==
    ASSUME NEW j \in Journals
    PROVE  /\ Started(j) \in Journals /\ Started(j).status = "running"
           /\ Len(Started(j).attempts) = Len(j.attempts) + 1
           /\ \A s \in {"failed", "succeeded"},
                 a \in {"interrupted", "failed", "fatal", "invalid", "succeeded"} :
                 j.attempts # <<>> =>
                    /\ WithLast(j, s, a) \in Journals /\ WithLast(j, s, a).status = s
                    /\ Len(WithLast(j, s, a).attempts) = Len(j.attempts)
  BY DEF Journals, Started, WithLast, ReplaceAt

LEMMA CommittedFields ==
    ASSUME NEW s \in BranchStates, outcome \in Outcomes
    PROVE  /\ Committed(s) \in BranchStates
           /\ Committed(s).history = Append(s.history, outcome)
           /\ Committed(s).inFlight = 0 /\ Committed(s).status = s.status
           /\ Committed(s).strategy = s.strategy
           /\ Committed(s).champion \in {s.champion, Current(s)}
<1> DEFINE c == IF outcome = "promoted" THEN Current(s) ELSE s.champion
           h == Append(s.history, outcome)
<1>1. c \in Nat /\ c \in {s.champion, Current(s)}
  BY DEF BranchStates, Current, Completed
<1>2. h \in Seq(Outcomes)
  BY DEF BranchStates
<1>3. Committed(s) = [s EXCEPT !.history = h, !.inFlight = 0, !.champion = c]
  BY DEF Committed
<1> HIDE DEF c, h
<1>4. [s EXCEPT !.history = h, !.inFlight = 0, !.champion = c] \in BranchStates
  BY <1>1, <1>2 DEF BranchStates
<1>5. /\ Committed(s).history = h /\ Committed(s).inFlight = 0
      /\ Committed(s).status = s.status /\ Committed(s).strategy = s.strategy
      /\ Committed(s).champion = c
  BY <1>3 DEF BranchStates
<1> QED
  BY <1>1, <1>3, <1>4, <1>5 DEF h

(* The strategy observes the outcome, and may stop the branch.             *)
WithStrategy(s, t) ==
    [s EXCEPT !.strategy = t, !.status = IF t.exhausted THEN "stopped" ELSE @]

LEMMA WithStrategyFields ==
    ASSUME NEW s \in BranchStates, NEW t \in Strategies
    PROVE  /\ WithStrategy(s, t) \in BranchStates
           /\ WithStrategy(s, t).history = s.history
           /\ WithStrategy(s, t).champion = s.champion
           /\ WithStrategy(s, t).inFlight = s.inFlight
           /\ WithStrategy(s, t).strategy = t
           /\ WithStrategy(s, t).status \in {s.status, "stopped"}
<1> DEFINE status == IF t.exhausted THEN "stopped" ELSE s.status
<1>1. status \in Statuses /\ status \in {s.status, "stopped"}
  BY DEF BranchStates, Statuses
<1>2. WithStrategy(s, t) = [s EXCEPT !.strategy = t, !.status = status]
  BY DEF WithStrategy
<1> HIDE DEF status
<1> QED
  BY <1>1, <1>2 DEF BranchStates

-----------------------------------------------------------------------------
(* No step, restart or error changes a type.                               *)
LEMMA TypesStep ==
    ASSUME Types, SavedSound, Position, JournalSound, CandidateAtWork, Evidence,
           [Next]_vars
    PROVE  Types'
<1> USE DEF Types, durable, process, Places, InRound
<1>r. pc \in InRound \ {"observe"} =>
         /\ Exists(saved) /\ state \in BranchStates /\ state.history = saved.history
         /\ state.inFlight = saved.inFlight /\ G = AtWork /\ AtWork \in Generations
         /\ Current(state) = AtWork
  BY RoundFacts DEF G
<1>s. pc \in {"baseline"} \cup (InRound \ {"observe"}) => RolledBack(state) = saved
  BY RollbackIsSaved
<1>h. pc \in {"baseline", "repair", "archive", "idle"} =>
         Exists(saved) /\ state = saved /\ state \in BranchStates
  BY SavedTypes DEF Position
<1>j. \A g \in Generations : journal[g] \in Journals
  OBVIOUS
<1>1. CASE CreateRoot
  BY <1>1 DEF CreateRoot
<1>2. CASE FoundLog
  BY <1>2 DEF FoundLog
<1>3. CASE FoundState
  BY <1>3, BaselineType DEF FoundState
<1>4. CASE EvaluateBaseline
  BY <1>4, <1>h DEF EvaluateBaseline, BranchStates, Statuses
<1>5. CASE ArchiveRoot
  BY <1>5 DEF ArchiveRoot
<1>6. CASE Restore
  BY <1>6 DEF Restore, AfterRepair
<1>7. CASE MoveLog
  BY <1>7 DEF MoveLog
<1>8. CASE RewriteLog
  BY <1>8, <1>h DEF RewriteLog, AfterRepair, BranchStates
<1>9. CASE ArchiveCandidate
  BY <1>9 DEF ArchiveCandidate
<1>10. CASE ArchiveOutput
  BY <1>10 DEF ArchiveOutput
<1>11. CASE Archived
  BY <1>11 DEF Archived
<1>12. CASE Settle
  <2>1. Completed(saved) \in Nat /\ charged + 1 = Completed(saved)
    BY <1>12, <1>h DEF Settle, Answered, Completed, BranchStates
  <2>2. Completed(saved) <= Budget
    BY <1>12, <1>h DEF Settle, SavedSound
  <2> QED
    BY <1>12, <2>1, <2>2, CoworkBranchAssumption DEF Settle, CoworkBranchAssumption
<1>13. CASE Begin
  <2>1. state \in BranchStates /\ state.strategy \in Strategies
    BY <1>13, <1>h DEF Begin, MayAdvance, BranchStates
  <2>2. [state EXCEPT !.strategy = Proposed(@)] \in BranchStates
    BY <2>1, StrategyTypes DEF BranchStates
  <2>3. <<"generations", Current(state)>> \in Kinds \X Generations
    BY <1>13 DEF Begin, Kinds
  <2> QED
    BY <1>13, <2>1, <2>2, <2>3 DEF Begin
<1>14. CASE CollectFeedback
  <2>1. {<<k, Current(state)>> : k \in {"results", "trials"}} \subseteq Kinds \X Generations
    BY <1>14, <1>r DEF CollectFeedback, Kinds
  <2> QED
    BY <1>14, <2>1 DEF CollectFeedback
<1>15. CASE ReuseProposal
  BY <1>15 DEF ReuseProposal
<1>16. CASE MarkInterrupted
  <2>1. Interrupted(journal[G]) \in Journals
    BY <1>16, <1>r, <1>j, JournalTypes
       DEF MarkInterrupted, Updating, Interrupted, JournalSound
  <2> QED
    BY <1>16, <1>r, <2>1 DEF MarkInterrupted, Journal
<1>17. CASE GiveUp
  BY <1>17, <1>s, BaselineType DEF GiveUp, Unfinished, Updating, Fail, Gone
<1>18. CASE StartAttempt
  <2>1. Started(journal[G]) \in Journals
    BY <1>18, <1>r, <1>j, JournalTypes DEF StartAttempt, Unfinished, Updating
  <2>2. G \in Generations /\ launched[G] + 1 \in Nat
    BY <1>18, <1>r DEF StartAttempt, Unfinished, Updating
  <2> QED
    BY <1>18, <2>1, <2>2 DEF StartAttempt, Journal
<1>19. CASE BuildCandidate
  BY <1>19 DEF BuildCandidate
<1>20. CASE AttemptSucceeds
  <2>1. WithLast(journal[G], "succeeded", "succeeded") \in Journals
    BY <1>20, <1>r, <1>j, JournalTypes DEF AttemptSucceeds, CandidateAtWork, JournalSound
  <2> QED
    BY <1>20, <1>r, <2>1 DEF AttemptSucceeds, Journal
<1>21. CASE AttemptFails
  <2>1. WithLast(journal[G], "failed", "failed") \in Journals
    BY <1>21, <1>r, <1>j, JournalTypes DEF AttemptFails, CandidateAtWork, JournalSound
  <2> QED
    BY <1>21, <1>r, <2>1 DEF AttemptFails, Journal
<1>22. CASE ClearAttempt
  BY <1>22 DEF ClearAttempt
<1>23. CASE AttemptFatal
  <2>1. WithLast(journal[G], "failed", "fatal") \in Journals
    BY <1>23, <1>r, <1>j, JournalTypes DEF AttemptFatal, CandidateAtWork, JournalSound
  <2>2. faults' \in 0 .. MaxFaults
    BY <1>23, CoworkBranchAssumption DEF AttemptFatal, CoworkBranchAssumption
  <2> QED
    BY <1>23, <1>r, <1>s, <2>1, <2>2, BaselineType DEF AttemptFatal, Journal, Gone
<1>24. CASE AttemptInvalid
  <2>1. WithLast(journal[G], "failed", "invalid") \in Journals
    BY <1>24, <1>r, <1>j, JournalTypes DEF AttemptInvalid, CandidateAtWork, JournalSound
  <2> QED
    BY <1>24, <1>r, <2>1 DEF AttemptInvalid, Journal, Outcomes
<1>25. CASE SaveProposal
  <2>1. WithProposal(state) \in BranchStates
    BY <1>25, <1>r DEF SaveProposal, WithProposal, BranchStates, Generations
  <2> QED
    BY <1>25, <2>1 DEF SaveProposal
<1>26. CASE Decide
  BY <1>26 DEF Decide, Outcomes
<1>27. CASE AppendEvidence
  <2>1. outcome \in Outcomes
    BY <1>27 DEF AppendEvidence, Position
  <2>2. Committed(state) \in BranchStates
    BY <1>27, <1>r, <2>1, CommittedFields DEF AppendEvidence
  <2>3. log \in Seq(Outcomes)
    BY <1>27, <1>r, SavedTypes DEF AppendEvidence, Evidence, EvidenceIsHistory, BranchStates
  <2> QED
    BY <1>27, <2>1, <2>2, <2>3 DEF AppendEvidence
<1>28. CASE CommitGeneration
  <2>1. state \in BranchStates /\ state.strategy \in Strategies
    <3>1. Working \in BranchStates /\ outcome \in Outcomes
      BY <1>28, WorkingIsSaved DEF CommitGeneration, Position
    <3> QED
      BY <1>28, <3>1, CommittedFields DEF CommitGeneration, Position, BranchStates
  <2>2. state' = WithStrategy(state, Observed(state.strategy, outcome))
    BY <1>28 DEF CommitGeneration, WithStrategy
  <2>3. state' \in BranchStates
    BY <2>1, <2>2, StrategyTypes, WithStrategyFields
  <2> QED
    BY <1>28, <2>3, BaselineType DEF CommitGeneration
<1>29. CASE Crash
  BY <1>29, BaselineType, CoworkBranchAssumption DEF Crash, Gone, CoworkBranchAssumption
<1>30. CASE InfrastructureError
  BY <1>30, <1>s, BaselineType, CoworkBranchAssumption
     DEF InfrastructureError, Fail, Gone, CoworkBranchAssumption
<1>31. CASE UNCHANGED vars
  BY <1>31 DEF vars
<1> QED
  BY <1>1, <1>2, <1>3, <1>4, <1>5, <1>6, <1>7, <1>8, <1>9, <1>10, <1>11, <1>12, <1>13,
     <1>14, <1>15, <1>16, <1>17, <1>18, <1>19, <1>20, <1>21, <1>22, <1>23, <1>24, <1>25,
     <1>26, <1>27, <1>28, <1>29, <1>30, <1>31 DEF Next, Work, Recover, Update

-----------------------------------------------------------------------------
(* Where the process stands agrees with what is saved.                     *)
LEMMA PositionStep ==
    ASSUME Types, SavedSound, Position, JournalSound, CandidateAtWork, CandidatesKept,
           Evidence, [Next]_vars
    PROVE  SavedSound' /\ Position'
<1> USE DEF durable, process
<1>w. /\ saved' = saved => Working' = Working
      /\ saved' = saved /\ outcome' = outcome => Committed(Working)' = Committed(Working)
  <2>1. saved' = saved => Working' = Working
    BY DEF Working
  <2>2. saved' = saved /\ outcome' = outcome => Committed(Working)' = Committed(Working)
    BY <2>1 DEF Committed, Current, Completed
  <2> QED
    BY <2>1, <2>2
<1>r. pc \in InRound \ {"observe"} =>
         /\ Exists(saved) /\ state \in BranchStates /\ state.history = saved.history
         /\ state.inFlight = saved.inFlight /\ G = AtWork /\ AtWork \in Generations
         /\ state = Working /\ AtWork = charged + 1 /\ state.champion = saved.champion
         /\ Current(state) = AtWork /\ state.status = "running" /\ saved \in BranchStates
  BY RoundFacts, SavedTypes DEF G
<1>s. pc \in {"baseline"} \cup (InRound \ {"observe"}) => RolledBack(state) = saved
  BY RollbackIsSaved
<1>h. pc \in {"baseline", "repair", "archive", "idle"} =>
         Exists(saved) /\ state = saved /\ state \in BranchStates
  BY SavedTypes DEF Position
<1>b. /\ Exists(Baseline) /\ Completed(Baseline) = 0 /\ Baseline.champion = 0
      /\ Baseline.inFlight = 0 /\ Baseline.status = "baseline-running"
      /\ ~Exists(NoState)
  BY DEF Exists, Completed, Baseline, NoState
<1>1. CASE CreateRoot
  BY <1>1, <1>b, SavedTypes DEF CreateRoot, SavedSound, Position, InRound, Types
<1>2. CASE FoundLog
  BY <1>2 DEF FoundLog, SavedSound, Position, InRound
<1>3. CASE FoundState
  <2>1. root /\ charged = 0 /\ before = FreshStrategy /\ log \in {NoLog, <<>>} /\ 0 <= Budget
    BY <1>3, CoworkBranchAssumption
       DEF FoundState, SavedSound, Position, InRound, CoworkBranchAssumption
  <2> QED
    BY <1>3, <1>b, <2>1 DEF FoundState, SavedSound, Position, InRound
<1>4. CASE EvaluateBaseline
  BY <1>4, <1>h, <1>b DEF EvaluateBaseline, SavedSound, Position, InRound, Baseline, Exists, Completed
<1>5. CASE ArchiveRoot
  BY <1>5 DEF ArchiveRoot, SavedSound, Position, InRound
<1>6. CASE Restore
  BY <1>6 DEF Restore, AfterRepair, SavedSound, Position, InRound
<1>7. CASE MoveLog
  BY <1>7 DEF MoveLog, SavedSound, Position, InRound
<1>8. CASE RewriteLog
  BY <1>8 DEF RewriteLog, AfterRepair, SavedSound, Position, InRound
<1>9. CASE ArchiveCandidate
  BY <1>9 DEF ArchiveCandidate, SavedSound, Position, InRound
<1>10. CASE ArchiveOutput
  BY <1>10 DEF ArchiveOutput, SavedSound, Position, InRound
<1>11. CASE Archived
  BY <1>11 DEF Archived, SavedSound, Position, InRound
<1>12. CASE Settle
  BY <1>12, <1>h DEF Settle, Answered, SavedSound, Position, InRound, Types
<1>13. CASE Begin
  <2>1. /\ Exists(saved) /\ state = saved /\ saved \in BranchStates
        /\ saved.status = "running" /\ saved' = saved /\ root
    BY <1>13, <1>h DEF Begin, MayAdvance, SavedSound
  <2>2. Completed(saved) = charged /\ charged < Budget
    BY <1>13, <2>1, CoworkBranchAssumption
       DEF Begin, MayAdvance, Answered, SavedSound, Completed, BranchStates, Types,
           CoworkBranchAssumption
  <2>3. state' = Working /\ before' = saved.strategy /\ pc' = "feedback"
    BY <1>13, <2>1 DEF Begin, Working
  <2> QED
    BY <1>13, <1>w, <2>1, <2>2, <2>3 DEF Begin, SavedSound, Position, InRound
<1>14. CASE CollectFeedback
  BY <1>14, <1>w DEF CollectFeedback, SavedSound, Position, InRound
<1>15. CASE ReuseProposal
  BY <1>15, <1>w DEF ReuseProposal, SavedSound, Position, InRound
<1>16. CASE MarkInterrupted
  BY <1>16, <1>w DEF MarkInterrupted, Updating, SavedSound, Position, InRound
<1>17. CASE GiveUp
  BY <1>17, <1>s, <1>w DEF GiveUp, Unfinished, Updating, Fail, Gone, SavedSound, Position, InRound
<1>18. CASE StartAttempt
  BY <1>18, <1>r, <1>w DEF StartAttempt, Unfinished, Updating, SavedSound, Position, InRound
<1>19. CASE BuildCandidate
  BY <1>19, <1>w DEF BuildCandidate, SavedSound, Position, InRound
<1>20. CASE AttemptSucceeds
  BY <1>20, <1>w DEF AttemptSucceeds, SavedSound, Position, InRound
<1>21. CASE AttemptFails
  BY <1>21, <1>w DEF AttemptFails, SavedSound, Position, InRound
<1>22. CASE ClearAttempt
  BY <1>22, <1>w DEF ClearAttempt, SavedSound, Position, InRound
<1>23. CASE AttemptFatal
  BY <1>23, <1>s, <1>w DEF AttemptFatal, Gone, SavedSound, Position, InRound
<1>24. CASE AttemptInvalid
  BY <1>24, <1>w DEF AttemptInvalid, SavedSound, Position, InRound, Outcomes
<1>25. CASE SaveProposal
  <2>1. /\ saved' \in BranchStates /\ saved'.inFlight = AtWork
        /\ saved'.status = "running" /\ saved'.history = saved.history
        /\ saved'.champion = saved.champion /\ state' = saved'
    <3>1. AtWork \in Nat /\ saved' = WithProposal(state) /\ state' = saved'
      BY <1>25, <1>r DEF SaveProposal, Generations, InRound
    <3>2. WithProposal(state) = [state EXCEPT !.inFlight = AtWork]
      BY <1>25, <1>r DEF SaveProposal, WithProposal, InRound
    <3>3. state \in BranchStates /\ state.status = "running"
          /\ state.history = saved.history /\ state.champion = saved.champion
      BY <1>25, <1>r DEF SaveProposal, InRound
    <3> QED
      BY <3>1, <3>2, <3>3 DEF BranchStates
  <2>2. /\ Exists(saved)' /\ Completed(saved)' = Completed(saved)
        /\ saved'.inFlight = charged + 1 /\ saved'.inFlight # 0 /\ Working' = saved'
    <3>1. charged + 1 # 0 /\ AtWork = charged + 1
      BY <1>25, <1>r, CoworkBranchAssumption
         DEF SaveProposal, InRound, Types, CoworkBranchAssumption
    <3> QED
      BY <2>1, <3>1 DEF Exists, Completed, Working
  <2> QED
    BY <1>25, <1>r, <2>1, <2>2 DEF SaveProposal, SavedSound, Position, InRound
<1>26. CASE Decide
  BY <1>26, <1>w DEF Decide, SavedSound, Position, InRound, Outcomes
<1>27. CASE AppendEvidence
  <2>1. log' # NoLog \/ root
    BY <1>27, <1>r DEF AppendEvidence, SavedSound, InRound
  <2> QED
    BY <1>27, <1>w, <1>r, <2>1 DEF AppendEvidence, SavedSound, Position, InRound
<1>28. CASE CommitGeneration
  <2>1. /\ Exists(saved) /\ saved \in BranchStates /\ saved.status = "running"
        /\ state = Committed(Working) /\ outcome \in Outcomes /\ Working \in BranchStates
        /\ Working.history = saved.history /\ Working.champion = saved.champion
        /\ Working.status = "running" /\ Completed(saved) = charged /\ charged < Budget
        /\ saved.champion <= Completed(saved)
    BY <1>28, WorkingIsSaved, SavedTypes DEF CommitGeneration, Position, SavedSound, InRound
  <2>2. /\ state \in BranchStates /\ state.history = Append(saved.history, outcome)
        /\ state.inFlight = 0 /\ state.status = "running"
        /\ state.champion \in {saved.champion, Current(Working)}
    BY <2>1, CommittedFields
  <2>3. /\ saved' = WithStrategy(state, Observed(state.strategy, outcome))
        /\ Observed(state.strategy, outcome) \in Strategies /\ state' = saved'
    BY <1>28, <2>2, StrategyTypes DEF CommitGeneration, WithStrategy, BranchStates
  <2>4. /\ saved' \in BranchStates /\ saved'.history = Append(saved.history, outcome)
        /\ saved'.inFlight = 0 /\ saved'.status \in {"running", "stopped"}
        /\ saved'.champion \in {saved.champion, Current(Working)}
    BY <2>2, <2>3, WithStrategyFields
  <2>5. /\ Completed(saved)' = charged + 1 /\ saved'.champion <= Completed(saved)'
        /\ Exists(saved)'
    BY <2>1, <2>4 DEF Completed, Current, BranchStates, Exists, Statuses
  <2>6. charged \in Nat /\ Budget \in Nat
    BY CoworkBranchAssumption DEF CoworkBranchAssumption, Types
  <2> QED
    BY <1>28, <2>1, <2>3, <2>4, <2>5, <2>6 DEF CommitGeneration, SavedSound, Position, InRound
<1>29. CASE Crash
  BY <1>29 DEF Crash, Gone, SavedSound, Position, InRound
<1>30. CASE InfrastructureError
  BY <1>30, <1>s DEF InfrastructureError, Fail, Gone, SavedSound, Position, InRound
<1>31. CASE UNCHANGED vars
  BY <1>31, <1>w DEF vars, SavedSound, Position, InRound
<1> QED
  BY <1>1, <1>2, <1>3, <1>4, <1>5, <1>6, <1>7, <1>8, <1>9, <1>10, <1>11, <1>12, <1>13,
     <1>14, <1>15, <1>16, <1>17, <1>18, <1>19, <1>20, <1>21, <1>22, <1>23, <1>24, <1>25,
     <1>26, <1>27, <1>28, <1>29, <1>30, <1>31 DEF Next, Work, Recover, Update

-----------------------------------------------------------------------------
(* The journal of a generation and its candidate.                          *)

JournalInv == JournalSound /\ CandidateAtWork /\ CandidatesKept

LEMMA JournalWellKept ==
    ASSUME NEW j \in Journals, WellKept(j)
    PROVE  /\ j.status \notin {"running", "succeeded"} /\ ~Barred(j) => WellKept(Started(j))
           /\ \A s \in {"failed", "succeeded"}, a \in Retried \cup {"fatal", "invalid", "succeeded"} :
                j.attempts # <<>> /\ (s = "failed" => a # "succeeded") => WellKept(WithLast(j, s, a))
<1> DEFINE held == j.attempts
<1>1. /\ held \in Seq({"running", "interrupted", "failed", "fatal", "invalid", "succeeded"})
      /\ Len(held) \in Nat /\ j.status \in {"none", "running", "failed", "succeeded"}
      /\ held # <<>> => Len(held) \in 1 .. Len(held)
  BY DEF Journals
<1>2. ASSUME j.status \notin {"running", "succeeded"}, ~Barred(j) PROVE WellKept(Started(j))
  <2>1. \A n \in 1 .. Len(held) : held[n] \in Retried
    <3>1. held # <<>> => held[Len(held)] \in Retried
      <4>1. held # <<>> => held[Len(held)] \in Retried \cup {"fatal", "invalid"}
        BY <1>1, <1>2 DEF WellKept
      <4>2. held # <<>> => held[Len(held)] \notin {"fatal", "invalid"}
        BY <1>1, <1>2 DEF Barred, LastAttempt, Last
      <4> QED
        BY <4>1, <4>2
    <3>2. \A n \in 1 .. Len(held) : n \in 1 .. Len(held) - 1 \/ (n = Len(held) /\ held # <<>>)
      BY <1>1
    <3> QED
      BY <3>1, <3>2 DEF WellKept
  <2>2. /\ Started(j).status = "running" /\ Started(j).attempts = Append(held, "running")
    BY DEF Started
  <2>3. /\ Len(Append(held, "running")) = Len(held) + 1
        /\ \A n \in 1 .. Len(held) : Append(held, "running")[n] = held[n]
    BY <1>1
  <2> QED
    BY <1>1, <2>1, <2>2, <2>3 DEF WellKept
<1>3. ASSUME NEW s \in {"failed", "succeeded"}, NEW a \in Retried \cup {"fatal", "invalid", "succeeded"},
             held # <<>>, s = "failed" => a # "succeeded"
      PROVE  WellKept(WithLast(j, s, a))
  <2>1. /\ WithLast(j, s, a).status = s
        /\ WithLast(j, s, a).attempts = ReplaceAt(held, Len(held), a)
    BY DEF WithLast
  <2>2. /\ Len(ReplaceAt(held, Len(held), a)) = Len(held)
        /\ ReplaceAt(held, Len(held), a)[Len(held)] = a
        /\ \A n \in 1 .. Len(held) - 1 : ReplaceAt(held, Len(held), a)[n] = held[n]
    BY <1>1, <1>3 DEF ReplaceAt
  <2>3. s = "failed" => a \in Retried \cup {"fatal", "invalid"}
    BY <1>3
  <2> QED
    BY <2>1, <2>2, <2>3 DEF WellKept
<1> QED
  BY <1>2, <1>3

(* A step that touches neither, stays in the round at the same place or    *)
(* leaves it, keeps all three.                                             *)
LEMMA JournalFrame ==
    ASSUME JournalInv, UNCHANGED <<saved, journal, dir, launched>>,
           pc' \in {pc} \cup (Places \ {"attempt", "clear", "save", "commit", "observe"})
    PROVE  JournalInv'
  BY DEF JournalInv, JournalSound, CandidateAtWork, CandidatesKept, Exists, Restorable,
         Referenced, Completed, AtWork

(* So does one that changes the generation at work only.                   *)
LEMMA JournalAtWork ==
    ASSUME Types, SavedSound, JournalInv, UNCHANGED saved,
           Exists(saved), saved.inFlight = 0, AtWork \in Generations,
           \A g \in Generations \ {AtWork} :
              journal'[g] = journal[g] /\ dir'[g] = dir[g] /\ launched'[g] = launched[g],
           launched'[AtWork] = Len(journal'[AtWork].attempts),
           launched'[AtWork] <= MaximumRetries + 1,
           journal'[AtWork].status = "running" => journal'[AtWork].attempts # <<>>,
           WellKept(journal'[AtWork]),
           journal'[AtWork].status = "succeeded" => dir'[AtWork] = "whole",
           pc' = "attempt" => journal'[AtWork].status = "running",
           pc' = "clear" => journal'[AtWork].status = "failed",
           pc' \in {"save", "commit", "observe"} => dir'[AtWork] = "whole"
    PROVE  JournalInv'
<1>1. AtWork' = AtWork /\ (Exists(saved) /\ Restorable(saved))
  BY DEF AtWork, JournalInv, CandidatesKept
<1>2. AtWork \notin Referenced(saved) /\ Referenced(saved)' = Referenced(saved)
  <2>1. Len(saved.history) \in Nat /\ AtWork = Len(saved.history) + 1
    BY SavedTypes DEF BranchStates, AtWork
  <2> QED
    BY <2>1 DEF Referenced, Completed
<1>3. Referenced(saved) \subseteq Generations
  <2>1. Len(saved.history) \in Nat /\ Len(saved.history) <= Budget
    BY SavedTypes DEF BranchStates, SavedSound, Completed
  <2> QED
    BY <2>1, CoworkBranchAssumption
       DEF Referenced, Completed, Generations, CoworkBranchAssumption
<1>4. Restorable(saved)'
  BY <1>1, <1>2, <1>3 DEF Restorable
<1> QED
  BY <1>1, <1>4 DEF JournalInv, JournalSound, CandidateAtWork, CandidatesKept

LEMMA JournalStep ==
    ASSUME Types, SavedSound, Position, JournalInv, Types', SavedSound', Position',
           [Next]_vars
    PROVE  JournalInv'
<1> USE DEF durable, process
<1>r. pc \in InRound \ {"observe"} =>
         /\ Exists(saved) /\ state \in BranchStates /\ state.history = saved.history
         /\ state.inFlight = saved.inFlight /\ G = AtWork /\ AtWork \in Generations
         /\ state = Working /\ Current(state) = AtWork /\ saved \in BranchStates
         /\ journal[AtWork] \in Journals /\ launched[AtWork] \in Nat
         /\ launched[AtWork] = Len(journal[AtWork].attempts)
         /\ launched[AtWork] <= MaximumRetries + 1 /\ MaximumRetries \in Nat
         /\ (journal[AtWork].status = "running" => journal[AtWork].attempts # <<>>)
         /\ WellKept(journal[AtWork])
         /\ (journal[AtWork].status = "succeeded" => dir[AtWork] = "whole")
         /\ (saved.inFlight # 0 => saved.inFlight = AtWork /\ dir[AtWork] = "whole")
  <2>1. ASSUME pc \in InRound \ {"observe"}
        PROVE  /\ Exists(saved) /\ state \in BranchStates /\ state.history = saved.history
               /\ state.inFlight = saved.inFlight /\ G = AtWork /\ AtWork \in Generations
               /\ state = Working /\ Current(state) = AtWork /\ saved \in BranchStates
               /\ AtWork = charged + 1
    BY <2>1, RoundFacts, SavedTypes DEF G
  <2>2. ASSUME pc \in InRound \ {"observe"}, saved.inFlight # 0
        PROVE  saved.inFlight = AtWork /\ dir[AtWork] = "whole"
    BY <2>1, <2>2 DEF SavedSound, JournalInv, CandidatesKept, Restorable, Referenced
  <2>3. MaximumRetries \in Nat
    BY CoworkBranchAssumption DEF CoworkBranchAssumption
  <2> QED
    BY <2>1, <2>2, <2>3 DEF Types, JournalInv, JournalSound, CandidatesKept
<1>s. pc \in {"baseline"} \cup (InRound \ {"observe"}) => RolledBack(state) = saved
  BY RollbackIsSaved
<1>h. pc \in {"baseline", "repair", "archive", "idle"} =>
         Exists(saved) /\ state = saved /\ state \in BranchStates
  BY SavedTypes DEF Position
<1>f. \/ CreateRoot \/ FoundLog \/ ArchiveRoot \/ Restore \/ MoveLog \/ RewriteLog
      \/ ArchiveOutput \/ Archived \/ Settle \/ Begin \/ CollectFeedback \/ GiveUp
      \/ Crash \/ InfrastructureError \/ UNCHANGED vars
      => JournalInv'
  <2> SUFFICES ASSUME \/ CreateRoot \/ FoundLog \/ ArchiveRoot \/ Restore \/ MoveLog \/ RewriteLog
                      \/ ArchiveOutput \/ Archived \/ Settle \/ Begin \/ CollectFeedback \/ GiveUp
                      \/ Crash \/ InfrastructureError \/ UNCHANGED vars
               PROVE  /\ UNCHANGED <<saved, journal, dir, launched>>
                      /\ pc' \in {pc} \cup (Places \ {"attempt", "clear", "save", "commit", "observe"})
    BY JournalFrame
  <2>1. CASE CreateRoot \/ FoundLog \/ ArchiveRoot \/ Restore
    BY <2>1 DEF CreateRoot, FoundLog, ArchiveRoot, Restore, AfterRepair, Places, InRound
  <2>2. CASE MoveLog \/ RewriteLog \/ ArchiveOutput \/ Archived
    BY <2>2 DEF MoveLog, RewriteLog, AfterRepair, ArchiveOutput, Archived, Places, InRound
  <2>3. CASE Settle \/ Begin \/ CollectFeedback \/ UNCHANGED vars
    BY <2>3 DEF Settle, Begin, CollectFeedback, vars, Places, InRound
  <2>4. CASE GiveUp \/ Crash \/ InfrastructureError
    BY <2>4, <1>s DEF GiveUp, Unfinished, Updating, Crash, InfrastructureError, Fail, Gone,
                      Places, InRound
  <2> QED
    BY <2>1, <2>2, <2>3, <2>4
<1>1. CASE FoundState \/ EvaluateBaseline
  <2>1. UNCHANGED <<journal, dir, launched>> /\ pc' \in {"founding", "baseline", "idle"}
    BY <1>1 DEF FoundState, EvaluateBaseline
  <2>2. Referenced(saved)' = {} /\ Exists(saved)'
    <3>1. saved'.history = <<>> /\ saved'.inFlight = 0 /\ saved'.status # "none"
      BY <1>1, <1>h DEF FoundState, EvaluateBaseline, Position, Baseline, InRound
    <3> QED
      BY <3>1 DEF Referenced, Exists, Completed
  <2> QED
    BY <2>1, <2>2 DEF JournalInv, JournalSound, CandidateAtWork, CandidatesKept, Restorable
<1>2. CASE ArchiveCandidate
  <2>1. /\ state = saved /\ Exists(saved) /\ saved.inFlight = 0 /\ Current(state) = AtWork
        /\ AtWork \in Generations /\ journal[AtWork].status # "succeeded"
    BY <1>2, <1>h DEF ArchiveCandidate, KeepsProposal, HasCandidate, Current, Completed, AtWork
  <2>2. /\ launched[AtWork] = Len(journal[AtWork].attempts)
        /\ launched[AtWork] <= MaximumRetries + 1
        /\ journal[AtWork].status = "running" => journal[AtWork].attempts # <<>>
        /\ WellKept(journal[AtWork])
        /\ UNCHANGED <<saved, journal, launched>> /\ pc' = "archive"
        /\ \A g \in Generations \ {AtWork} : dir'[g] = dir[g]
    BY <1>2, <2>1 DEF ArchiveCandidate, JournalInv, JournalSound, Types
  <2> QED
    BY <2>1, <2>2, JournalAtWork
<1>3. CASE ReuseProposal
  <2>1. dir[AtWork] = "whole" /\ pc' = "save"
    BY <1>3, <1>r DEF ReuseProposal, InRound
  <2> QED
    BY <1>3, <2>1 DEF ReuseProposal, JournalInv, JournalSound, CandidateAtWork, CandidatesKept,
                      Exists, Restorable, Referenced, Completed, AtWork
<1>4. CASE MarkInterrupted
  <2>1. /\ Interrupted(journal[AtWork]).status = "failed"
        /\ Len(Interrupted(journal[AtWork]).attempts) = launched[AtWork]
        /\ WellKept(Interrupted(journal[AtWork]))
    BY <1>4, <1>r, JournalTypes, JournalWellKept DEF Retried, MarkInterrupted, Updating, Interrupted, InRound
  <2>2. /\ journal' = [journal EXCEPT ![AtWork] = Interrupted(journal[AtWork])]
        /\ dir' = [dir EXCEPT ![AtWork] = "none"] /\ UNCHANGED <<saved, launched>>
        /\ pc' = "update" /\ Exists(saved) /\ saved.inFlight = 0 /\ AtWork \in Generations
    BY <1>4, <1>r DEF MarkInterrupted, Updating, InRound, Journal
  <2>3. /\ journal'[AtWork] = Interrupted(journal[AtWork])
        /\ \A g \in Generations \ {AtWork} : journal'[g] = journal[g] /\ dir'[g] = dir[g]
    BY <2>2 DEF Types
  <2> QED
    BY <1>4, <1>r, <2>1, <2>2, <2>3, JournalAtWork DEF MarkInterrupted, Updating, InRound
<1>5. CASE StartAttempt
  <2>1. /\ Started(journal[AtWork]).status = "running"
        /\ Len(Started(journal[AtWork]).attempts) = launched[AtWork] + 1
        /\ launched[AtWork] + 1 <= MaximumRetries + 1
        /\ Started(journal[AtWork]).attempts # <<>>
    BY <1>5, <1>r, JournalTypes
       DEF StartAttempt, Unfinished, Updating, InRound, Exhausted, Started, Journals
  <2>4. WellKept(Started(journal[AtWork]))
    <3>1. /\ journal[AtWork].status \notin {"running", "succeeded"}
          /\ ~Barred(journal[AtWork]) /\ AtWork \in Generations
      BY <1>5, <1>r DEF StartAttempt, Unfinished, Updating, InRound
    <3>2. journal[AtWork] \in Journals /\ WellKept(journal[AtWork])
      BY <1>5, <1>r DEF StartAttempt, Unfinished, Updating, InRound
    <3> QED
      BY <3>1, <3>2, JournalWellKept
  <2>2. /\ journal' = [journal EXCEPT ![AtWork] = Started(journal[AtWork])]
        /\ launched' = [launched EXCEPT ![AtWork] = @ + 1]
        /\ dir' = [dir EXCEPT ![AtWork] = "partial"] /\ UNCHANGED saved
        /\ pc' = "attempt" /\ Exists(saved) /\ saved.inFlight = 0 /\ AtWork \in Generations
    BY <1>5, <1>r DEF StartAttempt, Unfinished, Updating, InRound, Journal
  <2>3. /\ journal'[AtWork] = Started(journal[AtWork])
        /\ launched'[AtWork] = launched[AtWork] + 1
        /\ \A g \in Generations \ {AtWork} :
              journal'[g] = journal[g] /\ dir'[g] = dir[g] /\ launched'[g] = launched[g]
    BY <2>2 DEF Types
  <2> QED
    BY <2>1, <2>2, <2>3, <2>4, JournalAtWork
<1>6. CASE BuildCandidate
  <2>1. /\ dir' = [dir EXCEPT ![AtWork] = "whole"] /\ UNCHANGED <<saved, journal, launched>>
        /\ pc' = "attempt" /\ Exists(saved) /\ saved.inFlight = 0 /\ AtWork \in Generations
        /\ journal[AtWork].status = "running"
    BY <1>6, <1>r DEF BuildCandidate, InRound, Position, JournalInv, CandidateAtWork
  <2>2. \A g \in Generations \ {AtWork} : dir'[g] = dir[g]
    BY <2>1 DEF Types
  <2> QED
    BY <1>6, <1>r, <2>1, <2>2, JournalAtWork DEF BuildCandidate, InRound
<1>7. ASSUME NEW s \in {"succeeded", "failed"},
             NEW a \in {"failed", "fatal", "invalid", "succeeded"},
             NEW p \in {"save", "clear", "down", "commit"},
             pc = "attempt", pc' = p, Journal(WithLast(journal[G], s, a)),
             UNCHANGED <<saved, dir, launched>>,
             p = "clear" => s = "failed", s = "failed" => a # "succeeded",
             s = "succeeded" \/ p \in {"save", "commit"} => dir[G] = "whole"
      PROVE  JournalInv'
  <2>1. /\ saved.inFlight = 0 /\ journal[AtWork].status = "running"
        /\ journal[AtWork].attempts # <<>>
    BY <1>7, <1>r DEF InRound, Position, JournalInv, CandidateAtWork
  <2>2. /\ WithLast(journal[AtWork], s, a).status = s
        /\ Len(WithLast(journal[AtWork], s, a).attempts) = launched[AtWork]
        /\ WellKept(WithLast(journal[AtWork], s, a))
    BY <1>7, <1>r, <2>1, JournalTypes, JournalWellKept DEF InRound, Retried
  <2>3. /\ journal'[AtWork] = WithLast(journal[AtWork], s, a)
        /\ \A g \in Generations \ {AtWork} : journal'[g] = journal[g]
    BY <1>7, <1>r DEF Types, Journal, InRound
  <2> QED
    BY <1>7, <1>r, <2>1, <2>2, <2>3, JournalAtWork DEF InRound
<1>8. CASE AttemptSucceeds
  BY <1>8, <1>7 DEF AttemptSucceeds
<1>9. CASE AttemptFails
  BY <1>9, <1>7 DEF AttemptFails
<1>10. CASE AttemptFatal
  BY <1>10, <1>7, <1>s DEF AttemptFatal, Gone, InRound
<1>11. CASE AttemptInvalid
  BY <1>11, <1>7 DEF AttemptInvalid
<1>12. CASE ClearAttempt
  <2>1. /\ dir' = [dir EXCEPT ![AtWork] = "none"] /\ UNCHANGED <<saved, journal, launched>>
        /\ pc' = "update" /\ Exists(saved) /\ saved.inFlight = 0 /\ AtWork \in Generations
        /\ journal[AtWork].status = "failed"
    BY <1>12, <1>r DEF ClearAttempt, InRound, Position, JournalInv, CandidateAtWork
  <2>2. \A g \in Generations \ {AtWork} : dir'[g] = dir[g]
    BY <2>1 DEF Types
  <2> QED
    BY <1>12, <1>r, <2>1, <2>2, JournalAtWork DEF ClearAttempt, InRound
<1>13. CASE SaveProposal
  <2>1. dir[AtWork] = "whole" /\ Restorable(saved) /\ saved'.status # "none"
    BY <1>13, <1>r DEF SaveProposal, InRound, JournalInv, CandidateAtWork, CandidatesKept,
                       Position, WithProposal, BranchStates, Statuses
  <2>2. saved'.history = saved.history /\ saved'.inFlight = AtWork
    BY <1>13, <1>r DEF SaveProposal, InRound, WithProposal, BranchStates
  <2>3. Restorable(saved)'
    BY <1>13, <2>1, <2>2 DEF SaveProposal, Restorable, Referenced, Completed
  <2> QED
    BY <1>13, <2>3 DEF SaveProposal, JournalInv, JournalSound, CandidateAtWork, CandidatesKept
<1>14. CASE Decide
  <2>1. dir[AtWork] = "whole"
    BY <1>14, <1>r DEF Decide, InRound, Position
  <2> QED
    BY <1>14, <2>1 DEF Decide, JournalInv, JournalSound, CandidateAtWork, CandidatesKept,
                       Exists, Restorable, Referenced, Completed, AtWork
<1>15. CASE AppendEvidence
  BY <1>15 DEF AppendEvidence, JournalInv, JournalSound, CandidateAtWork, CandidatesKept,
               Exists, Restorable, Referenced, Completed, AtWork
<1>16. CASE CommitGeneration
  <2>1. /\ Working \in BranchStates /\ Working.history = saved.history
        /\ state = Committed(Working) /\ outcome \in Outcomes /\ saved \in BranchStates
        /\ Exists(saved)
    BY <1>16, WorkingIsSaved, SavedTypes DEF CommitGeneration, Position, InRound
  <2>2. /\ state \in BranchStates /\ state.history = Append(saved.history, outcome)
        /\ state.inFlight = 0
    BY <2>1, CommittedFields
  <2>3. saved'.history = state.history /\ saved'.inFlight = 0
    BY <1>16, <2>2 DEF CommitGeneration, BranchStates
  <2>4. /\ \A g \in 1 .. Len(saved.history) : dir[g] = "whole"
        /\ dir[Len(saved.history) + 1] = "whole"
    BY <1>16, <2>1 DEF CommitGeneration, JournalInv, CandidatesKept, Restorable, Referenced,
                       Completed, CandidateAtWork, AtWork
  <2>5. Len(saved'.history) = Len(saved.history) + 1 /\ Len(saved.history) \in Nat
    BY <2>1, <2>2, <2>3 DEF BranchStates
  <2>6. Restorable(saved)'
    BY <1>16, <2>3, <2>4, <2>5 DEF CommitGeneration, Restorable, Referenced, Completed
  <2> QED
    BY <1>16, <2>6 DEF CommitGeneration, JournalInv, JournalSound, CandidateAtWork, CandidatesKept
<1> QED
  BY <1>f, <1>1, <1>2, <1>3, <1>4, <1>5, <1>6, <1>8, <1>9, <1>10, <1>11, <1>12, <1>13,
     <1>14, <1>15, <1>16 DEF Next, Work, Recover, Update

-----------------------------------------------------------------------------
(* The evolution log and the strategy follow the history.                  *)
LEMMA EvidenceStep ==
    ASSUME Types, SavedSound, Position, Evidence, Position', [Next]_vars
    PROVE  Evidence'
<1> USE DEF durable, process, Evidence, EvidenceIsHistory
<1>s. pc \in {"baseline"} \cup (InRound \ {"observe"}) => RolledBack(state) = saved
  BY RollbackIsSaved
<1>h. pc \in {"baseline", "repair", "archive", "idle"} => Exists(saved) /\ state = saved
  BY DEF Position
<1>1. CASE CreateRoot \/ FoundLog \/ FoundState
  BY <1>1 DEF CreateRoot, FoundLog, FoundState, Position, InRound, Baseline
<1>2. CASE EvaluateBaseline
  <2>1. saved'.history = saved.history
    BY <1>2, <1>h, SavedTypes DEF EvaluateBaseline, BranchStates
  <2> QED
    BY <1>2, <2>1 DEF EvaluateBaseline
<1>3. CASE Restore
  BY <1>3 DEF Restore, AfterRepair, NeedsRepair
<1>4. CASE RewriteLog
  BY <1>4, <1>h DEF RewriteLog, AfterRepair
<1>5. CASE ArchiveRoot \/ MoveLog \/ ArchiveCandidate \/ ArchiveOutput \/ Archived \/ Settle
  BY <1>5 DEF ArchiveRoot, MoveLog, ArchiveCandidate, ArchiveOutput, Archived, Settle
<1>6. CASE Begin \/ CollectFeedback \/ ReuseProposal \/ MarkInterrupted \/ StartAttempt
  BY <1>6 DEF Begin, MayAdvance, CollectFeedback, ReuseProposal, MarkInterrupted, Updating,
              Unfinished, StartAttempt
<1>7. CASE BuildCandidate \/ AttemptSucceeds \/ AttemptFails \/ ClearAttempt \/ AttemptInvalid
  BY <1>7 DEF BuildCandidate, AttemptSucceeds, AttemptFails, ClearAttempt, AttemptInvalid
<1>8. CASE GiveUp \/ Crash \/ InfrastructureError \/ AttemptFatal
  BY <1>8 DEF GiveUp, Crash, InfrastructureError, AttemptFatal, Fail, Gone
<1>9. CASE SaveProposal
  <2>1. saved'.history = saved.history
    BY <1>9, RoundFacts, SavedTypes DEF SaveProposal, WithProposal, InRound, BranchStates
  <2> QED
    BY <1>9, <2>1 DEF SaveProposal
<1>10. CASE Decide
  BY <1>10 DEF Decide
<1>11. CASE AppendEvidence
  BY <1>11 DEF AppendEvidence
<1>12. CASE CommitGeneration
  <2>1. /\ Working \in BranchStates /\ Working.history = saved.history
        /\ state = Committed(Working) /\ outcome \in Outcomes
    BY <1>12, WorkingIsSaved DEF CommitGeneration, Position, InRound
  <2>2. state \in BranchStates /\ state.history = Append(saved.history, outcome)
    BY <2>1, CommittedFields
  <2>3. saved'.history = state.history
    BY <1>12, <2>2 DEF CommitGeneration, BranchStates
  <2> QED
    BY <1>12, <2>2, <2>3 DEF CommitGeneration
<1>13. CASE UNCHANGED vars
  BY <1>13 DEF vars
<1> QED
  BY <1>1, <1>2, <1>3, <1>4, <1>5, <1>6, <1>7, <1>8, <1>9, <1>10, <1>11, <1>12, <1>13
     DEF Next, Work, Recover, Update

LEMMA StrategyStep ==
    ASSUME Types, SavedSound, Position, StrategyFollowsHistory, Types', [Next]_vars
    PROVE  StrategyFollowsHistory'
<1> USE DEF durable, process
<1>s. pc \in {"baseline"} \cup (InRound \ {"observe"}) => RolledBack(state) = saved
  BY RollbackIsSaved
<1>f. ASSUME UNCHANGED saved PROVE StrategyFollowsHistory'
  BY <1>f DEF StrategyFollowsHistory, Exists
<1>1. CASE FoundState \/ EvaluateBaseline
  <2>1. /\ saved'.history = <<>> /\ saved'.inFlight = 0
        /\ saved'.strategy = FreshStrategy
    BY <1>1 DEF FoundState, EvaluateBaseline, Position, Baseline
  <2> QED
    BY <2>1, ReplayFresh DEF StrategyFollowsHistory
<1>2. CASE SaveProposal
  <2>1. /\ Exists(saved) /\ state = Working /\ AtWork \in Nat /\ AtWork # 0
        /\ WithProposal(state) = [state EXCEPT !.inFlight = AtWork]
    BY <1>2, RoundFacts DEF SaveProposal, WithProposal, InRound, G, Generations
  <2>2. /\ Working \in BranchStates /\ Working.history = saved.history
        /\ Working.strategy = IF saved.inFlight # 0 THEN saved.strategy
                              ELSE Proposed(saved.strategy)
    BY <2>1, WorkingIsSaved
  <2>3. Working.strategy = Proposed(ReplayedStrategy(saved.history))
    BY <2>1, <2>2 DEF StrategyFollowsHistory
  <2>4. /\ saved'.history = saved.history /\ saved'.inFlight # 0
        /\ saved'.strategy = Working.strategy
    BY <1>2, <2>1, <2>2 DEF SaveProposal, BranchStates
  <2> QED
    BY <2>3, <2>4 DEF StrategyFollowsHistory
<1>3. CASE CommitGeneration
  <2>1. /\ Exists(saved) /\ saved \in BranchStates /\ state = Committed(Working)
        /\ outcome \in Outcomes
    BY <1>3, SavedTypes DEF CommitGeneration, Position, InRound
  <2>2. /\ Working \in BranchStates /\ Working.history = saved.history
        /\ Working.strategy = IF saved.inFlight # 0 THEN saved.strategy
                              ELSE Proposed(saved.strategy)
    BY <2>1, WorkingIsSaved
  <2>3. Working.strategy = Proposed(ReplayedStrategy(saved.history))
    BY <2>1, <2>2 DEF StrategyFollowsHistory
  <2>4. /\ state \in BranchStates /\ state.history = Append(saved.history, outcome)
        /\ state.inFlight = 0 /\ state.strategy = Working.strategy
    BY <2>1, <2>2, CommittedFields
  <2>5. /\ saved' = WithStrategy(state, Observed(state.strategy, outcome))
        /\ Observed(state.strategy, outcome) \in Strategies
    BY <1>3, <2>4, StrategyTypes DEF CommitGeneration, WithStrategy, BranchStates
  <2>6. /\ saved'.history = Append(saved.history, outcome) /\ saved'.inFlight = 0
        /\ saved'.strategy = Observed(state.strategy, outcome)
    BY <2>4, <2>5, WithStrategyFields
  <2>7. saved'.strategy = ReplayedStrategy(Append(saved.history, outcome))
    <3>1. saved.history \in Seq(Outcomes)
      BY <2>1 DEF BranchStates
    <3> QED
      BY <3>1, <2>1, <2>3, <2>4, <2>6, ReplayAppend
  <2> QED
    BY <2>6, <2>7 DEF StrategyFollowsHistory
<1>4. CASE CreateRoot \/ FoundLog \/ ArchiveRoot \/ Restore \/ MoveLog \/ RewriteLog
  BY <1>4, <1>f DEF CreateRoot, FoundLog, ArchiveRoot, Restore, MoveLog, RewriteLog
<1>5. CASE ArchiveCandidate \/ ArchiveOutput \/ Archived \/ Settle \/ Begin \/ CollectFeedback
  BY <1>5, <1>f DEF ArchiveCandidate, ArchiveOutput, Archived, Settle, Begin, CollectFeedback
<1>6. CASE ReuseProposal \/ MarkInterrupted \/ StartAttempt \/ BuildCandidate \/ AttemptSucceeds
  BY <1>6, <1>f DEF ReuseProposal, MarkInterrupted, StartAttempt, BuildCandidate, AttemptSucceeds
<1>7. CASE AttemptFails \/ ClearAttempt \/ AttemptInvalid \/ Decide \/ AppendEvidence \/ Crash
  BY <1>7, <1>f DEF AttemptFails, ClearAttempt, AttemptInvalid, Decide, AppendEvidence, Crash
<1>8. CASE GiveUp \/ InfrastructureError \/ AttemptFatal
  BY <1>8, <1>f, <1>s DEF GiveUp, Unfinished, Updating, InfrastructureError, AttemptFatal, Fail,
                          InRound
<1>9. CASE UNCHANGED vars
  BY <1>9, <1>f DEF vars
<1> QED
  BY <1>1, <1>2, <1>3, <1>4, <1>5, <1>6, <1>7, <1>8, <1>9 DEF Next, Work, Recover, Update

-----------------------------------------------------------------------------
(* The theorems                                                            *)

LEMMA InitIInv == Init => IInv
<1> SUFFICES ASSUME Init PROVE IInv
  OBVIOUS
<1>1. Types
  <2>1. 0 \in 0 .. Budget /\ 0 \in 0 .. MaxFaults
    BY CoworkBranchAssumption DEF CoworkBranchAssumption
  <2>2. NoJournal \in Journals
    BY DEF NoJournal, Journals
  <2> QED
    BY <2>1, <2>2, BaselineType DEF Init, Types, Places
<1>2. SavedSound /\ Position
  BY DEF Init, SavedSound, Position, InRound, Exists, NoState
<1>3. JournalInv
  BY CoworkBranchAssumption
     DEF Init, JournalInv, JournalSound, CandidateAtWork, CandidatesKept, Exists, NoState,
         NoJournal, WellKept, CoworkBranchAssumption
<1>4. Evidence /\ StrategyFollowsHistory
  BY DEF Init, Evidence, EvidenceIsHistory, StrategyFollowsHistory, Exists, NoState
<1> QED
  BY <1>1, <1>2, <1>3, <1>4 DEF IInv, JournalInv

LEMMA StepIInv == IInv /\ [Next]_vars => IInv'
<1> SUFFICES ASSUME IInv, [Next]_vars PROVE IInv'
  OBVIOUS
<1> USE DEF IInv
<1>1. Types'
  BY TypesStep
<1>2. SavedSound' /\ Position'
  BY PositionStep
<1>3. JournalInv'
  BY <1>1, <1>2, JournalStep DEF JournalInv
<1>4. Evidence'
  BY <1>2, EvidenceStep
<1>5. StrategyFollowsHistory'
  BY <1>1, StrategyStep
<1> QED
  BY <1>1, <1>2, <1>3, <1>4, <1>5 DEF JournalInv

LEMMA IInvHolds == Spec => []IInv
  BY InitIInv, StepIInv, PTL DEF Spec

(* The retry budget of a candidate holds over every crash and restart, and *)
(* no attempt follows one that succeeded or that must not be repeated.     *)
THEOREM AttemptsStayBounded == Spec => []AttemptsBounded
<1>1. IInv => AttemptsBounded
  BY DEF IInv, JournalSound, WellKept, Retried, AttemptsBounded
<1> QED
  BY IInvHolds, <1>1, PTL

(* Every candidate a restart will ask for is complete.                     *)
THEOREM CandidatesStayKept == Spec => []CandidatesKept
<1>1. IInv => CandidatesKept
  BY DEF IInv
<1> QED
  BY IInvHolds, <1>1, PTL

(* Log and strategy are what the saved history alone makes them.           *)
THEOREM HistoryStaysKept == Spec => []HistoryIsKept
<1>1. IInv => HistoryIsKept
  BY DEF IInv, Evidence, HistoryIsKept
<1> QED
  BY IInvHolds, <1>1, PTL

(* The types the module states.                                            *)
THEOREM TypeCorrect == Spec => []TypeOK
<1>1. IInv => TypeOK
  <2> SUFFICES ASSUME IInv PROVE TypeOK
    OBVIOUS
  <2> DEFINE Sound(s) ==
        s = NoState \/
          /\ s.status \in {"baseline-running", "running", "stopped"}
          /\ s.history \in Seq(Outcomes) /\ Completed(s) <= Budget
          /\ s.champion \in 0 .. Completed(s) /\ s.inFlight \in {0, Current(s)}
  <2>0. charged \in Nat /\ Budget \in Nat
    BY CoworkBranchAssumption DEF IInv, Types, CoworkBranchAssumption
  <2>1. Sound(saved)
    <3> SUFFICES ASSUME saved # NoState PROVE Sound(saved)
      OBVIOUS
    <3>1. saved \in BranchStates /\ Exists(saved)
      BY SavedTypes DEF IInv, Types
    <3>2. /\ Completed(saved) <= Budget /\ saved.champion <= Completed(saved)
          /\ saved.inFlight \in {0, Current(saved)}
      BY <3>1 DEF IInv, SavedSound, Current
    <3> QED
      BY <3>1, <3>2 DEF BranchStates, Statuses, Completed
  <2>2. Sound(state)
    <3>1. CASE pc = "down" \/ pc \in {"founding", "baseline", "repair", "archive", "idle"}
      BY <3>1, <2>1 DEF IInv, Position
    <3>2. CASE pc \in InRound \ {"observe"}
      <4>1. /\ state \in BranchStates /\ state.history = saved.history
            /\ state.champion = saved.champion /\ state.inFlight = saved.inFlight
            /\ Exists(saved)
        BY <3>2, RoundFacts DEF IInv
      <4>2. saved # NoState
        BY <4>1 DEF Exists, NoState
      <4> QED
        BY <4>1, <4>2, <2>1 DEF BranchStates, Statuses, Completed, Current
    <3>3. CASE pc = "observe"
      <4>1. /\ Exists(saved) /\ state = Committed(Working) /\ outcome \in Outcomes
            /\ Completed(saved) = charged /\ charged < Budget
            /\ saved.champion <= Completed(saved)
        BY <3>3 DEF IInv, Position, InRound, SavedSound
      <4>2. /\ Working \in BranchStates /\ Working.history = saved.history
            /\ Working.champion = saved.champion /\ saved \in BranchStates
        BY <4>1, WorkingIsSaved, SavedTypes DEF IInv
      <4>3. /\ state \in BranchStates /\ state.inFlight = 0
            /\ state.history = Append(saved.history, outcome)
            /\ state.champion \in {saved.champion, Current(Working)}
        BY <4>1, <4>2, CommittedFields
      <4>4. /\ Completed(state) = charged + 1 /\ state.champion <= charged + 1
            /\ state.champion \in Nat
        BY <4>1, <4>2, <4>3, <2>0 DEF Completed, Current, BranchStates
      <4>5. /\ state.status \in {"baseline-running", "running", "stopped"}
            /\ state.history \in Seq(Outcomes)
        BY <4>3 DEF BranchStates, Statuses
      <4>6. Completed(state) <= Budget /\ state.champion \in 0 .. Completed(state)
        BY <4>1, <4>4, <2>0
      <4> QED
        BY <4>3, <4>5, <4>6
    <3> QED
      BY <3>1, <3>2, <3>3 DEF IInv, Types, Places
  <2>3. \A g \in Generations :
           /\ journal[g].status \in {"none", "running", "failed", "succeeded"}
           /\ dir[g] \in {"none", "partial", "whole"} /\ launched[g] \in Nat
    BY DEF IInv, Types, Journals
  <2> QED
    BY <2>1, <2>2, <2>3 DEF IInv, Types, TypeOK
<1> QED
  BY IInvHolds, <1>1, PTL

-----------------------------------------------------------------------------
(* Refinement: only a commit advances, only a settlement charges.          *)
LEMMA DriverStep ==
    ASSUME IInv, [Next]_vars PROVE [Driver!Next]_(Driver!driver)
<1> USE DEF durable, process, IInv
<1>s. pc \in {"baseline"} \cup (InRound \ {"observe"}) => RolledBack(state) = saved
  BY RollbackIsSaved
<1>f. ASSUME UNCHANGED <<charged, saved>> PROVE UNCHANGED Driver!driver
  BY <1>f DEF Driver!driver, Exists, Completed
<1>1. CASE FoundState \/ EvaluateBaseline
  <2>1. /\ saved'.history = <<>> /\ saved'.champion = 0 /\ UNCHANGED charged
        /\ saved'.status \in {"baseline-running", "running"}
        /\ Exists(saved) => saved = Baseline
    BY <1>1 DEF FoundState, EvaluateBaseline, Position, Baseline, InRound
  <2>2. UNCHANGED Driver!driver
    BY <2>1 DEF Driver!driver, Exists, Completed, Baseline
  <2> QED
    BY <2>2
<1>2. CASE SaveProposal
  <2>1. /\ saved'.history = saved.history /\ saved'.champion = saved.champion
        /\ saved'.status = saved.status /\ UNCHANGED charged
    BY <1>2, RoundFacts DEF SaveProposal, WithProposal, InRound, BranchStates, Position
  <2>2. UNCHANGED Driver!driver
    BY <2>1 DEF Driver!driver, Exists, Completed
  <2> QED
    BY <2>2
<1>3. CASE CommitGeneration
  <2>1. /\ Exists(saved) /\ saved \in BranchStates /\ saved.status = "running"
        /\ state = Committed(Working) /\ outcome \in Outcomes /\ Working \in BranchStates
        /\ Working.history = saved.history /\ Working.champion = saved.champion
        /\ Working.status = "running" /\ Completed(saved) = charged
    BY <1>3, WorkingIsSaved, SavedTypes DEF CommitGeneration, Position, InRound
  <2>2. /\ state \in BranchStates /\ state.history = Append(saved.history, outcome)
        /\ state.status = "running" /\ state.champion \in {saved.champion, Current(Working)}
    BY <2>1, CommittedFields
  <2>3. /\ saved' = WithStrategy(state, Observed(state.strategy, outcome))
        /\ Observed(state.strategy, outcome) \in Strategies /\ UNCHANGED charged
    BY <1>3, <2>2, StrategyTypes DEF CommitGeneration, WithStrategy, BranchStates
  <2>4. /\ saved'.history = Append(saved.history, outcome)
        /\ saved'.status \in {"running", "stopped"}
        /\ saved'.champion \in {saved.champion, Current(Working)}
    BY <2>2, <2>3, WithStrategyFields
  <2>5. /\ Completed(saved)' = Completed(saved) + 1 /\ Exists(saved)'
        /\ Current(Working) = Completed(saved) + 1
    BY <2>1, <2>4 DEF Completed, Current, BranchStates, Exists
  <2>6. Driver!Advance
    BY <2>1, <2>3, <2>4, <2>5 DEF Driver!Advance
  <2> QED
    BY <2>6 DEF Driver!Next
<1>4. CASE Settle
  <2>1. /\ Exists(saved) /\ Completed(saved) = charged + 1 /\ charged' = charged + 1
        /\ UNCHANGED saved
    BY <1>4 DEF Settle, Answered, Position, InRound
  <2>2. Driver!Charge
    BY <2>1 DEF Driver!Charge, Exists, Completed
  <2> QED
    BY <2>2 DEF Driver!Next
<1>5. CASE CreateRoot \/ FoundLog \/ ArchiveRoot \/ Restore \/ MoveLog \/ RewriteLog
  BY <1>5, <1>f DEF CreateRoot, FoundLog, ArchiveRoot, Restore, MoveLog, RewriteLog
<1>6. CASE ArchiveCandidate \/ ArchiveOutput \/ Archived \/ Begin \/ CollectFeedback
  BY <1>6, <1>f DEF ArchiveCandidate, ArchiveOutput, Archived, Begin, CollectFeedback
<1>7. CASE ReuseProposal \/ MarkInterrupted \/ StartAttempt \/ BuildCandidate \/ AttemptSucceeds
  BY <1>7, <1>f DEF ReuseProposal, MarkInterrupted, StartAttempt, BuildCandidate, AttemptSucceeds
<1>8. CASE AttemptFails \/ ClearAttempt \/ AttemptInvalid \/ Decide \/ AppendEvidence \/ Crash
  BY <1>8, <1>f DEF AttemptFails, ClearAttempt, AttemptInvalid, Decide, AppendEvidence, Crash
<1>9. CASE GiveUp \/ InfrastructureError \/ AttemptFatal
  BY <1>9, <1>f, <1>s DEF GiveUp, Unfinished, Updating, InfrastructureError, AttemptFatal, Fail,
                          InRound
<1>10. CASE UNCHANGED vars
  BY <1>10, <1>f DEF vars
<1> QED
  BY <1>1, <1>2, <1>3, <1>4, <1>5, <1>6, <1>7, <1>8, <1>9, <1>10 DEF Next, Work, Recover, Update

(* The branch is a branch driver in the sense of the population.           *)
THEOREM BranchIsDriver == Spec => ImplementsDriver
<1>1. Init => Driver!Init
  BY DEF Init, Driver!Init, Exists, NoState
<1>2. IInv /\ [Next]_vars => [Driver!Next]_(Driver!driver)
  BY DriverStep
<1> QED
  BY IInvHolds, <1>1, <1>2, PTL DEF Spec, ImplementsDriver, Driver!Spec
=============================================================================
