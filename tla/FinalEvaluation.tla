-------------------------- MODULE FinalEvaluation --------------------------
(***************************************************************************)
(* The sealed final of closed populations: one-shot finalize processes     *)
(* (finalizeEvolution), each with a claim file that is never removed, one  *)
(* recovery of a failed attempt, and the shared suite that adopts          *)
(* populations and measures their champions against one baseline.          *)
(***************************************************************************)
EXTENDS Naturals, FiniteSets

CONSTANTS Pops, Finalizers,
          MaxLaunches  \* bound on the finalize processes started

FinalAssumption == "h0" \notin Pops /\ MaxLaunches \in Nat

VARIABLES public,    \* the final record in state.json of a population
          branch,    \* the final record in the state of its best branch
          claims,    \* claim files of the population, by kind of attempt
          report,    \* report/final-evaluation.json is there
          touched,   \* attempts whose sealed trials left evidence
          adopted,   \* final-suite-adoption.json is there
          proc,      \* the finalize processes
          launches,
          suite,     \* the suite process: its step and the identities it read
          claim,     \* claim.json of the suite: [Pops -> identity], or <<>>
          done       \* completed jobs of the suite

disk == <<branch, claims, report, touched>>
suiteVars == <<adopted, suite, claim, done>>
finalVars == <<public, disk, proc, launches, suiteVars>>

None == [attempt |-> "none", at |-> "none"]
Gone == [at |-> "idle"]
Labels == Pops \cup {"h0"}
Idle(f) == proc[f] = Gone

Init ==
    /\ public = [p \in Pops |-> None]
    /\ branch = [p \in Pops |-> None]
    /\ claims = [p \in Pops |-> {}] /\ touched = [p \in Pops |-> {}]
    /\ report = [p \in Pops |-> FALSE] /\ adopted = [p \in Pops |-> FALSE]
    /\ proc = [f \in Finalizers |-> Gone] /\ launches = 0
    /\ suite = [at |-> "idle", read |-> <<>>] /\ claim = <<>> /\ done = {}

-----------------------------------------------------------------------------
Authorized(p, kind) ==
    /\ ~adopted[p]
    /\ IF kind = "normal" THEN public[p] = None /\ branch[p] = None
       ELSE /\ public[p] = [attempt |-> "normal", at |-> "failed"]
            /\ branch[p] = public[p]
            /\ ~report[p]

Launch(f, p, kind) ==
    /\ Idle(f) /\ launches < MaxLaunches /\ Authorized(p, kind)
    /\ proc' = [proc EXCEPT ![f] = [at |-> "claim", pop |-> p, kind |-> kind, seen |-> public[p]]]
    /\ launches' = launches + 1
    /\ UNCHANGED <<public, disk, suiteVars>>

At(f, step) == ~Idle(f) /\ proc[f].at = step
Goto(f, step) == proc' = [proc EXCEPT ![f].at = step]
Leave(f) == proc' = [proc EXCEPT ![f] = Gone]
Pop(f) == proc[f].pop
Record(f, at) == [attempt |-> proc[f].kind, at |-> at]

InspectedNot(f) == TRUE
Inspected(f) == proc[f].kind = "recovery" => touched[Pop(f)] = {}

(* Everything is checked before the claim, which is a file opened with wx. *)
Claim(f) ==
    /\ At(f, "claim")
    /\ \/ Leave(f) /\ UNCHANGED claims
       \/ /\ Inspected(f) /\ proc[f].kind \notin claims[Pop(f)]
          /\ claims' = [claims EXCEPT ![Pop(f)] = @ \cup {proc[f].kind}]
          /\ Goto(f, "start")
    /\ UNCHANGED <<public, branch, report, touched, launches, suiteVars>>

Current(f) == public[Pop(f)] = proc[f].seen

(* The public state is saved only if nobody else has saved it meanwhile.   *)
Save(f, at, next, otherwise) ==
    IF Current(f)
    THEN /\ public' = [public EXCEPT ![Pop(f)] = Record(f, at)]
         /\ proc' = [proc EXCEPT ![f] = IF next = "idle" THEN Gone
                                        ELSE [@ EXCEPT !.at = next, !.seen = Record(f, at)]]
    ELSE /\ IF otherwise = "idle" THEN Leave(f) ELSE Goto(f, otherwise)
         /\ UNCHANGED public

Start(f) ==
    /\ At(f, "start") /\ Save(f, "started", "enter", "idle")
    /\ UNCHANGED <<disk, launches, suiteVars>>

SetBranch(f, at) == branch' = [branch EXCEPT ![Pop(f)] = Record(f, at)]
EnterBranch(f) ==
    /\ At(f, "enter") /\ SetBranch(f, "started")
    /\ \E step \in {"sealed", "fail"} : Goto(f, step)  \* the feedback partition
    /\ UNCHANGED <<public, claims, report, touched, launches, suiteVars>>

MeasureSealed(f) ==
    /\ At(f, "sealed")
    /\ touched' = [touched EXCEPT ![Pop(f)] = @ \cup {proc[f].kind}]
    /\ \E step \in {"publish", "fail"} : Goto(f, step)
    /\ UNCHANGED <<public, branch, claims, report, launches, suiteVars>>

Publish(f) ==
    /\ At(f, "publish") /\ Goto(f, "close")
    /\ report' = [report EXCEPT ![Pop(f)] = TRUE]
    /\ UNCHANGED <<public, branch, claims, touched, launches, suiteVars>>

CloseBranch(f) ==
    /\ At(f, "close") /\ SetBranch(f, "completed") /\ Goto(f, "complete")
    /\ UNCHANGED <<public, claims, report, touched, launches, suiteVars>>

Complete(f) ==
    /\ At(f, "complete") /\ Save(f, "completed", "idle", "fail")
    /\ UNCHANGED <<disk, launches, suiteVars>>

Fail(f) ==
    /\ At(f, "fail") /\ SetBranch(f, "failed") /\ Goto(f, "failed")
    /\ UNCHANGED <<public, claims, report, touched, launches, suiteVars>>

RecordFailure(f) ==
    /\ At(f, "failed") /\ Save(f, "failed", "idle", "idle")
    /\ UNCHANGED <<disk, launches, suiteVars>>

Crash(f) ==
    /\ ~Idle(f) /\ Leave(f)
    /\ UNCHANGED <<public, disk, launches, suiteVars>>

-----------------------------------------------------------------------------
(* The suite refuses a population that has its report, or whose two        *)
(* records speak of different attempts, and waits for no finalize process. *)
SuiteAccepts(p) ==
    /\ public[p].at # "completed" /\ branch[p].at # "completed" /\ ~report[p]
    /\ public[p].attempt = branch[p].attempt

SuiteStep(step, read) == suite' = [at |-> step, read |-> read]
Scan(p) ==
    /\ suite.at = "idle" /\ p \notin DOMAIN suite.read
    /\ SuiteAccepts(p) /\ \A f \in Finalizers : ~Idle(f) => Pop(f) # p
    /\ SuiteStep("idle", [q \in DOMAIN suite.read \cup {p} |->
           IF q = p THEN [final |-> public[p], claims |-> claims[p]] ELSE suite.read[q]])
    /\ UNCHANGED <<public, disk, proc, launches, adopted, claim, done>>

(* A resumed suite must find exactly the identities of its claim.          *)
ClaimSuite ==
    /\ suite.at = "idle" /\ DOMAIN suite.read = Pops /\ claim \in {<<>>, suite.read}
    /\ claim' = suite.read /\ SuiteStep("adopt", <<>>)
    /\ UNCHANGED <<public, disk, proc, launches, adopted, done>>

Adopt(p) ==
    /\ suite.at = "adopt" /\ ~adopted[p] /\ adopted' = [adopted EXCEPT ![p] = TRUE]
    /\ UNCHANGED <<public, disk, proc, launches, suite, claim, done>>

BeginJobs ==
    /\ suite.at = "adopt" /\ \A p \in Pops : adopted[p]
    /\ SuiteStep("jobs", <<>>)
    /\ UNCHANGED <<public, disk, proc, launches, adopted, claim, done>>

(* Jobs run side by side, one failing stops no other; a completed one is   *)
(* immutable, the others are taken up by the next resume.                  *)
RunJobs ==
    /\ suite.at = "jobs" /\ SuiteStep("idle", <<>>)
    /\ \E ok \in SUBSET (Labels \ done) : done' = done \cup ok
    /\ UNCHANGED <<public, disk, proc, launches, adopted, claim>>

SuiteStops ==
    /\ suite # [at |-> "idle", read |-> <<>>] /\ SuiteStep("idle", <<>>)
    /\ UNCHANGED <<public, disk, proc, launches, adopted, claim, done>>

Finalize(f) ==
    \/ Claim(f) \/ Start(f) \/ EnterBranch(f) \/ MeasureSealed(f) \/ Publish(f)
    \/ CloseBranch(f) \/ Complete(f) \/ Fail(f) \/ RecordFailure(f) \/ Crash(f)

Next ==
    \/ \E p \in Pops : Scan(p) \/ Adopt(p)
    \/ \E f \in Finalizers, p \in Pops, kind \in {"normal", "recovery"} : Launch(f, p, kind)
    \/ \E f \in Finalizers : Finalize(f)
    \/ ClaimSuite \/ BeginJobs \/ RunJobs \/ SuiteStops

Spec == Init /\ [][Next]_finalVars

-----------------------------------------------------------------------------
(* Finalize processes unseal the final of a population once, whatever      *)
(* fails, is recovered or is started twice at the same time.               *)
UnsealedOnce == \A p \in Pops : Cardinality(touched[p]) <= 1

(* Once a final is recorded as completed, nothing of it changes any more:  *)
(* no failing, recovering or second process writes over it.                *)
CompletedStays ==
    \A p \in Pops : public[p].at = "completed" =>
        /\ public'[p] = public[p] /\ branch'[p] = branch[p]
        /\ claims'[p] = claims[p] /\ touched'[p] = touched[p] /\ report'[p]

(* A population recorded as measured has its report, from the attempt that *)
(* its best branch records as well.                                        *)
CompletedIsReported ==
    \A p \in Pops : public[p].at = "completed" => report[p] /\ branch[p] = public[p]

(* docs/shared-final-suite.zh.md: an interrupted final can be superseded.  *)
(* Does not hold: a crash between the two records of a started attempt     *)
(* leaves them different, and every way on refuses the population.         *)
NeverStranded ==
    (\A f \in Finalizers : Idle(f)) =>
        \A p \in Pops : \/ report[p] \/ adopted[p] \/ SuiteAccepts(p)
                        \/ \E kind \in {"normal", "recovery"} :
                              Authorized(p, kind) /\ kind \notin claims[p]

(* final-suite-entry.mjs: the suite and an old finalize never write the    *)
(* trials of one branch at the same time.  Does not hold.                  *)
OneMeasurer ==
    suite.at = "jobs" => \A f \in Finalizers : Idle(f)
=============================================================================
