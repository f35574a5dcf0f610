---------------------------- MODULE MCOperation -----------------------------
(***************************************************************************)
(* How runs are kept, watched and served.  The systems share no state: the *)
(* initial state chooses the one that moves, the others rest in an initial *)
(* state.                                                                  *)
(***************************************************************************)
EXTENDS Integers, Sequences, FiniteSets

CONSTANTS Generations,                                      \* single run
          Seeded, Promotions, Resumes,                      \* fork
          Branches, Measures, Rounds, Exports, Kills,       \* baseline pack
          Regions, LevelPaths, Misses, Proposals, Catalog,  \* region search
          Calls, Concurrency, CallBudget, Runs,             \* updater gateway
          Requests, Trials, Budget, Concurrent, Retries, Attempts, Batches, \* usage
          Sessions, Starts, Rotations,                      \* branch gateway
          Tasks, Sides, Observed, Tokens, Restarts, Kept,   \* diagnostics
          Getters, CoreMax, OwnMax,                         \* event feed
          Campaigns, Workers, Pauses, Launches, MaxResumes  \* suite scripts

VARIABLES system,
          strategy, at, round, champion, built, mem, disk, decided, registry,
          told,
          incumbent, files, registered, edited, forkAt, checkpoint, unread,
          seeded, root, copy, h0, failed, resumes,
          partition, evaluation, records, packet, rounds, export, read,
          exports, pack, pinned, branchAt, file, held, opened, kills,
          catalog, mask, searcher, step, plan, lease, active, misses,
          exhausted, outcomes,
          run, phase, poison, rules, ended, req, serving, total, audits,
          latest,
          usage, request, spent, log, trial, process, verdict, blame, batch,
          session, starts, starter, handle, docker, ready, policy, token,
          chain, offered, awaits, heard, given, lost,
          driver, offset, memory, recent, saved, restarts, used, kept,
          unsaved,
          events, core, sequence, reading, import,
          style, queue, worker, task, public, child, exit, pauses, resumed,
          launches, signalled, late, shown

Single == INSTANCE SingleRun

Fork == INSTANCE PopulationFork WITH
    Branches <- Seeded, Generations <- Promotions, at <- forkAt

Pack == INSTANCE BaselinePack WITH Outcomes <- Measures, at <- branchAt

Search == INSTANCE RegionSearch WITH Generations <- Proposals, strategy <- searcher

Updater == INSTANCE UpdaterGateway WITH
    Requests <- Calls, Budget <- CallBudget, verdict <- ended, active <- serving

Usage == INSTANCE GatewayUsage
Gateway == INSTANCE GatewayLifecycle WITH held <- given

Diagnostics == INSTANCE RunDiagnostics WITH
    Generations <- Observed, ended <- recent, lost <- unsaved

Feed == INSTANCE EventFeed WITH log <- events
Suite == INSTANCE SuiteRunner WITH resumes <- resumed, told <- shown

ASSUME OperationAssumption ==
    /\ Single!GenerationsAssumption
    /\ Fork!ForkAssumption
    /\ Pack!PackAssumption
    /\ Search!SearchAssumption
    /\ Updater!GatewayAssumption
    /\ Usage!GatewayAssumption
    /\ Gateway!LifecycleAssumption
    /\ Diagnostics!DiagnosticsAssumption
    /\ Feed!FeedAssumption
    /\ Suite!SuiteAssumption

(* Two levels of paths, and the catalog in which the search rests: a region*)
(* for each path, and one more.                                            *)
TwoLevels == <<{"p"}, {"p", "q"}>>
ThreeRegions ==
    [risk |-> [r \in {"r1", "r2", "r3"} |-> IF r = "r1" THEN 1 ELSE 2],
     writable |-> [r \in {"r1", "r2", "r3"} |-> IF r = "r2" THEN {"q"} ELSE {"p"}],
     requires |-> [r \in {"r1", "r2", "r3"} |-> {}],
     conflicts |-> [r \in {"r1", "r2", "r3"} |-> {}]]
TwoCampaigns == <<"single", "combined">>

On(s) == system = s

runVars == <<strategy, at, round, champion, built, mem, disk, decided,
             registry, told>>
forkVars == <<incumbent, files, registered, edited, forkAt, checkpoint,
              unread, seeded, root, copy, h0, failed, resumes>>
packVars == <<partition, evaluation, records, packet, rounds, export, read,
              exports, pack, pinned, branchAt, file, held, opened, kills>>
searchVars == <<catalog, mask, searcher, step, plan, lease, active, misses,
                exhausted, outcomes>>
updaterVars == <<run, phase, poison, rules, ended, req, serving, total,
                 audits, latest>>
usageVars == <<usage, request, spent, log, trial, process, verdict, blame,
               batch>>
gatewayVars == <<session, starts, starter, handle, docker, ready, policy,
                 token, chain, offered, awaits, heard, given, lost>>
diagnosticsVars == <<driver, offset, memory, recent, saved, restarts, used,
                     kept, unsaved>>
feedVars == <<events, core, sequence, reading, import>>
suiteVars == <<style, queue, worker, task, public, child, exit, pauses,
               resumed, launches, signalled, late, shown>>
operation == <<system, runVars, forkVars, packVars, searchVars, updaterVars,
              usageVars, gatewayVars, diagnosticsVars, feedVars, suiteVars>>

Init ==
    /\ system \in {"single", "fork", "pack", "search", "updater", "usage", "gateway",
                   "diagnostics", "feed", "suite"}
    /\ ~On("single") => strategy = "builtin"
    /\ ~On("pack") => partition = "feedback"
    /\ ~On("search") => /\ catalog = Catalog /\ searcher = "linear"
                       /\ mask = [ceiling |-> Len(LevelPaths), exclude |-> {}]
    /\ ~On("suite") => style = "formal"
    /\ Single!Init /\ Fork!Init /\ Pack!Init /\ Search!Init /\ Updater!Init
    /\ Usage!Init /\ Gateway!Init /\ Diagnostics!Init /\ Feed!Init /\ Suite!Init

Next ==
    \/ On("single") /\ Single!Next
         /\ UNCHANGED <<system, forkVars, packVars, searchVars, updaterVars,
                        usageVars, gatewayVars, diagnosticsVars, feedVars,
                        suiteVars>>
    \/ On("fork") /\ Fork!Next
         /\ UNCHANGED <<system, runVars, packVars, searchVars, updaterVars,
                        usageVars, gatewayVars, diagnosticsVars, feedVars,
                        suiteVars>>
    \/ On("pack") /\ Pack!Next
         /\ UNCHANGED <<system, runVars, forkVars, searchVars, updaterVars,
                        usageVars, gatewayVars, diagnosticsVars, feedVars,
                        suiteVars>>
    \/ On("search") /\ Search!Next
         /\ UNCHANGED <<system, runVars, forkVars, packVars, updaterVars,
                        usageVars, gatewayVars, diagnosticsVars, feedVars,
                        suiteVars>>
    \/ On("updater") /\ Updater!Next
         /\ UNCHANGED <<system, runVars, forkVars, packVars, searchVars,
                        usageVars, gatewayVars, diagnosticsVars, feedVars,
                        suiteVars>>
    \/ On("usage") /\ Usage!Next
         /\ UNCHANGED <<system, runVars, forkVars, packVars, searchVars,
                        updaterVars, gatewayVars, diagnosticsVars, feedVars,
                        suiteVars>>
    \/ On("gateway") /\ Gateway!Next
         /\ UNCHANGED <<system, runVars, forkVars, packVars, searchVars,
                        updaterVars, usageVars, diagnosticsVars, feedVars,
                        suiteVars>>
    \/ On("diagnostics") /\ Diagnostics!Next
         /\ UNCHANGED <<system, runVars, forkVars, packVars, searchVars,
                        updaterVars, usageVars, gatewayVars, feedVars,
                        suiteVars>>
    \/ On("feed") /\ Feed!Next
         /\ UNCHANGED <<system, runVars, forkVars, packVars, searchVars,
                        updaterVars, usageVars, gatewayVars, diagnosticsVars,
                        suiteVars>>
    \/ On("suite") /\ Suite!Next
         /\ UNCHANGED <<system, runVars, forkVars, packVars, searchVars,
                        updaterVars, usageVars, gatewayVars, diagnosticsVars,
                        feedVars>>

Spec == Init /\ [][Next]_operation

-----------------------------------------------------------------------------
(* A run on disk is whole: a failed single run leads from H0 to its        *)
(* champion, a fork starts from candidates that one checkpoint names.      *)
RunsAreWhole == Single!SavedRunIsWhole /\ Fork!SeedsAreCheckpointed

(* All branches of an experiment start from the one pack whose digest the  *)
(* experiment fixes.                                                       *)
CommonBaseline == Pack!CommonBaseline

(* What a search may write, when it may write more, and that it goes on.   *)
SearchIsSound == Search!SearchIsSound

(* The gateways' books: the counters stand for the requests in flight, a   *)
(* trial or batch called measured has every request's usage in its sum,    *)
(* and a candidate is blamed only when nothing else can have been it.      *)
GatewaysAccount ==
    /\ Updater!CountsAreInFlight /\ Updater!RulesNeverOverlap
    /\ Usage!TrialsMeasured /\ Usage!BatchMeasured /\ Usage!BlameIsProven

(* Whoever was given access to the model gateway can use it.               *)
AccessIsGood == Gateway!AccessIsGood

(* What is reported of a run agrees with what happened in it: saved        *)
(* diagnostics with its history, imported events with the run's own.       *)
ReportsAgree ==
    /\ Diagnostics!DiagnosticsAgree
    /\ Feed!NumbersAreSteady /\ Feed!CoreImportedOnce

(* A suite script starts, stops and calls completed only what it may.      *)
SuiteInCharge == Suite!SuiteInCharge
=============================================================================
