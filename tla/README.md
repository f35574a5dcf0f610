# Verification of the HarnessEvoGym controller

TLA+ models of the program in this repository, TLC runs that check them on
small instances, and TLAPS proofs of what matters most for every instance.
Paths below are relative to the repository; `controller/` stands for
`src/controller/src/` and `server/` for `src/server/src/`.

HarnessEvoGym evolves an agent harness: an *updater* proposes a candidate, the
controller builds and evaluates it, and a decision rule promotes or rejects it.
A *population campaign* runs N such searches ("branches") in synchronized
waves on one common budget of candidate rounds. Everything that takes hours is
made to survive: each step is saved before the next starts, a failure pauses
the campaign, and a command line resumes it. Around that core stand evaluation
(partitions of tasks in containers, per-task checkpoints, a sealed final),
gateways to the model providers, a server that runs campaigns as child
processes, and scripts that run one campaign after another.

## Running

    tlc -workers 2 -config competition.cfg MCPopulation.tla
    tlc -workers 2 -config cowork.cfg CoworkBranch.tla
    tlc -workers 2 -config host.cfg MCHost.tla
    tlapm PopulationProofs.tla
    tlapm CoworkProofs.tla
    tlapm ReasoningProofs.tla
    tlapm HostProofs.tla
    tlapm EvaluationProofs.tla
    tlapm OperationProofs.tla

`PROJECT.json` lists every run with its module, configuration and outcome, the
source lines behind every definition, one seeded fault for every property of a
passing run, the hazards and the findings. Five more configurations stand
beside the listed runs; each shows one finding of section 5 and ends with a
violation:

| Configuration | Module | Property |
|---|---|---|
| `baseline_stuck.cfg` | `MCPopulation` | `BaselinePauseResumes` |
| `identity_missing.cfg` | `MCPopulation` | `StableStateResumes` |
| `closing_stuck.cfg` | `MCPopulation` | `ClosesWhenAllStopped` |
| `decision_lost.cfg` | `MCReasoning` | `DecisionsAreCommitted` |
| `final_stuck.cfg` | `FinalEvaluation` | `NeverStranded` |

## 1. Inventory

| Component | State it keeps | Operations | Interacts with | What is hard | What makes it correct |
|---|---|---|---|---|---|
| Population controller `population-orchestrator.mjs`, `population-store.mjs` | `public/state.json` (status, epoch, budget, branches, open wave, checkpoint index), immutable files, report | initialize, freezeBaseline, run, resume, report; start, run and settle a wave; grant; capture checkpoints | branch drivers (concurrent calls), command lines, campaign lock | crash between the branches' saves and its own; one branch of a wave failing; repeated captures | budget conserved; ledger and branch stores agree; resume is never refused; the campaign ends with its report |
| Modes and budget plan `evolution-modes.mjs`, recipe `evolution-recipe.mjs` | none | plan, allocation, grant order, rankings; milestones | controller | remainders, the last partial grant, ties | plan and pool add up to the budget |
| Command lines `campaign-cli.mjs`, `cowork-orchestrator.mjs`, `cli.mjs` | `public/execution.identity.json` | start, run, resume; experiment run, resume, baseline-only | orchestrator, lock | which command accepts which saved state | every state a crash leaves has a command that goes on |
| Campaign lock `campaign-lock.mjs` | `<campaign>.lock/owner.json` | acquire, reclaim, release | every controller process of a host | separate system calls on one path; dying holders | at most one holder; recoverable after a crash |
| Branch driver protocol `branch-evolution-driver.mjs` | status, steps, champion of a branch | initialize, restore, inspect, advanceOne | population, the two drivers | a branch that saved and then failed | one step per call, idempotent on retry |
| Cowork branch driver `cowork-orchestrator.mjs`, `updater-recovery.mjs`, `strategies/progressive-risk-expansion.mjs` | branch state, evidence log, candidate and output folders, retry journal | phases of a generation, archive, restore, updater attempts | updater, evaluator, population | crash between evidence, candidate and state; archive interrupted; interrupted attempts | an incomplete generation never counts, a finished one never repeats; attempts bounded |
| Reasoning campaign `orchestrator.mjs`, `campaign.mjs`, `campaign-store.mjs`, `linear-git-workspace.mjs`, `sealed-test-broker.mjs` | round stage, write-once artifacts, evolution log, git worktree, sealed receipts | candidate, validation, sealed test, decision, promotion, level change, report | updater, partition runner, detached test worker | repeated decision; workspace ahead of the log; two workers | log, workspace and state tell one story; one sealed result |
| Updater supervision `subprocess.mjs`, `updater-watchdog.mjs`, `docker/model-gateway/stream-watch.mjs` | one process, its signals, a verdict | sample, stop, kill, settle | updater container | exit crossing the verdict; descendants that keep the output open | a supervised updater ends |
| Single run `cowork-orchestrator.mjs` (`runEvolution`) | `state.json`, candidate registry | generation, decision, save on failure | strategy container, updater, evaluator | every call may fail; memory ahead of disk | the saved run leads from H0 to its champion |
| Search space `mutation-catalog.mjs`, strategies | regions, masks, plans, leases | propose, validate, lease, observe | updater | strategies may answer anything; widening after misses | no plan beyond its mask; the search goes on |
| Decision `evaluator.mjs` | none | compare pairs of records, gates of a policy | branch drivers | missing records, unknown costs | promotion only on what was measured |
| Baseline pack `baseline-pack.mjs` | a file, imported records | export, pin, import | runs of one experiment | source goes on; kills between files | all branches start from one pack, which tells the records its feedback was drawn from |
| Trial partitions `environments/*.mjs`, `trial-checkpoint-store.mjs`, `final-suite-store.mjs` | committed trials, archived stale ones, attempt budgets | start, reserve, solve, verify, commit, conclude | containers | restarts, changed identities, retries | a committed trial is never measured again; samples bounded |
| Partition runner `partition-runner.mjs`, `production-runtime.mjs`, `hle-partition-runner.mjs` | validation checkpoints | solve, verify, retry, summarize; judge | gateways, campaign store | deadline, one task failing, temporary files | a summary only of complete scores; verdicts are the candidate's own |
| Prepared files `putnambench-runner.mjs`, runtime cache in `production-runtime.mjs` | shared dataset and its lease, content-addressed runtimes | lease, prepare, publish, adopt; build, clone, activate | campaigns of one machine | kills between two file operations; a lease taken over; hard links | used only whole and as named |
| Final evaluation `cowork-orchestrator.mjs`, `shared-final-suite.mjs`, `final-suite-entry.mjs` | claims, records of the attempt, report, suite claim | finalize, recover, adopt, jobs | populations that are closed | two finalizers; failure after unsealing | unsealed once; a completed final stays |
| Evaluation sessions `evaluation-session.mjs`, `evaluation-job.mjs`, `evaluation-candidates.mjs` | identity, task checkpoints, committed results, summary | launch, resume, measure a task, commit | environments | edits between two tasks or two launches, side by side launches | complete means measured as named |
| Population fork `population-fork.mjs`, `cowork-orchestrator.mjs` | copied seeds, H0 of each branch | read, copy, baseline, resume | a parent that goes on | copies that change; a paused baseline | branches start from what one checkpoint names |
| Model gateways `docker/model-gateway/*.mjs`, `model-gateway.mjs`, `cowork-model-gateway.mjs`, `solver-failure.mjs` | usage books, tokens, policy, firewall lease | admit, forward, meter, blame; start, rotate, stop; lease, release | solvers, updaters, providers, docker | clients leaving between two awaits; concurrent rotations | books balance; blame is proven; access given works |
| Server `core-engine.mjs`, `http-api.mjs` | run descriptors, event files | create, cancel, resume, refresh, recover, import events | CLI processes, clients | child closing while a control request is written; restart | each run comes to rest; completed is true |
| Global slots `global-concurrency.mjs` | slot directories | acquire, reclaim, release | processes of all runs | two reclaimers of one slot | no more users than slots; waiting ends |
| Generic algorithm driver `generic-algorithm.mjs` | RunStore, checkpoints | initialize, step, resume | plugins | kill between save, checkpoint and event | checkpoints stay |
| Diagnostics `run-diagnostics.mjs`, `evolution-monitor.mjs`, `updater-robustness.mjs`, `task-failure-tracker.mjs` | counters inside `state.json` | observe, persist, restore | every run | repeated saves, restarts, bounded windows | counted once, agreeing with the history |
| Suite scripts `scripts/run-*.mjs` | status file, child processes | take, start, look, stop | controllers, signals | signals and relaunch at any point | nothing started twice or called complete early |
| Reporting, configuration and plugins, sandbox and paths, other environments, source files, SDK | little or none | formatting, parsing, command lines, copying | all of the above | input and output | not modelled |

The hazards of this code, with the line where each bites and the property that
would catch it, are listed in `PROJECT.json`.

## 2. Modules

| Module | Stands for |
|---|---|
| `EvolutionModes` | constants of a configuration, budget plan, grants, both rankings |
| `Population` | the orchestrator with its store, its branches as the drivers' projections show them, and the command lines that start it |
| `CreditLedger` | what a campaign promises about its budget; abstract, no code of its own |
| `BranchDriver` | what a population relies on when it asks a branch to advance; abstract |
| `CoworkBranch` | a Cowork branch: files, process, retry journal, crash anywhere; refines `BranchDriver` |
| `ReasoningCampaign` | a Reasoning campaign, alone or as a branch; refines `BranchDriver` |
| `CampaignLock`, `GlobalSlots` | lock and slots, one action per system call |
| `RunServer`, `EventFeed` | one run of the server with control requests, readers and restarts; its event log |
| `UpdaterWatch` | one supervised updater process |
| `SingleRun`, `PopulationFork`, `GenericRun` | a run alone, a fork, a generic algorithm |
| `RegionSearch`, `DecisionPolicy`, `BaselinePack` | search space, promotion, common baseline |
| `TrialPartition`, `PartitionRun`, `HleTask` | measuring tasks |
| `DatasetPreparation`, `RuntimeCache` | files that campaigns share, with the lease of the dataset |
| `FinalEvaluation`, `EvaluationSession` | the sealed final, evaluation jobs |
| `GatewayUsage`, `UpdaterGateway`, `GatewayLifecycle` | the three gateways |
| `RunDiagnostics`, `SuiteRunner` | what is reported of a run, scripts around runs |
| `MCPopulation`, `MCReasoning`, `MCHost`, `MCEvaluation`, `MCOperation` | values of the constants for TLC, and compositions |
| `BudgetProofs`, `PopulationProofs` | arithmetic of the plan; theorems about `Population` |
| `CoworkProofs`, `ReasoningProofs` | theorems about the two branch drivers, their refinement of `BranchDriver` included |
| `HostProofs`, `EvaluationProofs`, `OperationProofs` | theorems about the systems composed in `MCHost`, `MCEvaluation` and `MCOperation` |

`Population` extends `EvolutionModes`, and instantiates `CreditLedger` as
`Ledger` with the refinement mapping `done <- steps`, `paid <- used`,
`pool <- bonusRemaining`, `closed <- status = "CLOSED"`. `CoworkBranch` and
`ReasoningCampaign` instantiate `BranchDriver` with the completed steps and the
champion of the *saved* state: a crash rolls the work in memory back, never the
branch. That is the contract behind `Population`'s projections: a branch is at
most one step ahead of what was charged, moves its champion only by a step of
its own, and stays stopped.

Systems that share no state and are small are explored together by one run.
`MCHost`, `MCEvaluation` and `MCOperation` instantiate them over constants and
variables of their own (constants that two systems name alike are renamed).
The initial state chooses in `system` the one that moves; the others stay in
one of their initial states (a fixed one, where there are many). This is a
union of state spaces, not a product: the behaviours of the chosen system are
exactly its own. A property of such a run is stated of all its systems
together, without a condition on `system`: those at rest satisfy it as well.
The values of the constants stand in `host.cfg`, `evaluation.cfg` and
`operation.cfg`. The assumption each module makes on its constants is stated
in the module and assumed, as a conjunct, in the MC module.

### How Population corresponds to the code

State. `saveState` replaces `state.json` by rename, so the copy in memory and
the one on disk agree whenever an action ends, and one variable is enough for
each field.

| Variables | In the program |
|---|---|
| `status epoch consumed bonusRemaining bonusGranted best` | fields of state.json: `status`, `epoch`, `budget.*`, `bestBranchId` |
| `branchStatus bonus used incumbent` | `branches[b].status`, `.budget.bonus`, `.budget.used`, `.incumbent` |
| `participants beforeSteps beforeScore` | `inFlightWave`; no participants when it is null |
| `recorded` | `checkpoints` and `branchCheckpoints` |
| `pausePhase stableAt` | the phase of the last pause event; the time of the last event that leaves a stable state, from which `capturedAt` is taken |
| `files reported identity` | checkpoint files, report.json, execution.identity.json |
| `childStatus steps champion lastScore lastBaseline` | each branch's own store, as `inspect()` projects it |
| `pc settled written next rounds limit` | the running process: where it is, which promises of the wave have settled, files written by the capture under way, what follows the capture, rounds of this command and `--round-limit` |
| `faults` | faults that have happened, bounded by `MaxFaults`; also the clock, since only times on either side of a crash need telling apart |

Actions. A process goes from one suspension that matters to the next: a branch
of a wave, a checkpoint file, a `saveState`.

| Code | Actions |
|---|---|
| `initialize` | `Start`, `StartBaseline`, `InitializeBranch`, `FinishBaseline` |
| `#captureReachedCheckpoints`, `immutableJson` | `WriteCheckpoint`, `FinishCapture`, `FailCapture` |
| command lines between orchestrator calls | `WriteIdentity`, `LeavePaused`, `Run`, `RunCommand`, `Resume` |
| `freezeBaseline` | `Freeze` |
| `run` | `EnterRun`, `StopAtLimit`, `Close`, `WriteReport`, `ResumeWave` |
| `#startWave`, `#ensureBonusParticipant` | `StartWave`, `BootstrapWave` |
| `#runChildRound`, drivers' `advanceOne` | `NothingToDo`, `AdvanceStep`, `AdvanceStops`, `AdvanceFails`, `CloseBranch`, `RefuseRound` |
| `#runWave` after all branches settled | `PauseWave`, `FinishWave` |
| `resume` | `RestoreBranch`, `RefuseRestore`, `FinishRestore` |
| the process is killed | `Crash`: the process's variables are reset, everything else stays |

The driver is a constant. "reasoning" comes with the campaign command line
(`evolve start / run / resume`): there is no `restore()`, `run` works on a
campaign that exists, every candidate has a score, and a branch that ends is
first saved CLOSING and then CLOSED (`SoftLayers` says whether its updater or its
last level ends it). "cowork" comes with the experiment command line: its
driver restores a branch and finishes its baseline, the baseline is measured
beside every candidate, an exhausted search stops with the save of its last step, and no command runs an existing campaign except
`experiment resume`, which accepts a pause or a stable EVOLVING state and
demands the execution identity.


### How the other modules correspond to the code

An action goes from one `await` that matters to the next: a save, a rename, a
call that may fail, a moment at which the process may be killed. Everything
between two of them is one action. `PROJECT.json` has the lines of each.

| Module | State and code | Actions and code |
|---|---|---|
| `CoworkBranch` | `saved` and `state`: state.json and the copy in memory; `durable` files: evidence log, candidate and output folders, archives, `journal`; `charged`: what the population has asked for | `initialize`: `CreateRoot` to `EvaluateBaseline`, `restore`: `Restore`, `MoveLog`, `RewriteLog`, `ArchiveCandidate`, `ArchiveOutput`; `advanceOne`: `Begin`, `CollectFeedback`, `SaveProposal`, `Decide`, `AppendEvidence`, `CommitGeneration`; `recoverUpdater`: `ReuseProposal`, `MarkInterrupted`, `StartAttempt`, `Attempt*`, `GiveUp`; `Crash`, `InfrastructureError` |
| `ReasoningCampaign` | `saved`: state.json; `artifacts`: write-once files of a candidate; `git`, `log`, `sealed` receipts | stages of `runRound`: `StartRound`, `PrepareMutation` to `FinishMutation`, `BuildCandidate`, `RunTask`, `FinishValidation`, `StartWorker`, `WorkerEnds`, `FinishTest`, `Decide`, `AppendLog`, `CommitRound`; `Close`, `Report`, `Resumed`, `Crash` |
| `SingleRun` | `mem` and `disk`: the record in memory and state.json; `registry` | a generation from the question to the strategy to the save; every call may fail; `Saved` is what a failure writes |
| `RegionSearch` | `catalog`, `mask`, strategy state, `plan`, `lease` | `Propose` or `ProposeAnything`, `Issue`, `Observe` |
| `DecisionPolicy` | records of champion and candidate, the policy | `Report`, `Decide`, `NextRound` |
| `BaselinePack` | source run, `export` under way, `pack`, `pinned` digest, files of each importing branch | measuring and archiving source, `ReadBaseline` to `WritePack`, `Pin`, `Load`, `Open`, `Write`, `Restore`, kills |
| `TrialPartition` | `dir[t]`: identity of the committed trial, `budget[t]`: reserved attempts | `Start` archives stale trials, `Reserve`, `Solve`, `Verify`, `Commit`, `Conclude`, `Crash` |
| `PartitionRun`, `HleTask` | checkpoint files; sessions, answer, verdict | `Take`, `Solve`, `Verify`, `Emit`, `Write`, `Conclude`; transcripts, extraction, judge |
| `DatasetPreparation`, `RuntimeCache` | lease directory, published files and their marker; cache entries and links | one system call of the lease (`MakeLease` to `RemoveLease`), one file operation each |
| `FinalEvaluation` | public state, branch state, claims, report per population | `finalizeEvolution` from `Claim` to `Complete` or `RecordFailure`; suite: `Scan`, `ClaimSuite`, `Adopt`, `RunJobs` |
| `EvaluationSession` | output folder (identity, task checkpoints, results, summary), workspaces that may be edited and put back | `Launch`, `Lock`, `NameRoot` or `OpenRoot`, `Take`, `Measure` (one task), `Measured` or `TaskFails`, `CheckAgain`, `SaveResult`, `SaveSummary` |
| `PopulationFork` | checkpoint files of the parent, copies, H0 | reading, copying, baseline, resume |
| `GatewayUsage`, `UpdaterGateway` | one record per request: where it is in the handler; counters | a handler is split at every `await`; clients leave at any of them |
| `GatewayLifecycle` | start promise, docker's network and container, policy, token, the chain of rotations | `access` from await to await (`Ask`, `Look`, `Wait` or `GoOn`, `Configure`, `Give`), `configureRole`, `rotateRoleToken` (`Rotate`, `RotateInContainer`, `TakeAnswer`), `stop` |
| `RunServer` | descriptor, child processes, handler of the exit, pending control and refresh requests | reading and saving are separate actions (`CancelRead`, `CancelSave`, ...) |
| `EventFeed` | event file, imported count, cached sequence number | `Own`, `GetEvents`, `ImportOne`, `Answer`, `Restart` |
| `UpdaterWatch` | leader, descendant, signals sent, verdict | `Sample`, `AskToStop`, `Term`, `Kill`, `Exits`, `Settle` |
| `GlobalSlots` | slot directory and owner | `mkdir`, `owner.json`, read, rename, unlink, rmdir |
| `GenericRun` | state, checkpoint files, log | `Step`, `Save`, `WriteCheckpoint`, `AppendEvent`, `Crash` |
| `RunDiagnostics` | driver counters, offset, memory, saved | `Persist`, `Restart`, observations |
| `SuiteRunner` | queue, workers, children, public status | `Take`, `Look`, `Start`, `Ended`, `Signal`, `Relaunch` |

## 3. Runs

| Run | Instance | Distinct states | Shows |
|---|---|---|---|
| `competition` | `Population`, Reasoning with soft layers, 3 branches, budget 6, beta 1/2: floor of one each, pool of three; 2 faults | 909,136 | `BudgetConserved`, `LedgerMatchesWork`, `RecoveryIsExact`, `NoBudgetStranded`, refinement `ImplementsLedger` |
| `completion` | `Population`, Reasoning, competition, 2 branches, budget 3, budget milestones 0, 1, 2, generation milestone 1, round limits none and 1; 2 faults | 477,801 | `CheckpointsAreSound`, `Durable`, liveness `CampaignsEnd` |
| `recovery` | `Population`, Cowork, combined, 3 branches, budget 3, beta 0, unit 2; 2 faults | 254,892 | `TypeOK`, liveness `BaselinePauseResumes` |
| `cowork` | `CoworkBranch`, 4 generations, 1 retry, 2 levels; 3 faults | 177,790 | `HistoryIsKept`, `CandidatesKept`, `AttemptsBounded`, refinement `ImplementsDriver`, liveness `StepsDelivered` |
| `reasoning` | `ReasoningCampaign`, 4 candidates, 2 tasks, sealed test every second round, 2 levels of 2 misses; 1 fault | 1,279,510 | `SearchIsExact`, `RecordsFollowRound`, `SealedOnce`, refinement `ImplementsDriver`, liveness `ReachesEnd` |
| `host` | `CampaignLock` (2 processes, with and without stalls), `GlobalSlots` (4 workers in 2 processes, 2 slots, 1 process that may be killed), `RunServer` (2 processes, 2 readers, 2 restarts), `UpdaterWatch` (3 samples); constants in `host.cfg` | 70,790 | `HoldersApart`, `PermitsBounded`, `CompletedIsTrue`, liveness `ClaimsAreServed`, `ProcessesComeToRest` |
| `evaluation` | nine systems, constants in `evaluation.cfg` | 1,244,066 | `PreparedIsWhole`, `SamplesBounded`, `SummaryIsComplete`, `VerdictsAreEarned`, `CompleteIsMeasured`, `FinalIsSound`, action property `CommittedStays` |
| `operation` | ten systems, constants in `operation.cfg` | 2,321,828 | `RunsAreWhole`, `CommonBaseline`, `SearchIsSound`, `GatewaysAccount`, `AccessIsGood`, `ReportsAgree`, `SuiteInCharge` |
| `closed_unreported`, `lock_race`, `invalid_stuck`, `fork_seed` | `Population`; `CampaignLock` with 3 processes; `CoworkBranch`; `PopulationFork` | | findings 1 to 4 |

What the properties of the larger modules say:

- `RecoveryIsExact`: the published best is the champion the ranking gives, and
  a paused or stable campaign is accepted by `resume`, after any sequence of
  crashes, pauses and commands. `CheckpointsAreSound`: a repeated capture never
  meets a different file, and no reached milestone is missing once the next
  wave starts. `CampaignsEnd`: an evolving campaign is eventually closed and
  reported, and a closed one reported.
- `HistoryIsKept`: the evidence log and the strategy's memory are those of the
  committed generations, one line each, in order. `CandidatesKept`: what a
  commit or a pending proposal names is never archived. `AttemptsBounded`: the
  journal never holds more attempts than the policy allows, and none after a
  success or a failure that is not to be retried. `StepsDelivered`: each step the population asked for is delivered,
  unless the branch stopped or its generation is barred for good.
- `SearchIsExact`: the incumbent is the first best of the completed candidates
  on full scores, and levels follow misses. `RecordsFollowRound`: git worktree
  and evolution log agree with the stage of the round. `SealedOnce`: a
  published sealed result is the one in the ledger. `ReachesEnd`: a campaign
  whose commands are repeated is reported, unless it is in one of three states
  `Blocked` names (they are findings).
- Lock, slots and the lease of the dataset rename a directory they have found
  stale some time before. That another one has its name by then is recorded in
  history variables (`snatched`, `swept`, `seized`), and it is a finding in all
  three. `HoldersApart`, `PermitsBounded` and `ReadyIsFrozen` (in
  `PreparedIsWhole`) say that until it happens everything holds, deaths and
  takeovers included: that rename is the only way in.
- `CompleteIsMeasured`: a complete summary stands for results committed under
  the identity of the output, every task of them measured on the source named
  there, however edits, kills and resumes fall between two tasks. Excepted is a
  candidate whose source got back a version it had before; finding 17 shows
  why. `CommonBaseline`: a pack's packet agrees with its records in status and
  reward, which is what `validateFeedbackPacket` compares, and every branch
  holds the pinned pack. `AccessIsGood`: the gateway stands while it is used,
  its token is the one access gives, and nobody is given a token older than
  the one in force when it looked for rotations.

**Why these bounds.** Two branches are the fewest that compete, tie, fail one
without the other and share a remainder; three add a branch that neither wins
nor works. Budgets of three to six cover an uneven share, an exhausted floor,
a grant after a wave, a bootstrap grant and a partial last grant. Scores 0 and
1 give better, equal and worse candidates, hence every sign of a delta and
every tie; a candidate without evaluation is `NoScore`. Two faults allow a
fault during the recovery from the first one. Four generations of a Cowork
branch and four rounds of a Reasoning campaign are enough for a level change
in the middle, a promotion before and after it, and an end; three faults allow
a crash, a crash of its recovery, and an infrastructure error. Two validation
tasks allow one to be checkpointed and the other lost. Two requests, sessions,
readers, workers or processes are the fewest that race; a third is added where
one must already hold what two others claim (dataset preparers, gateway
sessions, requests of an updater); four workers let a slot work on while
another is lost. Times matter only across a fault. In the lock, attempts are
the code's four; two processes keep `ClaimsAreServed` small, and
`HoldersApart` was also checked for three (703,592 states). `operation.cfg`
lets one solver request be with the provider (`Concurrent`), because with two
requests a larger bound never denies one; with `Concurrent = 2`, where two
overlap, the run passes as well (2,472,766 states). `MCEvaluation` has
preparers that never stall, to keep the run small; `DatasetPreparation` alone
passes without stalls (54,170 states) and with them (821,413). Bounds that are not in the code: `MaxFaults`, `MaxStarts`,
`MaxLaunches`, `Launches`, `Starts`, `Rotations`, `Kills`, `Exports`, `Edits`,
`Restarts`, `MaxDowns`, `Rounds`, `Runs`, `Batches`, `CoreMax`, `OwnMax`,
`MaxSessions` and `Generations` (of the single run and the diagnostics).

**Deadlock.** Every configuration says `CHECK_DEADLOCK FALSE` because the
systems really stop: a campaign that is closed and reported, or frozen at the
baseline, has no further command; an experiment killed in the middle of a wave
is refused by `resume` by design
(`docs/updater-providers-and-checkpoints.zh.md:99`); a lock test ends with
every process released or dead; a partition is concluded; a run is over. That
a campaign, a branch, a waiting process or a stopped updater does not stop
elsewhere is what the liveness properties say.

**Fairness.** `Population`: one weak fairness condition, on `Progress`, the
disjunction of everything but a crash: a running process goes on, and the
operator issues some accepted command whenever nothing runs. Which command,
which branch and which outcome is left open, so no branch is favoured. Pauses
and failures are part of `Progress` but bounded by `MaxFaults`: liveness is
claimed only after faults cease. `CoworkBranch` and `ReasoningCampaign`: the
process goes on and is started again after its end, as a population that
resumes does; updaters may fail for ever, within their retry budget.
`CampaignLock`: each process is fair (a refused command is repeated) and a
minute eventually passes. `GlobalSlots`: operations end and processes are
scheduled; each worker wants one permit. `RunServer`: promises are resolved,
the server comes back, processes end, clients keep reading. `UpdaterWatch`:
timers and events of the runtime come about; the updater itself may run for
ever.

**Seeded faults.** Every property of a passing run is violated when one mapped
definition is replaced by a plausible wrong one: a pool that is not debited, a
tie promoted, a slot reclaimed from a living owner, a retry counted per start,
a runtime patched in place, and so on. Those wrong forms stand in the modules
just before the right ones (`GrantKeepingPool` before `Grant`); nothing else
uses them.

## 4. What is proved

Every safety invariant, every action property and every refinement that a
passing run checks is also a theorem: TLC shows it on the instance of section
3, TLAPS for every value of the constants.

**Assumptions.** Each module names what it assumes of its constants; nothing
else is assumed.
`Population`: `ConfigAssumption` (what `normalizeControllerConfig` accepts,
without its upper limits) and `PopulationAssumption` (kinds of the other
constants). `CoworkBranch` and `ReasoningCampaign`: the limits of the
configuration checks. In the composed modules most assumptions say only that
counts are counts. Those that say more:

- `DecisionAssumption`: instances are finite in number, rewards integers
  (section 6 says why that loses nothing the properties tell apart);
- `PackAssumption`, `GatewayAssumption` of `GatewayUsage`, `SuiteAssumption`,
  `DecisionAssumption`: the values that mean "absent", "half written",
  "of the whole role" or "sealed" are not measurements, trials, campaigns or
  instances;
- `SuiteAssumption`: the campaigns of a suite are distinct, and there is a
  worker;
- `SearchAssumption`: the levels are a sequence of sets of paths.

| Theorem | Module | Statement |
|---|---|---|
| `PlanExact` | `BudgetProofs` | floors and pool of the plan add up to the budget |
| `TypeCorrect` | `PopulationProofs` | `Spec => []TypeOK`; with it the pool is never negative |
| `LedgerInvariant` | | `Spec => [](TypeOK /\ LedgerInv)` |
| `WorkStaysCharged` | | `Spec => []LedgerMatchesWork` |
| `BudgetIsConserved` | | `Spec => []BudgetConserved` |
| `RecoveryStaysExact` | | `Spec => []RecoveryIsExact` |
| `NothingIsStranded` | | `Spec => []NoBudgetStranded` |
| `CheckpointsStaySound` | | `Spec => []CheckpointsAreSound` |
| `WrittenStays` | | `Spec => Durable`: files, index, closed and frozen campaigns stay |
| `ImplementsCreditLedger` | | `Spec => ImplementsLedger`: the controller refines the abstract ledger |
| `TypeCorrect` | `CoworkProofs` | `Spec => []TypeOK` |
| `HistoryStaysKept` | | `Spec => []HistoryIsKept` |
| `CandidatesStayKept` | | `Spec => []CandidatesKept` |
| `AttemptsStayBounded` | | `Spec => []AttemptsBounded` |
| `BranchIsDriver` | | `Spec => ImplementsDriver`: a Cowork branch refines `BranchDriver` |
| `TypeCorrect` | `ReasoningProofs` | `Spec => []TypeOK` |
| `SearchStaysExact` | | `Spec => []SearchIsExact` |
| `RecordsKeepFollowingRound` | | `Spec => []RecordsFollowRound` |
| `ReceiptsStaySealed` | | `Spec => []SealedOnce` |
| `CampaignIsDriver` | | `Spec => ImplementsDriver`: a Reasoning campaign refines `BranchDriver` |
| `OneHolder` | `HostProofs` | `FairSpec => []HoldersApart`, for any number of processes |
| `PermitsStayBounded` | | `FairSpec => []PermitsBounded`: no more users than slots, kills and reclaims included, until a live slot is moved away |
| `CompletedStaysTrue` | | `FairSpec => []CompletedIsTrue` |
| `PreparedStaysWhole` | `EvaluationProofs` | `Spec => []PreparedIsWhole` |
| `SamplesStayBounded` | | `Spec => []SamplesBounded`: a strict final solves no task more often than once plus its retries |
| `SummariesAreComplete` | | `Spec => []SummaryIsComplete` |
| `VerdictsStayEarned` | | `Spec => []VerdictsAreEarned` |
| `CompleteStaysMeasured` | | `Spec => []CompleteIsMeasured` |
| `FinalStaysSound` | | `Spec => []FinalIsSound` |
| `CommittedIsNeverLost` | | `Spec => CommittedStays` |
| `RunsStayWhole` | `OperationProofs` | `Spec => []RunsAreWhole` |
| `BaselineStaysCommon` | | `Spec => []CommonBaseline` |
| `SearchStaysSound` | | `Spec => []SearchIsSound` |
| `BooksBalance` | | `Spec => []GatewaysAccount` |
| `AccessStaysGood` | | `Spec => []AccessIsGood` |
| `ReportsKeepAgreeing` | | `Spec => []ReportsAgree` |
| `SuiteStaysInCharge` | | `Spec => []SuiteInCharge` |

### The population

**The argument.** `BudgetProofs` turns the sums of the code into cardinalities
of sets of credits (one pair per branch and round), so that sums need no
recursion: granting k rounds to a branch adds k credits (`CreditsGranted`),
charging the branches of a wave adds one credit for each (`CreditsCharged`),
and the floors or even shares are counted exactly (`Quotient`,
`EvenSharesAddUp`).

`LedgerMatchesWork` alone is not inductive: a process in the step "wave" would
work whatever the saved status says. `LedgerInv` adds `StatusMatchesProcess`
(which saved status each step of a process can meet, and that an open wave is
never found CLOSED, FROZEN or before the baseline) and `NeverOverspent` (nobody
is charged more than it was given, and a participant has a round left). That is
also what a crash needs, which resets the process and leaves the status:
whatever the next process reads, the ledger and the branches agree up to the
open wave's one round. `BudgetSums` (pool plus grants plus floors; counts of
grants and charges) is inductive relative to it, and gives `BudgetConserved`
with `PlanExact`. For the refinement, `AdvanceStep` maps to `Work`,
`FinishWave` to `Settle` when some branch completed a round and to a stutter when
none did, `BootstrapWave` to `Bootstrap`, `Close` to `Close`, and every other
step leaves the ledger's variables alone (`LedgerStutters`).

`RecoveryInv` says when a ledger and a branch may differ. Before the baselines
are adopted nothing is spent (`NothingSpent`); from then on the ledger's
incumbent is the branch's champion, except for a participant that is one step
ahead (`LedgerShowsChampions`). A baseline adopted in the same process needs
`BaselinesSettled` (who settled well has a baseline). For the end,
`StoppedForGood` (the ledger calls a branch stopped only if it is) turns the
guard of `Close` into `NoBudgetStranded`.

`CheckpointInv` carries the argument about captures. A file that is not yet in
the index can exist only between waves, and then its content is what another
capture would write now (`UnrecordedIsCurrent`). That holds because a wave
starts, and a campaign closes, only after a capture that left nothing due
(`NothingDueAtWork`): no file outlives the stable state it was written for.

### The two drivers

`CoworkProofs` has one inductive invariant. `Position` says what each step of
the process knows: its copy is the saved state, but for the proposal that only
a saved candidate makes permanent (`Working`), and between the appended
evidence and the save the copy is one generation ahead. `SavedSound` bounds
how far the population is behind. `JournalSound` counts attempts as they are
started, and `CandidateAtWork` says that the journal runs while an attempt
does, and that what is about to be saved or committed is a whole candidate. The
strategy of the saved state is the one a replay of the history gives
(`StrategyFollowsHistory`). A replay is a recursive function over the lengths
of the history, and that it follows an append step by step (`ReplayAppend`) is
proved by induction on that length, in a form that cites the well-founded
induction of the library for a set, not for an operator.

`ReasoningProofs` relates the saved stage to everything beside it: where the
process stands (`Position`), the worktree and the mutation of the candidate
(`Workspace`), checkpoints and summary (`Scores`), and the log, which is ahead
only by a round whose decision stands (`LogAhead`). That a level is left after
exactly the configured misses needs `MissRun`: the misses counted are the last
rejections in a row at this level, and the round before them is none.

Both refinements are proved from these invariants: initial states map to
initial states, and each step is a step of `BranchDriver` or a stutter. Only
the saved state counts, so all actions in memory and every crash stutter.

### One host

Without stalls, and until somebody moves away another directory than the one it
found stale, a process inside the critical section finds its own directory
(`OwnDirectory`), and there is only one such process (`OneOwning`). A process
about to rename has found a directory stale that is still there, with nobody
inside (`JudgedIsStale`), so its rename takes nothing from anybody. No bound on
the processes is needed; a rename of another directory ends the argument, and
finding 2 is the way it does.

The slots have the same shape (`DirectoryIsMine`, `OneInside`, `FoundIsStale`):
until a live directory is moved away, whoever is killed, the directory of a
worker inside names it or nobody, and two of them stand in different slots; the
holders map one to one into the slots. Finding 15 is the way this ends.

`ServerInv`: whoever has read, or is about to save, "completed" has it from
the state file, and that one stays completed because the process that completed
it gave up its lock.

### Evaluation

*Prepared files.* As long as nobody stalls and no lease was moved away but the
one found stale, who works has the lease and is alone (`LeaseHeld`, the argument
of the campaign lock), and once one preparer was told that the files are ready
nobody is at a step that changes them (`FilesKept`). A runtime is the candidate's own copy, or a link to an entry
that is there and is what its digest says (`RuntimesFollow`).

*Trials.* The number of samples alone is not inductive. Each was reserved in
the budget file before it was taken, the one under way included
(`SamplesReserved`), and where a task is says what its directory may hold
(`DirectoriesFollow`), so that a task with a result is not queued.
`StepsFollowScores` is the same idea for validations. For the checkpoints of a
generic algorithm, that nothing is overwritten rests on the program always
finding a free name in the model's bounded set: every launch takes one suffix
at most (`SuffixesLeft`).

*Decision.* A promotion is earned if the sum of the deltas is what the policy
asks for, and then the opposite comparison cannot promote too. Sums over sets
are recursive functions; that they exist, and that opposite deltas have
opposite sums (`SumsAreOpposite`), is an induction on the cardinality of the
sets. The verdict of an HLE task is about the last answer, which stays from the
moment the solver completed (`HleInv`).

*Sessions.* A job works under the lock of its output and as the identity named
there (`JobFollows`). A checkpointed task was measured on the version named, or
the version named is one the workspace was edited away from (`TrialsFollow`). In
the second case the second look finds another version, unless an old one came
back (`SourcesGoOn`), which `restored` records. What is committed has the
identity of the output (`ResultsOfNamed`), and a complete summary has all of it
(`SummaryOfResults`).

*Final.* At most one process is past its claim, and a recovery comes after the
normal attempt is over (`OneAtWork`, `NormalOver`). An attempt is recorded as
completed last, when report and branch say so and nobody can come past a claim
any more (`CompletedLast`).

### Operation

*A run alone* (`SingleInv`): both records lead from H0 to their champion
(`Chain`), parents are earlier candidates (`Lineage`), and every workspace a
strategy may name belongs to one (`BuiltAreCandidates`). *A fork* (`ForkInv`):
the seeds are those of one checkpoint of the parent, or none has been read.
*The pack* (`PackInv`): an export writes what it has read whole, and a branch
holds the pinned pack and leaves no step with a file half written
(`SoundBranch`).

*The search* (`SearchInv`): what is leased was valid (`PlanDecided`). That the
search widens only after its misses is an argument about the past: each open
level below the active one was left after its misses, so the outcomes that were
no promotion are at least as many as levels left times misses, plus those of
the active level (`LevelsPaidFor`).

*Gateways.* The counters are cardinalities of sets of requests
(`CountsAreCharges`, `CallsCounted`), which makes two interleaved handlers
harmless: a step moves one request from one set to another. A trial that is
closed has no open request (`TrialBooks`). A batch knows what was charged
before it, and a first reading without open requests is a reading of those for
good (`BatchBooks`); hence a complete difference is the sum of the requests
within. The updater's gateway has one firewall rule, or is poisoned
(`OneRule`). For shared access, what the gateway's object knows is what this
start created (`ObjectKnows`), who has access finds it ready (`AccessFollows`),
only the first of the chained rotations is answered, with the container's token
(`OneRotation`), and the token a session heard of when it looked is in the
container, in memory and at last in what it was given (`HeardIsGiven`).

*Reports.* A token is in the offset, in the driver's count, or was lost with
its process (`TokensAccounted`); a counter of a generation is one exactly when
that generation was saved as ended. In the event log at most one reader imports,
and it knows how many events of the run are there (`FeedInv`).

*Suites* (`SuiteInv`): a campaign is queued once or has one worker
(`OneWorkerEach`), a controller that runs is awaited by the worker of its
campaign (`ControllersAwaited`), after a signal only the announced start is left
(`Announced`), and what is completed is nobody's work (`CompletedIsOver`).

### What stays model-checked

The liveness properties `CampaignsEnd`, `BaselinePauseResumes`,
`StepsDelivered`, `ReachesEnd`, `ClaimsAreServed` and `ProcessesComeToRest`:
the prover handles neither fairness nor ENABLED. The properties that section 5
names are false, and TLC shows how.

## 5. Findings

Listed runs:

1. *A closed experiment without report* (`closed_unreported`). `#close` saves
   CLOSED before `report()` writes the files that
   `docs/controller-modes.md:75` promises at closing. An experiment killed in
   between accepts no command that would write them. The campaign command line
   can (`completion` checks it).
2. *Two holders of a campaign lock* (`lock_race`). Reclaiming renames whatever
   has the lock's name; with three processes that can be a live lock.
3. *An invalid proposal that blocks its branch* (`invalid_stuck`). The journal
   records a failure as not retryable before the rejection is saved; a crash
   between makes every later attempt throw (`updater-recovery.mjs:75`), where
   `docs/runtime-health.zh.md:39` promises the usual rejection.
4. *A fork that forgets its seed* (`fork_seed`). A branch whose baseline
   failed is made anew on resume, from the target's source.

By the extra configurations, or by checking the named property of the module:

5. *A baseline pause of a Reasoning population* (`baseline_stuck.cfg`): the
   Reasoning driver cannot finish a baseline, and its projection throws
   without one.
6. *An experiment killed at its first checkpoint* (`identity_missing.cfg`): the
   execution identity which resume demands is written after that checkpoint.
7. *A branch cut short while it closes* (`closing_stuck.cfg`): between the
   saves of CLOSING and CLOSED a Reasoning branch has a status its driver
   refuses. `CampaignsEnd` excepts this case (`CutShort`) and shows that
   there is no other.
8. *A decision logged and not saved* (`decision_lost.cfg`): the repeated
   decision has another time and the log refuses it. `MutationsAreRecorded`
   fails likewise when a dead updater had moved the workspace. Both are in
   `Blocked`, and `ReachesEnd` shows that little else is.
9. *A temporary file among checkpoints* (`CheckpointsReadable` of
    `PartitionRun`).
10. *A final nobody may recover* (`final_stuck.cfg`): a crash between the two
    records of a started attempt.
11. *A pack its own branch refuses* (`UnchangedPackResumes` of
    `BaselinePack`): records are imported in
    place, a kill leaves a part of them.
12. *Suite and finalize at once* (`OneMeasurer` of `FinalEvaluation`): the scan
    for finalize processes precedes the claim.
13. *A promoted candidate that is not champion* (`PromotedIsChampion` of
    `SingleRun`): a registry line that cannot be written.
14. *A run that stays cancelling* (`CancellingEnds` of `RunServer`).
15. *More permits than the limit* (`AlwaysBounded` of `GlobalSlots`): two
    workers reclaim the slot of one dead process; the slower one moves away
    the slot the faster has just taken.
16. *Two preparers of one dataset* (`ReadyStaysWhole` of
    `DatasetPreparation`): the lease of a dead preparer is taken over by the
    same read and later rename, and the second holder moves an output that was
    called ready to a backup.
17. *Measured on another source than named* (`MeasuredAsNamed` of
    `EvaluationSession`): the source is digested before and after a partition,
    each task reads it as it is then; an edit that is undone before the second
    look, or between a kill and the resume, is not noticed.

Smaller ones, violated and not argued at length: `RestsWithoutProcess` of
`RunServer` (a late reader saves what it found before a resume),
`OutputsOpen` of `EvaluationSession` (a kill between `mkdir` and
`identity.json` leaves an output no launch accepts), `FailedIsOver` of
`SuiteRunner` (a campaign marked FAILED for another worker's failure),
`AcceptedIsJudged` of `HleTask` (an answer of exactly the size limit passes the
extraction and is an error when it is judged).

## 6. What is left out

- `beta` is a fraction and its share exact; the program floors a product of
  floating-point numbers and may get the neighbouring value. All theorems hold
  for every beta, hence for that value's plan too.
- Scores are integers that grow with quality, as `incumbentScore` makes them;
  rates over the same tasks are counts. Bootstrap confidence bounds
  (`evaluator.mjs`) are a choice of the sign.
- Coordination contexts (peer sharing, competition feedback) are prompt text
  that does not come back into this state: "mutualism" behaves as
  "independent" here. Prompts, feedback texts and report contents are left out.
- An `inspect()` or a save that throws outside the places that catch it ends
  the command and counts as `Crash`.
- A checkpoint is its kind, branch and milestone; its content is what could
  differ between two captures: epoch, charges, incumbents, best, time. In a
  capture the order of the files is left open.
- In `Population` the misses after which a Reasoning branch ends are not
  counted: without soft layers any round that is not promoted may be the last.
  `ReasoningCampaign` counts them.
- A campaign killed before all baselines are evaluated and saved as EVOLVING or
  paused has no command that continues it; it is started anew. Liveness is
  claimed from EVOLVING on.
- Population and branches are not composed in one run: the population's
  branches take the steps `BranchDriver` allows, and the two drivers are shown
  to take no others. A retried round comes to an end by `StepsDelivered` and
  `ReachesEnd`, with the exceptions named there.
- Digests, identities and fingerprints are values that differ when what they
  digest differs. Files are what a reader can tell of them: absent, partial,
  of one content or of another.
- HTTP, container command lines, parsing of model and benchmark output,
  encryption of sealed results and file modes are left out.
- Lock, slots and the dataset's lease: one host only (another host's lock is
  always refused), and `owner.json` is written in one step. The lock of an
  evaluation session is atomic in its module; `CampaignLock` has its steps.
- The output of a dataset is frozen by removing write permission; whether a
  later rename of it succeeds is left open.
- A task of an evaluation session reads its workspace at one instant. What the
  environment keeps of it is the version it read.
- Of a baseline pack's records and packet only status and reward of a task
  count, which is all `validateFeedbackPacket` compares.
- Which results of a supervised updater are accepted is one expression over its
  exit and its stops (`Settled` of `UpdaterWatch`); no property restates it.
- The sleep between attempts and the polling intervals are not timed: a timer
  is an action that may come at any moment.
- Not modelled at all: reporting, configuration and plugins, sandbox and path
  checks, further benchmark adapters, source and candidate file handling, the
  SDK. They keep no state over time; what they decide is a choice or a value
  in the modules that use it.

## 7. Plan

Done: the core, both drivers as refinements of `BranchDriver`, lock, slots,
server, evaluation, gateways, final, fork, scripts; a theorem for every safety
invariant, action property and refinement that a passing run checks. Left, most
important first:

1. Lemmas behind liveness that are safety: that the states `Blocked`,
   `CutShort` and finding 3 name are the only ones in which a process that
   runs has no step.
2. Compositions: a wave of `Population` with one `CoworkBranch` in place of its
   projection; `RunServer` with the suite that relaunches what it finds.
3. More code: the benchmark environments beyond their trials, the report
   writers, the configuration checks.
