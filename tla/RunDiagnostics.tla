--------------------------- MODULE RunDiagnostics ---------------------------
(***************************************************************************)
(* The diagnostics a run keeps inside its own state file                   *)
(* (createRunDiagnostics): tokens, generations, task observations, updater *)
(* failures and the durations the updater's time limit is computed from.   *)
(* They are saved with every state, restored by the next process, and the  *)
(* reports beside state.json are projections of them.                      *)
(***************************************************************************)
EXTENDS Integers, Sequences, FiniteSetsExt

CONSTANTS Tasks,
          Sides,        \* the candidates observed in a generation
          Generations,  \* bound on the generations
          Tokens,       \* bound on the calls that spend a token
          Restarts,     \* bound on the restarts
          Kept          \* entries of the updater's history (50 in the code)

DiagnosticsAssumption ==
    /\ Generations \in Nat /\ Tokens \in Nat /\ Restarts \in Nat
    /\ Kept \in Nat \ {0}

Roles == {"solver", "updater"}

VARIABLES
    driver,    \* tokens of this process and whether all of them are known
    offset,    \* what the restored snapshot had, read once
    memory,    \* the diagnostics in memory
    ended,     \* generations in the run's history, in memory
    saved,     \* state.json: the history's length and the diagnostics
    restarts,
    used, kept, lost \* tokens ever spent, those of them saved, and those a
                     \* killed process had not saved

vars == <<driver, offset, memory, ended, saved, restarts, used, kept, lost>>

NoUsage == [r \in Roles |-> [tokens |-> 0, complete |-> TRUE]]
Fresh == [usage |-> NoUsage, recorded |-> [g \in 1 .. Generations |-> 0],
          seen |-> {}, bad |-> {}, durations |-> <<>>]

Init ==
    /\ driver = NoUsage /\ offset = NoUsage /\ memory = Fresh /\ ended = 0
    /\ saved = [ended |-> 0, diagnostics |-> Fresh]
    /\ restarts = 0
    /\ used = [r \in Roles |-> 0] /\ kept = used /\ lost = used

Elsewhere == UNCHANGED <<offset, ended, saved, restarts, kept, lost>>

-----------------------------------------------------------------------------
\* A call of the role: one token, or one whose count is only partly known.
Spent(r, complete) ==
    /\ used["solver"] + used["updater"] < Tokens
    /\ used' = [used EXCEPT ![r] = @ + 1]
    /\ driver' = [driver EXCEPT ![r] = [tokens |-> @.tokens + 1,
                                        complete |-> @.complete /\ complete]]

Solve(complete) == Spent("solver", complete) /\ UNCHANGED memory /\ Elsewhere

\* calculateUpdaterTimeout, in units of five minutes: the base limit of the
\* level, or 1.5 times the 95th percentile of the successful durations.
Successful == {memory.durations[i].took : i \in {k \in DOMAIN memory.durations :
                                                    memory.durations[k].ok}}
Limit(base) ==
    LET wanted == IF Successful = {} THEN base
                  ELSE Max({base, (Max(Successful) * 3) \div 2})
    IN Max({1, Min({12, wanted})})

Shifted(durations) ==
    IF Len(durations) > Kept THEN Tail(durations) ELSE durations

\* An attempt of the updater succeeds within its limit, or fails at it.
Update(took) ==
    /\ Spent("updater", TRUE)
    /\ memory' = [memory EXCEPT !.durations =
          Shifted(Append(@, [took |-> took, ok |-> took < Limit(6)]))]
    /\ Elsewhere

-----------------------------------------------------------------------------
\* observeRecords: one observation for a key, the later one replaces.
Observe(side, t, isBad) ==
    LET key == <<ended + 1, side, t>>
    IN /\ ended < Generations
       /\ memory' = [memory EXCEPT !.seen = @ \cup {key},
             !.bad = IF isBad THEN @ \cup {key} ELSE @ \ {key}]
       /\ UNCHANGED <<driver, used>> /\ Elsewhere

\* A generation enters the history; the branch driver records it at once,
\* the single run leaves it to persist().
End(atOnce) ==
    /\ ended < Generations /\ ended' = ended + 1
    /\ memory' = IF atOnce THEN [memory EXCEPT !.recorded[ended + 1] = @ + 1] ELSE memory
    /\ UNCHANGED <<driver, offset, saved, restarts, used, kept, lost>>

-----------------------------------------------------------------------------
(* persist(): usage is the offset plus the driver's count, the generations *)
(* of the history that are not recorded yet are, then state.json is        *)
(* replaced; the reports written after it are projections of it.           *)
Total(r) == [tokens |-> offset[r].tokens + driver[r].tokens,
             complete |-> offset[r].complete /\ driver[r].complete]

Unrecorded == {g \in 1 .. ended : memory.recorded[g] = 0}

Current ==
    [memory EXCEPT !.usage = [r \in Roles |-> Total(r)],
                   !.recorded = [g \in 1 .. Generations |-> IF g \in Unrecorded THEN @[g] + 1 ELSE @[g]]]

Persist ==
    /\ memory' = Current
    /\ saved' = [ended |-> ended, diagnostics |-> Current]
    /\ kept' = [r \in Roles |-> used[r] - lost[r]]
    /\ UNCHANGED <<driver, offset, ended, restarts, used, lost>>

\* The process is killed and another one restores the saved state; a
\* history of durations that is too long is refused.
Restorable(diagnostics) == Len(diagnostics.durations) <= Kept

Restart ==
    /\ restarts < Restarts /\ restarts' = restarts + 1
    /\ Restorable(saved.diagnostics)
    /\ memory' = saved.diagnostics /\ ended' = saved.ended
    /\ offset' = saved.diagnostics.usage /\ driver' = NoUsage
    /\ lost' = [r \in Roles |-> used[r] - kept[r]]
    /\ UNCHANGED <<saved, used, kept>>

Next ==
    \/ \E complete \in BOOLEAN : Solve(complete)
    \/ \E took \in {1, 9} : Update(took)
    \/ \E side \in Sides, t \in Tasks, isBad \in BOOLEAN : Observe(side, t, isBad)
    \/ \E atOnce \in BOOLEAN : End(atOnce)
    \/ Persist \/ Restart

Spec == Init /\ [][Next]_vars

-----------------------------------------------------------------------------
(* createTaskFailureTracker: the trends over the observed generations.     *)
SeenIn(d, g) == {k[3] : k \in {key \in d.seen : key[1] = g}}
BadIn(d, g) == {k[3] : k \in {key \in d.bad : key[1] = g}}

ObservedGenerations(d) == {k[1] : k \in d.seen}

AlwaysFailing(d) ==
    IF d.bad = {} THEN {}
    ELSE {t \in Tasks : \A g \in ObservedGenerations(d) : t \in BadIn(d, g)}

NewlyFailing(d) ==
    IF d.bad = {} THEN {}
    ELSE LET first == Min(ObservedGenerations(d)) last == Max(ObservedGenerations(d))
         IN {t \in BadIn(d, last) : t \notin BadIn(d, first) /\ t \in SeenIn(d, first)}

Improved(d) ==
    IF d.bad = {} THEN {}
    ELSE LET first == Min(ObservedGenerations(d)) last == Max(ObservedGenerations(d))
         IN {t \in BadIn(d, first) : t \notin BadIn(d, last) /\ t \in SeenIn(d, last)}

-----------------------------------------------------------------------------
(* The saved totals are the tokens spent until the last save, less those   *)
(* of processes killed before they had saved them: neither a save nor a    *)
(* restart counts a token twice or forgets one.                            *)
TokensCountedOnce ==
    \A r \in Roles : saved.diagnostics.usage[r].tokens = kept[r]

\* Every generation of the saved history is counted exactly once, recorded
\* at once or by the save, and no generation that is not in it.
GenerationsCountedOnce ==
    \A g \in 1 .. Generations :
        saved.diagnostics.recorded[g] = IF g <= saved.ended THEN 1 ELSE 0

\* What the run saves, its next process restores.
SavedIsRestorable == Restorable(saved.diagnostics)

(* No task is reported as failing for ever that was observed without a     *)
(* failure in some generation, nor as better or worse when the generation  *)
(* it is compared with did not run it.                                     *)
TrendsAreObserved ==
    LET d == saved.diagnostics
    IN /\ \A t \in AlwaysFailing(d), g \in 1 .. Generations :
             t \in SeenIn(d, g) => t \in BadIn(d, g)
       /\ \A t \in NewlyFailing(d) \cup Improved(d) :
             \A g \in {Min(ObservedGenerations(d)), Max(ObservedGenerations(d))} : t \in SeenIn(d, g)

DiagnosticsAgree ==
    TokensCountedOnce /\ GenerationsCountedOnce /\ SavedIsRestorable /\ TrendsAreObserved
=============================================================================
