----------------------------- MODULE EventFeed -----------------------------
(***************************************************************************)
(* The event log of a server run (CoreEngine.event and collectEvents): the *)
(* server appends its own events, and every read first imports those of    *)
(* the run's own log that are not there yet.  Appends are serialised per   *)
(* run, and so are reads; the server may be restarted at any point.        *)
(***************************************************************************)
EXTENDS Naturals, Sequences, FiniteSets

CONSTANTS Getters,   \* concurrent GET .../events requests
          CoreMax,   \* bound on the events of the run itself
          OwnMax     \* bound on the events of the server

FeedAssumption == CoreMax \in Nat /\ OwnMax \in Nat

VARIABLES log,       \* <<number, source>>: source 0 is the server, else the core index
          core,      \* events the run has published
          sequence,  \* the cached last number, or 0 when it was not read yet
          reading,   \* reads in progress: the promise chain lets one through
          import     \* of each read: <<core events imported so far, to import>>

feedVars == <<log, core, sequence, reading, import>>

Init ==
    /\ log = <<>> /\ core = 0 /\ sequence = 0 /\ reading = {}
    /\ import = [g \in Getters |-> <<0, 0>>]

Imported == Cardinality({i \in DOMAIN log : log[i][2] # 0})
Own == Len(log) - Imported

(* The number is cached; the first append after a start reads it back.     *)
Number == (IF sequence = 0 /\ log # <<>> THEN log[Len(log)][1] ELSE sequence) + 1

Append_(source) == log' = Append(log, <<Number, source>>) /\ sequence' = Number

CorePublishes == core < CoreMax /\ core' = core + 1 /\ UNCHANGED <<log, sequence, reading, import>>
Event == Own < OwnMax /\ Append_(0) /\ UNCHANGED <<core, reading, import>>

FreeAlways == TRUE
FreeTurn == reading = {}

GetEvents(g) ==
    /\ FreeTurn /\ g \notin reading /\ reading' = reading \cup {g}
    /\ import' = [import EXCEPT ![g] = <<Imported, core>>]
    /\ UNCHANGED <<log, core, sequence>>

ImportOne(g) ==
    /\ g \in reading /\ import[g][1] < import[g][2]
    /\ Append_(import[g][1] + 1)
    /\ import' = [import EXCEPT ![g][1] = @ + 1]
    /\ UNCHANGED <<core, reading>>

Answer(g) ==
    /\ g \in reading /\ reading' = reading \ {g}
    /\ UNCHANGED <<log, core, sequence, import>>

Restart ==
    /\ sequence' = 0 /\ reading' = {}
    /\ UNCHANGED <<log, core, import>>

Next ==
    \/ CorePublishes \/ Event \/ Restart
    \/ \E g \in Getters : GetEvents(g) \/ ImportOne(g) \/ Answer(g)

Spec == Init /\ [][Next]_feedVars

-----------------------------------------------------------------------------
(* Every event keeps the number of its place, and the events of the run    *)
(* are in the log once and in their order, over restarts and concurrent    *)
(* reads.                                                                  *)
NumbersAreSteady == \A i \in 1..Len(log) : log[i][1] = i
CoreImportedOnce ==
    \A i \in 1..Len(log) : log[i][2] # 0 =>
        log[i][2] = Cardinality({j \in 1..i : log[j][2] # 0})
=============================================================================
