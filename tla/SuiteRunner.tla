----------------------------- MODULE SuiteRunner -----------------------------
(***************************************************************************)
(* The scripts that run one campaign after another: the formal suite       *)
(* (run-cowork-formal32-five-mode), the small suite (run-cowork-mvp-five-  *)
(* mode) and the sequence (run-hle-population50-sequence).  Workers take   *)
(* campaigns from a queue, start a controller process for what the public  *)
(* state calls for, wait for it and look again; a signal asks the script   *)
(* to stop, and everything may be launched anew.                           *)
(***************************************************************************)
EXTENDS Naturals, Sequences, FiniteSets

CONSTANTS Campaigns,   \* a sequence of campaigns
          Workers,
          Pauses,      \* bound on the pauses of a campaign
          Launches,    \* bound on the launches of the script
          MaxResumes   \* the small suite's limit on resumes

Modes == {Campaigns[i] : i \in DOMAIN Campaigns}

SuiteAssumption ==
    /\ Pauses \in Nat /\ Launches \in Nat /\ MaxResumes \in Nat /\ Cardinality(Workers) > 0
    /\ Campaigns \in Seq(Modes) /\ "none" \notin Modes
    /\ \A i, j \in DOMAIN Campaigns : i # j => Campaigns[i] # Campaigns[j]

Styles == {"formal", "small", "sequence"}

VARIABLES
    style,
    queue,
    worker,   \* "free", "reading", "starting", "waiting", "sleeping" or "gone"
    task,     \* the campaign each worker is at
    public,   \* the status in each campaign's public/state.json
    child,    \* the campaigns whose controller process is alive
    exit,     \* how the last controller of each campaign ended
    pauses, resumes, launches,
    signalled,
    late,     \* controllers each worker started after the signal
    told      \* what the script's state file says of each campaign

vars == <<style, queue, worker, task, public, child, exit, pauses, resumes,
          launches, signalled, late, told>>

Nothing == "none"

Team == IF style = "sequence" THEN {CHOOSE w \in Workers : TRUE} ELSE Workers

Ready ==
    /\ queue = Campaigns
    /\ worker = [w \in Workers |-> IF w \in Team THEN "free" ELSE "gone"]
    /\ task = [w \in Workers |-> Nothing]
    /\ resumes = [c \in Modes |-> 0] /\ late = [w \in Workers |-> 0]
    /\ signalled = FALSE /\ told = [c \in Modes |-> "PENDING"]

Init ==
    /\ style \in Styles /\ Ready
    /\ public = [c \in Modes |-> "absent"] /\ child = {}
    /\ exit = [c \in Modes |-> 0] /\ pauses = [c \in Modes |-> 0] /\ launches = 1

-----------------------------------------------------------------------------
(* The controller process of a campaign: it pauses, closes, is refused as  *)
(* incompatible, or dies and leaves the state it was in.                   *)
Opens(c) ==
    /\ c \in child /\ public[c] # "EVOLVING"
    /\ public' = [public EXCEPT ![c] = "EVOLVING"]
    /\ UNCHANGED <<child, exit, pauses>>

Ends(c, status, code) ==
    /\ c \in child /\ child' = child \ {c}
    /\ public' = [public EXCEPT ![c] = status] /\ exit' = [exit EXCEPT ![c] = code]

Works(c) == public[c] = "EVOLVING"

Controller(c) ==
    /\ \/ Opens(c)
       \/ /\ Works(c) /\ pauses[c] < Pauses
          /\ pauses' = [pauses EXCEPT ![c] = @ + 1] /\ Ends(c, "PAUSED", 2)
       \/ Works(c) /\ Ends(c, "CLOSED", 0) /\ UNCHANGED pauses
       \/ ~Works(c) /\ Ends(c, public[c], 3) /\ UNCHANGED pauses
       \/ Ends(c, public[c], 1) /\ UNCHANGED pauses
    /\ UNCHANGED <<style, queue, worker, task, resumes, launches, signalled, late, told>>

-----------------------------------------------------------------------------
Step(w, next) == worker' = [worker EXCEPT ![w] = next]
Tell(c, what) == told' = [told EXCEPT ![c] = what]
Keeps == UNCHANGED <<style, public, exit, pauses, launches, signalled>>

\* What a worker that throws does to the script: the formal suite's main
\* fails and marks what is under way, the other workers go on; the small
\* suite notes the failure; the sequence ends.
Failed(w) ==
    /\ task' = [task EXCEPT ![w] = Nothing]
    /\ Step(w, IF style = "small" THEN "free" ELSE "gone")
    /\ told' = [c \in Modes |->
          IF c = task[w] \/ (style = "formal" /\ told[c] = "RUNNING") THEN "FAILED" ELSE told[c]]

\* assertNotInterrupted, while (shutdownSignal === null); the sequence
\* passes the signal to its child and remembers nothing.
Stops == signalled /\ style # "sequence"
Unheard == FALSE  \* the mutated form

Interrupted == Stops

Take(w) ==
    /\ worker[w] = "free"
    /\ IF queue = <<>> \/ (style = "small" /\ Interrupted)
       THEN Step(w, "gone") /\ UNCHANGED <<queue, task>>
       ELSE /\ task' = [task EXCEPT ![w] = Head(queue)] /\ queue' = Tail(queue)
            /\ Step(w, "reading")
    /\ Keeps /\ UNCHANGED <<child, resumes, late, told>>

Startable(status) == status \in {"absent", "PAUSED"}

\* nextAction; the sequence also continues what a killed controller left.
Advanceable(status) == Startable(status) \/ (style = "sequence" /\ status = "EVOLVING")

TooOften(c) == style = "small" /\ public[c] = "PAUSED" /\ resumes[c] >= MaxResumes

Look(w) ==
    LET c == task[w]
    IN /\ worker[w] = "reading"
       /\ IF Interrupted THEN Failed(w) /\ UNCHANGED resumes
          ELSE IF public[c] = "CLOSED"
          THEN /\ Step(w, "free") /\ Tell(c, "COMPLETED")
               /\ task' = [task EXCEPT ![w] = Nothing] /\ UNCHANGED resumes
          ELSE IF ~Advanceable(public[c]) \/ TooOften(c) THEN Failed(w) /\ UNCHANGED resumes
          ELSE /\ Step(w, "starting") /\ Tell(c, "RUNNING") /\ UNCHANGED task
               /\ resumes' = [resumes EXCEPT ![c] =
                     IF style = "small" /\ public[c] = "PAUSED" THEN @ + 1 ELSE @]
       /\ Keeps /\ UNCHANGED <<queue, child, late>>

\* The state file is written before the process is spawned: a signal that
\* comes between finds no child to pass it to.
Start(w) ==
    /\ worker[w] = "starting" /\ task[w] \notin child
    /\ child' = child \cup {task[w]} /\ Step(w, "waiting")
    /\ late' = [late EXCEPT ![w] = IF signalled THEN @ + 1 ELSE @]
    /\ Keeps /\ UNCHANGED <<queue, task, resumes, told>>

Ended(w) ==
    LET c == task[w]
    IN /\ worker[w] = "waiting" /\ c \notin child
       /\ IF style = "sequence"
          THEN IF exit[c] = 1 \/ exit[c] = 3 THEN Failed(w)
               ELSE Step(w, IF public[c] = "PAUSED" THEN "sleeping" ELSE "reading") /\ UNCHANGED <<task, told>>
          ELSE IF exit[c] = 3 /\ style = "formal" THEN Failed(w)
          ELSE IF public[c] = "CLOSED" THEN Step(w, "reading") /\ UNCHANGED <<task, told>>
          ELSE IF public[c] = "PAUSED"
          THEN Step(w, IF style = "formal" THEN "sleeping" ELSE "reading") /\ UNCHANGED <<task, told>>
          ELSE Failed(w)
       /\ Keeps /\ UNCHANGED <<queue, child, resumes, late>>

\* A signal ends the sleep of the formal suite.
Wake(w) ==
    /\ worker[w] = "sleeping"
    /\ IF Interrupted THEN Failed(w) ELSE Step(w, "reading") /\ UNCHANGED <<task, told>>
    /\ Keeps /\ UNCHANGED <<queue, child, resumes, late>>

-----------------------------------------------------------------------------
\* The children that are alive are sent the signal; they end by Controller.
Signal ==
    /\ ~signalled /\ signalled' = TRUE
    /\ UNCHANGED <<style, queue, worker, task, public, child, exit, pauses, resumes,
                   launches, late, told>>

\* The script ends when nothing keeps it alive, and may be launched again;
\* the small suite's next launch makes new campaigns.
Relaunch ==
    /\ \A w \in Workers : worker[w] = "gone"
    /\ child = {} /\ style # "small"
    /\ launches < Launches /\ launches' = launches + 1
    /\ queue' = Campaigns
    /\ worker' = [w \in Workers |-> IF w \in Team THEN "free" ELSE "gone"]
    /\ task' = [w \in Workers |-> Nothing]
    /\ resumes' = [c \in Modes |-> 0] /\ late' = [w \in Workers |-> 0]
    /\ signalled' = FALSE /\ told' = [c \in Modes |-> "PENDING"]
    /\ UNCHANGED <<style, public, child, exit, pauses>>

Script(w) == Take(w) \/ Look(w) \/ Start(w) \/ Ended(w) \/ Wake(w)

Next ==
    \/ \E w \in Workers : Script(w)
    \/ \E c \in Modes : Controller(c)
    \/ Signal \/ Relaunch

Spec == Init /\ [][Next]_vars

-----------------------------------------------------------------------------
(* A campaign that a killed controller left EVOLVING is never started      *)
(* again by a suite: whether something still writes it is for a person to  *)
(* say.  (The reading and the start are two steps.)                        *)
NeverOverAWriter ==
    \A w \in Workers : worker[w] = "starting" /\ style # "sequence" =>
        public[task[w]] \in {"absent", "PAUSED"}

\* After a signal a worker of a suite starts at most the one controller it
\* had already announced, and each controller has its worker waiting.
SignalStops ==
    /\ style # "sequence" => \A w \in Workers : late[w] <= 1
    /\ \A c \in child : \E w \in Workers : worker[w] = "waiting" /\ task[w] = c

\* What the state file calls completed is closed.
CompletedIsClosed == \A c \in Modes : told[c] = "COMPLETED" => public[c] = "CLOSED"

SuiteInCharge == NeverOverAWriter /\ SignalStops /\ CompletedIsClosed

\* Holds not: another worker's failure marks a campaign as FAILED while its
\* controller is at work.
FailedIsOver == \A c \in Modes : told[c] = "FAILED" => c \notin child
=============================================================================
