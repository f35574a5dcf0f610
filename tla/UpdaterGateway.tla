--------------------------- MODULE UpdaterGateway ---------------------------
(***************************************************************************)
(* The private model gateway of an updater run (model-gateway.mjs) and its *)
(* frame in the production runtime (#withGateway): start, lease of the     *)
(* firewall rule, the run, release, close.  Requests of the updater are    *)
(* served concurrently; a client may be gone at every await, and the       *)
(* updater's failure is classified by the audit record that came last.     *)
(***************************************************************************)
EXTENDS Naturals, FiniteSets

CONSTANTS Requests,      \* requests one run may send
          Concurrency,   \* maxConcurrency
          Budget,        \* maxRequests
          Runs           \* bound on the updater runs

GatewayAssumption ==
    Concurrency \in Nat \ {0} /\ Budget \in Nat \ {0} /\ Runs \in Nat

VARIABLES run, phase, poison,
          rules,     \* runs whose firewall rule may be in force
          verdict,   \* how the last run ended
          req,       \* what each request of this run waits for
          active, total,   \* the gateway's counters
          audits,    \* audit records of each request
          latest     \* latestAudit: "none", "provider" or "local"

vars == <<run, phase, poison, rules, verdict, req, active, total, audits, latest>>
served == <<req, active, total, audits, latest>>

Awaiting == {"body", "key", "upstream", "finally"}

Init ==
    /\ run = 0 /\ phase = "idle" /\ poison = FALSE /\ rules = {} /\ verdict = "none"
    /\ req = [r \in Requests |-> "unsent"] /\ active = 0 /\ total = 0
    /\ audits = [r \in Requests |-> 0] /\ latest = "none"

-----------------------------------------------------------------------------
(* Every run has a gateway of its own, on a port of its own.               *)
FreshGateway ==
    /\ req' = [r \in Requests |-> "unsent"] /\ active' = 0 /\ total' = 0
    /\ audits' = [r \in Requests |-> 0] /\ latest' = "none"

(* A run whose UID may still have an open rule is refused.                 *)
StartRun ==
    /\ phase = "idle" /\ run < Runs /\ run' = run + 1
    /\ IF poison
       THEN verdict' = "infrastructure" /\ UNCHANGED <<phase, served>>
       ELSE phase' = "starting" /\ verdict' = "none" /\ FreshGateway
    /\ UNCHANGED <<poison, rules>>

AcquireLease ==
    /\ phase = "starting" /\ phase' = "running" /\ rules' = rules \cup {run}
    /\ UNCHANGED <<run, poison, verdict, served>>

(* The lease fails; a fatal failure may have left the rule in force.       *)
LeaseFails ==
    /\ phase = "starting" /\ phase' = "closing" /\ verdict' = "infrastructure"
    /\ \/ UNCHANGED <<poison, rules>>
       \/ poison' = TRUE /\ rules' = rules \cup {run}
    /\ UNCHANGED <<run, served>>

-----------------------------------------------------------------------------
Audit(r, origin) ==
    /\ audits' = [audits EXCEPT ![r] = @ + 1]
    /\ latest' = origin

(* The total counts a request that is then refused for the concurrency.    *)
Receive(r) ==
    /\ phase = "running" /\ req[r] = "unsent"
    /\ total' = IF total < Budget THEN total + 1 ELSE total
    /\ IF total < Budget /\ active < Concurrency
       THEN /\ req' = [req EXCEPT ![r] = "body"] /\ active' = active + 1
            /\ UNCHANGED <<audits, latest>>
       ELSE /\ req' = [req EXCEPT ![r] = "over"] /\ Audit(r, "local")
            /\ UNCHANGED active
    /\ UNCHANGED <<run, phase, poison, rules, verdict>>

(* The request is over but for the audit sink, which is awaited.           *)
End(r, origin) ==
    /\ req' = [req EXCEPT ![r] = "finally"]
    /\ Audit(r, origin)
    /\ UNCHANGED <<run, phase, poison, rules, verdict, active, total>>

Proceed(r, next) ==
    /\ req' = [req EXCEPT ![r] = next]
    /\ UNCHANGED <<run, phase, poison, rules, verdict, active, total, audits, latest>>

(* The body arrives, or is too large, or its client is gone; an invalid    *)
(* one is refused.                                                         *)
ReadBody(r) ==
    /\ req[r] = "body"
    /\ Proceed(r, "key") \/ End(r, "local")

LoadKey(r) ==
    /\ req[r] = "key"
    /\ Proceed(r, "upstream") \/ End(r, "provider") \/ End(r, "local")

(* The first of these settles the request, the others find it finished:    *)
(* the answer, an error of the provider, the timeout, the client's close.  *)
Upstream(r) ==
    /\ req[r] = "upstream"
    /\ End(r, "provider") \/ End(r, "local")

Finally(r) ==
    /\ req[r] = "finally"
    /\ req' = [req EXCEPT ![r] = "over"]
    /\ active' = active - 1
    /\ UNCHANGED <<run, phase, poison, rules, verdict, total, audits, latest>>

-----------------------------------------------------------------------------
Failure == IF latest = "provider" THEN "infrastructure" ELSE "failed"

UpdaterEnds ==
    /\ phase = "running" /\ phase' = "releasing"
    /\ verdict' \in {"succeeded", Failure}
    /\ UNCHANGED <<run, poison, rules, served>>

(* A rule that cannot be confirmed removed poisons every later run.        *)
ReleaseLease ==
    /\ phase = "releasing" /\ phase' = "closing"
    /\ \/ rules' = rules \ {run} /\ UNCHANGED <<poison, verdict>>
       \/ poison' = TRUE /\ verdict' = "infrastructure" /\ rules' \in {rules, rules \ {run}}
    /\ UNCHANGED <<run, served>>

(* server.close waits for the requests that are still served.              *)
Close ==
    /\ phase = "closing" /\ \A r \in Requests : req[r] \notin Awaiting
    /\ phase' = "idle"
    /\ UNCHANGED <<run, poison, rules, verdict, served>>

Next ==
    \/ StartRun \/ AcquireLease \/ LeaseFails
    \/ \E r \in Requests : Receive(r) \/ ReadBody(r) \/ LoadKey(r) \/ Upstream(r) \/ Finally(r)
    \/ UpdaterEnds \/ ReleaseLease \/ Close

Spec == Init /\ [][Next]_vars

-----------------------------------------------------------------------------
(* Wherever a client leaves, the gateway's counters stand for the requests *)
(* it serves, both limits hold, and each request that is over was audited  *)
(* exactly once.                                                           *)
CountsAreInFlight ==
    /\ active = Cardinality({r \in Requests : req[r] \in Awaiting})
    /\ active <= Concurrency /\ total <= Budget
    /\ \A r \in Requests : audits[r] = IF req[r] \in {"finally", "over"} THEN 1 ELSE 0

(* No two runs' firewall rules for the updater's UID are in force at once: *)
(* a port that a later gateway takes was never opened for an earlier run.  *)
RulesNeverOverlap == Cardinality(rules) <= 1

=============================================================================
