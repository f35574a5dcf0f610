-------------------------- MODULE GatewayLifecycle --------------------------
(***************************************************************************)
(* The model gateway of a branch as its controller sees it (ModelGateway): *)
(* several sessions ask for access at once, the first of them starts the   *)
(* network and the container, one configures the role's policy, tokens are *)
(* rotated between sessions, and the branch stops the gateway when its     *)
(* sessions are over.  Docker knows the network and the container by names *)
(* that are the same in every start of the branch.                         *)
(***************************************************************************)
EXTENDS Naturals, Sequences

CONSTANTS Sessions,
          Starts,      \* bound on the starts of the gateway
          Rotations    \* bound on the rotations of the role's token

LifecycleAssumption == Starts \in Nat /\ Rotations \in Nat

VARIABLES
    session,  \* "idle", "starting", "waiting", "looked", "configuring",
              \* "using" or "done"
    starts,
    starter,  \* the start that is going on: what it does next, or "none"
    handle,   \* what the gateway object knows of: "network", "container"
    docker,   \* what exists under its names
    ready,    \* the container is connected and healthy
    policy,   \* the role's policy: in memory, and in the container
    token,    \* the role's token: in memory, and in the container
    chain,    \* the sessions whose rotations are not over, in their order
    offered,    \* the token the container has answered the first of them with
    awaits,   \* how many of the rotations each session still waits for
    heard,    \* history: the token the container took when each one looked
    held,     \* the token each session was given
    lost      \* the last rotation's answer never came

startVars == <<starts, starter, handle, docker, ready>>
tokenVars == <<token, chain, offered, lost>>
sessionVars == <<awaits, heard, held>>
vars == <<session, startVars, policy, tokenVars, sessionVars>>

Nobody == "none"
NoToken == 0

Init ==
    /\ session = [s \in Sessions |-> "idle"]
    /\ starts = 0 /\ starter = Nobody /\ handle = {} /\ docker = {} /\ ready = FALSE
    /\ policy = [memory |-> "none", container |-> "none"]
    /\ token = [memory |-> NoToken, container |-> NoToken]
    /\ chain = <<>> /\ offered = NoToken /\ lost = FALSE
    /\ awaits = [s \in Sessions |-> 0] /\ heard = [s \in Sessions |-> NoToken]
    /\ held = [s \in Sessions |-> NoToken]

-----------------------------------------------------------------------------
(* startPromise ??= start(): the sessions that come later wait for the     *)
(* same start.                                                             *)
MayStart == starter = Nobody /\ ~ready

Ask(s) ==
    /\ session[s] = "idle" /\ session' = [session EXCEPT ![s] = "starting"]
    /\ IF MayStart
       THEN starts < Starts /\ starts' = starts + 1 /\ starter' = "network"
       ELSE UNCHANGED <<starts, starter>>
    /\ UNCHANGED <<handle, docker, ready, policy, tokenVars, sessionVars>>

(* stop(): what the object knows of is removed by its name; a removal that *)
(* docker refuses counts as done.                                          *)
Removed(left) ==
    /\ left \subseteq handle
    /\ docker' = (docker \ handle) \cup left
    /\ handle' = {} /\ ready' = FALSE /\ starter' = Nobody
    /\ policy' = [memory |-> "none", container |-> "none"]
    /\ token' = [memory |-> NoToken, container |-> NoToken]
    /\ lost' = FALSE
    /\ UNCHANGED <<starts, chain, offered>>

StartFails ==
    /\ \E left \in SUBSET handle : Removed(left)
    /\ session' = [s \in Sessions |-> IF session[s] = "starting" THEN "idle" ELSE session[s]]
    /\ UNCHANGED sessionVars

(* docker run may fail with the container already created: the object does *)
(* not know of it.                                                         *)
RunFails ==
    /\ docker' = (docker \ handle) \cup {"container"}
    /\ handle' = {} /\ ready' = FALSE /\ starter' = Nobody
    /\ session' = [s \in Sessions |-> IF session[s] = "starting" THEN "idle" ELSE session[s]]
    /\ UNCHANGED <<starts, policy, tokenVars, sessionVars>>

Create(what, next) ==
    /\ starter = what
    /\ IF what \in docker THEN StartFails
       ELSE \/ /\ docker' = docker \cup {what} /\ handle' = handle \cup {what}
               /\ starter' = next
               /\ UNCHANGED <<starts, ready, session, policy, tokenVars, sessionVars>>
            \/ StartFails
            \/ what = "container" /\ RunFails

(* Connected and healthy, with the tokens this start has made.             *)
Healthy ==
    /\ starter = "health"
    /\ \/ /\ ready' = TRUE /\ starter' = Nobody
          /\ token' = [memory |-> 1, container |-> 1]
          /\ UNCHANGED <<session, starts, handle, docker, policy, chain, offered, lost, sessionVars>>
       \/ StartFails

-----------------------------------------------------------------------------
Move(s, next) == session' = [session EXCEPT ![s] = next]

(* access() looks once for a rotation of the role, and waits for the last  *)
(* one that it finds; that one's failure is its own.                       *)
Look(s) == heard' = [heard EXCEPT ![s] = IF chain = <<>> /\ lost THEN NoToken ELSE token.container]

(* the mutated form: access goes on without waiting                        *)
GoOn(s) ==
    /\ session[s] = "starting" /\ ready /\ chain # <<>> /\ Look(s)
    /\ Move(s, "looked") /\ UNCHANGED <<startVars, policy, tokenVars, awaits, held>>

Wait(s) ==
    /\ session[s] = "starting" /\ ready /\ chain # <<>> /\ Look(s)
    /\ Move(s, "waiting") /\ awaits' = [awaits EXCEPT ![s] = Len(chain)]
    /\ UNCHANGED <<startVars, policy, tokenVars, held>>

(* configureRole: the first session sends the policy, the others wait for  *)
(* its answer; a failure forgets the policy, and they fail with it.        *)
Configure(s) ==
    /\ \/ session[s] = "starting" /\ ready /\ chain = <<>> /\ Look(s)
       \/ session[s] = "looked" /\ UNCHANGED heard
    /\ Move(s, "configuring")
    /\ policy' = [policy EXCEPT !.memory = IF @ = "none" THEN "sent" ELSE @]
    /\ UNCHANGED <<startVars, tokenVars, awaits, held>>

Configured ==
    /\ policy.memory = "sent"
    /\ \/ policy' = [memory |-> "known", container |-> "known"] /\ UNCHANGED session
       \/ /\ policy' \in {[policy EXCEPT !.memory = "none"],
                          [memory |-> "none", container |-> "known"]}
          /\ session' = [s \in Sessions |->
                IF session[s] = "configuring" THEN "done" ELSE session[s]]
    /\ UNCHANGED <<startVars, tokenVars, sessionVars>>

Known == policy.memory = "known"

(* The token given is the one in memory now, whatever has rotated since.   *)
Give(s) ==
    /\ session[s] = "configuring" /\ Known
    /\ Move(s, "using") /\ held' = [held EXCEPT ![s] = token.memory]
    /\ UNCHANGED <<startVars, policy, tokenVars, awaits, heard>>

Rotates(s) == \E i \in DOMAIN chain : chain[i] = s

Leave(s) ==
    /\ session[s] = "using" /\ ~Rotates(s)
    /\ Move(s, "done") /\ held' = [held EXCEPT ![s] = NoToken]
    /\ heard' = [heard EXCEPT ![s] = NoToken]
    /\ UNCHANGED <<startVars, policy, tokenVars, awaits>>

(* rotateRoleToken: the rotations of a role form a chain.                  *)
Rotate(s) ==
    /\ session[s] = "using" /\ ~Rotates(s) /\ token.container + Len(chain) <= Rotations
    /\ chain' = Append(chain, s)
    /\ UNCHANGED <<session, startVars, policy, token, offered, lost, sessionVars>>

(* The first rotation is over, and with it the wait of those who waited    *)
(* for it: they go on, or fail as it failed.                               *)
Over(next) ==
    /\ chain' = Tail(chain) /\ offered' = NoToken
    /\ awaits' = [s \in Sessions |-> IF awaits[s] = 0 THEN 0 ELSE awaits[s] - 1]
    /\ session' = [s \in Sessions |-> IF awaits[s] = 1 THEN next ELSE session[s]]
    /\ UNCHANGED <<startVars, policy, heard, held>>

(* The container takes a new token, or refuses with requests under way.    *)
RotateInContainer ==
    /\ chain # <<>> /\ offered = NoToken
    /\ \/ /\ token' = [token EXCEPT !.container = @ + 1] /\ offered' = token.container + 1
          /\ UNCHANGED <<session, startVars, policy, chain, lost, sessionVars>>
       \/ Over("done") /\ UNCHANGED <<token, lost>>

TakeAnswer ==
    /\ chain # <<>> /\ offered # NoToken
    /\ \/ Over("looked") /\ token' = [token EXCEPT !.memory = offered] /\ lost' = FALSE
       \/ Over("done") /\ lost' = TRUE /\ UNCHANGED token

(* The branch is between two operations: nobody uses the gateway.          *)
Stop ==
    /\ ready /\ \A s \in Sessions : session[s] \in {"idle", "done"}
    /\ session' = [s \in Sessions |-> "idle"]
    /\ \E left \in SUBSET handle : Removed(left)
    /\ UNCHANGED sessionVars

Next ==
    \/ \E s \in Sessions :
         Ask(s) \/ Wait(s) \/ Configure(s) \/ Give(s) \/ Leave(s) \/ Rotate(s)
    \/ Create("network", "container") \/ Create("container", "health") \/ Healthy
    \/ Configured \/ RotateInContainer \/ TakeAnswer \/ Stop

Spec == Init /\ [][Next]_vars

-----------------------------------------------------------------------------
(* A session that was given access finds the network and the container     *)
(* that its gateway object knows of, and the role configured there.        *)
ServedWhileUsed ==
    (\E s \in Sessions : session[s] = "using") =>
        /\ ready /\ handle = {"network", "container"} /\ handle \subseteq docker
        /\ policy.container = "known"

(* Tokens: when no rotation goes on the container takes the token that the *)
(* gateway object knows, however rotations overlap, unless the answer of   *)
(* the last one was lost.                                                  *)
TokensAgree == ready /\ chain = <<>> /\ ~lost => token.memory = token.container

(* A session was not given a token that was out of date when it looked for *)
(* rotations: it has what the container took then, or a later one.         *)
GivenAfterLook == \A s \in Sessions : session[s] = "using" => held[s] >= heard[s]

AccessIsGood == ServedWhileUsed /\ TokensAgree /\ GivenAfterLook

=============================================================================
