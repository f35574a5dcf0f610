--------------------------- MODULE PopulationFork ---------------------------
(***************************************************************************)
(* A new population that starts from a checkpoint of another one while     *)
(* that one may still be running: preparePopulationFork reads the parent,  *)
(* the branches of the fork copy their seeds, and a fork whose baseline    *)
(* fails is resumed by a later process.  A candidate of a branch is named  *)
(* by its number; the workspace it stands for is the number, or Edited.    *)
(***************************************************************************)
EXTENDS Naturals, Sequences

CONSTANTS Branches,
          Generations,    \* bound on the parent's generations per branch
          Resumes         \* bound on the fork's resumes

ForkAssumption == Generations \in Nat /\ Resumes \in Nat

VARIABLES
    incumbent,   \* parent: the committed champion of each branch
    files,       \* parent: the checkpoint files, in order of their writing
    registered,  \* parent: how many of them state.json names
    edited,      \* parent: candidates whose workspace was changed by hand
    at,          \* the fork: "prepare", "baseline", "paused", "evolving", "refused"
    checkpoint,  \* the incumbents it starts from
    unread,      \* branches of the parent still to be verified
    seeded,      \* the fork's process holds the seeds
    root,        \* each branch's run: "absent", "partial" or "state"
    copy,        \* what the branch has copied, before state.json names it
    h0,          \* the content of H0 that state.json names
    failed,      \* branches whose initialize has failed in this process
    resumes

parentVars == <<incumbent, files, registered, edited>>
forkVars == <<at, checkpoint, unread, seeded, root, copy, h0, failed, resumes>>
vars == <<parentVars, forkVars>>

Source == 90   \* the H0 that the target's own source makes
Edited == 91
Nothing == 92

Init ==
    /\ incumbent = [b \in Branches |-> 0]
    /\ files = <<>> /\ registered = 0 /\ edited = {}
    /\ at = "prepare" /\ checkpoint = [b \in Branches |-> Nothing]
    /\ unread = Branches /\ seeded = TRUE /\ failed = {} /\ resumes = 0
    /\ root = [b \in Branches |-> "absent"]
    /\ copy = [b \in Branches |-> Nothing] /\ h0 = [b \in Branches |-> Nothing]

-----------------------------------------------------------------------------
(* The parent keeps working: a branch commits a promotion, the controller  *)
(* writes a checkpoint file, and then names it in its state.               *)
ParentPromotes(b) ==
    /\ incumbent[b] < Generations
    /\ incumbent' = [incumbent EXCEPT ![b] = @ + 1]
    /\ UNCHANGED <<files, registered, edited, forkVars>>

ParentWrites ==
    /\ Len(files) = registered /\ registered < Generations
    /\ files' = Append(files, incumbent)
    /\ UNCHANGED <<incumbent, registered, edited, forkVars>>

ParentRegisters ==
    /\ registered < Len(files) /\ registered' = registered + 1
    /\ UNCHANGED <<incumbent, files, edited, forkVars>>

(* Nobody in the program does this; the fork verifies digests against it.  *)
ParentEdited(b) ==
    /\ edited = {} /\ edited' = {<<b, incumbent[b]>>}
    /\ UNCHANGED <<incumbent, files, registered, forkVars>>

WorkspaceOf(b, n) == IF <<b, n>> \in edited THEN Edited ELSE n

-----------------------------------------------------------------------------
(* Only a checkpoint that the parent's state names is accepted.            *)
Offered == 1..registered

Select(k) ==
    /\ at = "prepare" /\ \A b \in Branches : checkpoint[b] = Nothing
    /\ k \in Offered
    /\ checkpoint' = files[k]
    /\ UNCHANGED <<parentVars, at, unread, seeded, root, copy, h0, failed, resumes>>

(* The candidate is in the branch's record, and its workspace still has    *)
(* the digest of the checkpoint.                                           *)
Verify(b) ==
    /\ at = "prepare" /\ checkpoint[b] # Nothing /\ b \in unread
    /\ unread' = unread \ {b}
    /\ at' = IF WorkspaceOf(b, checkpoint[b]) # checkpoint[b] THEN "refused"
             ELSE IF unread' = {} THEN "baseline" ELSE "prepare"
    /\ UNCHANGED <<parentVars, checkpoint, seeded, root, copy, h0, failed, resumes>>

-----------------------------------------------------------------------------
Active(b) == at = "baseline" /\ b \notin failed

(* initialize: the directory, then the preflight and the images.           *)
CreateRoot(b) ==
    /\ Active(b) /\ root[b] = "absent"
    /\ root' = [root EXCEPT ![b] = "partial"]
    /\ copy' = [copy EXCEPT ![b] = Nothing]
    /\ UNCHANGED <<parentVars, at, checkpoint, unread, seeded, h0, failed, resumes>>

Seed(b) == IF seeded THEN WorkspaceOf(b, checkpoint[b]) ELSE Source

(* materializeH0 copies the seed, or builds the target's source.           *)
CopySeed(b) ==
    /\ Active(b) /\ root[b] = "partial" /\ copy[b] = Nothing
    /\ copy' = [copy EXCEPT ![b] = Seed(b)]
    /\ UNCHANGED <<parentVars, at, checkpoint, unread, seeded, root, h0, failed, resumes>>

SeedAccepted(b) == seeded => copy[b] = checkpoint[b]

SaveState(b) ==
    /\ Active(b) /\ root[b] = "partial" /\ copy[b] # Nothing
    /\ IF SeedAccepted(b)
       THEN /\ root' = [root EXCEPT ![b] = "state"]
            /\ h0' = [h0 EXCEPT ![b] = copy[b]]
            /\ UNCHANGED failed
       ELSE failed' = failed \cup {b} /\ UNCHANGED <<root, h0>>
    /\ UNCHANGED <<parentVars, at, checkpoint, unread, seeded, copy, resumes>>

(* The preflight, an image or the baseline itself fails.                   *)
BranchFails(b) ==
    /\ Active(b) /\ root[b] # "absent" /\ failed' = failed \cup {b}
    /\ UNCHANGED <<parentVars, at, checkpoint, unread, seeded, root, copy, h0, resumes>>

(* Every branch has settled: one failure pauses the population.            *)
Settle ==
    /\ at = "baseline" /\ \A b \in Branches : b \in failed \/ root[b] = "state"
    /\ at' = IF failed = {} THEN "evolving" ELSE "paused"
    /\ UNCHANGED <<parentVars, checkpoint, unread, seeded, root, copy, h0, failed, resumes>>

(* A resume makes the drivers anew, without the seeds; a branch that has   *)
(* no state.json is archived and initialized again.                        *)
Resume ==
    /\ at = "paused" /\ resumes < Resumes /\ resumes' = resumes + 1
    /\ at' = "baseline" /\ seeded' = FALSE /\ failed' = {}
    /\ root' = [b \in Branches |-> IF root[b] = "state" THEN "state" ELSE "absent"]
    /\ UNCHANGED <<parentVars, checkpoint, unread, copy, h0>>

Next ==
    \/ ParentWrites \/ ParentRegisters \/ Settle \/ Resume
    \/ \E k \in Offered : Select(k)
    \/ \E b \in Branches :
         \/ ParentPromotes(b) \/ ParentEdited(b) \/ Verify(b)
         \/ CreateRoot(b) \/ CopySeed(b) \/ SaveState(b) \/ BranchFails(b)

Spec == Init /\ [][Next]_vars

-----------------------------------------------------------------------------
(* A branch of the fork that is seeded at all starts from exactly the      *)
(* candidate that one committed checkpoint of the parent names for it,     *)
(* while the parent goes on and whoever edits its files.                   *)
SeedsAreCheckpointed ==
    \A b \in Branches :
        h0[b] \notin {Nothing, Source} => \E k \in 1..registered : h0[b] = files[k][b]

(* Violated: what the fork is for.  A branch that failed before its        *)
(* state.json existed starts from the target's source on resume.           *)
ForkStartsFromSeed == \A b \in Branches : h0[b] \in {Nothing, checkpoint[b]}

=============================================================================
