---------------------------- MODULE RuntimeCache ----------------------------
(***************************************************************************)
(* buildCandidate (controller/src/production-runtime.mjs).  Campaigns keep *)
(* their candidates' runtimes in a content-addressed cache they share.     *)
(* runtimes/<candidate> is a link into it, or, for a slim candidate, a     *)
(* hard-linked clone of the baseline's entry whose modified files were     *)
(* replaced.  A digest stands for the files it is the digest of.           *)
(***************************************************************************)
EXTENDS Naturals

CONSTANTS Campaigns, Candidates, Baseline,
          DigestOf,  \* [Candidates -> digests], the same in every campaign
          SlimOf     \* candidates that only modify files hot patching takes

CacheAssumption == Baseline \in Candidates /\ SlimOf \subseteq Candidates \ {Baseline}

VARIABLES at,        \* [campaign -> what it does and with which candidate]
          built,     \* baselineBuilt, in memory
          entry,     \* [digest -> the files in the cache entry]
          runtime    \* [campaign -> [candidate -> link, own files, or none]]

cacheVars == <<at, built, entry, runtime>>

Digests == {DigestOf[x] : x \in Candidates}
None == "none"
Link(d) == [kind |-> "link", files |-> d]
Own(d) == [kind |-> "own", files |-> d]
Absent == [kind |-> "absent", files |-> None]
Doing(s, x) == [step |-> s, candidate |-> x]

Init ==
    /\ at = [c \in Campaigns |-> Doing("idle", Baseline)]
    /\ built = [c \in Campaigns |-> FALSE]
    /\ entry = [d \in Digests |-> None]
    /\ runtime = [c \in Campaigns |-> [x \in Candidates |-> Absent]]

Candidate(c) == at[c].candidate
Digest(c) == DigestOf[Candidate(c)]
Now(c, s) == at[c].step = s
Goto(c, s) == at' = [at EXCEPT ![c].step = s]
Set(c, x, r) == runtime' = [runtime EXCEPT ![c][x] = r]
BaselineIs(c) == built' = [built EXCEPT ![c] = @ \/ Candidate(c) = Baseline]

Build(c, x) ==
    /\ Now(c, "idle") /\ at' = [at EXCEPT ![c] = Doing("look", x)]
    /\ UNCHANGED <<built, entry, runtime>>

MaySlim(c) ==
    /\ Candidate(c) \in SlimOf /\ built[c]
    /\ runtime[c][Baseline].kind = "link"

Look(c) ==
    /\ Now(c, "look")
    /\ Goto(c, IF entry[Digest(c)] # None THEN "unlink"
               ELSE IF MaySlim(c) THEN "clone" ELSE "compile")
    /\ UNCHANGED <<built, entry, runtime>>

(* The clone shares the inodes of the baseline's entry, and every patch is *)
(* a new file renamed over the old name.  What had the candidate's name is *)
(* removed first.                                                          *)
PatchedInPlace(c) == [entry EXCEPT ![DigestOf[Baseline]] = Digest(c)]
Patched(c) == entry
Clone(c) ==
    /\ Now(c, "clone")
    /\ entry' = Patched(c)
    /\ \E r \in {Own(Digest(c)), Absent} : Set(c, Candidate(c), r)
    /\ Goto(c, "idle") /\ UNCHANGED built

(* Install, host build, freeze and source smoke: the candidate may fail    *)
(* one, or the infrastructure; the temporary tree is removed.  What there  *)
(* was under the candidate's name is gone in any case.                     *)
Compile(c) ==
    /\ Now(c, "compile")
    /\ Set(c, Candidate(c), Absent)
    /\ \E s \in {"publish", "idle"} : Goto(c, s)
    /\ UNCHANGED <<built, entry>>

(* rename(2) does not replace a directory with files in it: who is second  *)
(* drops its own tree and proves the one that is there.                    *)
Published(c) == IF entry[Digest(c)] = None THEN Digest(c) ELSE entry[Digest(c)]
Publish(c) ==
    /\ Now(c, "publish")
    /\ entry' = [entry EXCEPT ![Digest(c)] = Published(c)]
    /\ Goto(c, "unlink") /\ UNCHANGED <<built, runtime>>

Unlink(c) ==
    /\ Now(c, "unlink") /\ Set(c, Candidate(c), Absent)
    /\ Goto(c, "link") /\ UNCHANGED <<built, entry>>

Activate(c) ==
    /\ Now(c, "link") /\ Set(c, Candidate(c), Link(Digest(c)))
    /\ BaselineIs(c) /\ Goto(c, "idle") /\ UNCHANGED entry

Kill(c) ==
    /\ at' = [at EXCEPT ![c] = Doing("idle", Baseline)]
    /\ built' = [built EXCEPT ![c] = FALSE] /\ UNCHANGED <<entry, runtime>>

(* The smoke test of a restarted campaign finds the baseline it has built. *)
Inspect(c) ==
    /\ Now(c, "idle") /\ runtime[c][Baseline] # Absent
    /\ built' = [built EXCEPT ![c] = TRUE] /\ UNCHANGED <<at, entry, runtime>>

Next ==
    \E c \in Campaigns :
       \/ \E x \in Candidates : Build(c, x)
       \/ Look(c) \/ Clone(c) \/ Compile(c) \/ Publish(c) \/ Unlink(c)
       \/ Activate(c) \/ Kill(c) \/ Inspect(c)

Spec == Init /\ [][Next]_cacheVars

-----------------------------------------------------------------------------
(* Whatever other campaigns build or patch, the runtime evaluated under a  *)
(* candidate's name has that candidate's files.                            *)
Files(r) == IF r.kind = "link" THEN entry[r.files] ELSE r.files
RuntimeIsCandidate ==
    \A c \in Campaigns, x \in Candidates :
       runtime[c][x] # Absent => Files(runtime[c][x]) = DigestOf[x]
=============================================================================
