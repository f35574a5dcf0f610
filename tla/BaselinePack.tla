---------------------------- MODULE BaselinePack ----------------------------
(***************************************************************************)
(* The common baseline of several Cowork runs                              *)
(* (controller/src/baseline-pack.mjs with the branch driver of             *)
(* cowork-orchestrator.mjs).  An export takes the measurements of the      *)
(* unmodified harness out of a run that may be going on; an experiment     *)
(* fixes the digest of the pack, and every branch imports the measurements *)
(* instead of making them.  Exporter and branches may be killed anywhere,  *)
(* a branch comes back in a new process and imports again.                 *)
(***************************************************************************)
EXTENDS Naturals

CONSTANTS Branches,
          Outcomes,   \* statuses and rewards a partition can have; what else
                      \* a measurement leaves behind is not told apart
          Rounds,     \* first rounds the source run starts
          Exports, Kills

PackAssumption ==
    /\ Rounds \in Nat /\ Exports \in Nat /\ Kills \in Nat
    /\ "none" \notin Outcomes /\ "partial" \notin Outcomes

VARIABLES partition,             \* decision partition of the policy
          evaluation,            \* state.json of the source: score of h0
          records, packet,       \* first round's feedback: records and packet
          rounds,
          export, read, exports, \* exporter: its place, what it has read
          pack,                  \* the file of the pack
          pinned,                \* the content whose digest the experiment fixes
          at, file,              \* branches: their place and their result files
          held, opened,          \* pack in memory, a result file is open
          kills

source == <<evaluation, records, packet, rounds>>
exporter == <<export, read, exports, pack>>
importers == <<at, file, held, opened, kills>>
packVars == <<partition, source, exporter, pinned, importers>>

None == "none"
Partial == "partial"
Nothing == [decision |-> None, records |-> None, packet |-> None]
Torn == [decision |-> Partial, records |-> Partial, packet |-> Partial]
WholePack == pack \notin {Nothing, Torn}
Empty == [first |-> None, feedback |-> None, paired |-> None]

Init ==
    /\ partition \in {"feedback", "selection"}
    /\ evaluation = None /\ records = None /\ packet = None /\ rounds = 0
    /\ export = "idle" /\ read = Nothing /\ exports = 0 /\ pack = Nothing
    /\ pinned = Nothing
    /\ at = [b \in Branches |-> "new"] /\ file = [b \in Branches |-> Empty]
    /\ held = [b \in Branches |-> Nothing]
    /\ opened = [b \in Branches |-> FALSE] /\ kills = 0

-----------------------------------------------------------------------------
(* The source run: its baseline, then the records and the packet of its    *)
(* first round.  When it is restored the round's files are archived, the   *)
(* packet before the records, and measured again.                          *)
MeasureBaseline ==
    /\ evaluation = None /\ evaluation' \in Outcomes
    /\ UNCHANGED <<partition, records, packet, rounds, exporter, pinned, importers>>

MeasureFeedback ==
    /\ evaluation # None /\ records = None /\ packet = None /\ rounds < Rounds
    /\ rounds' = rounds + 1 /\ records' \in Outcomes
    /\ UNCHANGED <<partition, evaluation, packet, exporter, pinned, importers>>

WritePacket ==
    /\ records # None /\ packet = None /\ packet' = records
    /\ UNCHANGED <<partition, evaluation, records, rounds, exporter, pinned, importers>>

Archive ==
    /\ records # None
    /\ \/ packet # None /\ packet' = None /\ UNCHANGED records
       \/ packet = None /\ records' = None /\ UNCHANGED packet
    /\ UNCHANGED <<partition, evaluation, rounds, exporter, pinned, importers>>

-----------------------------------------------------------------------------
Exporting(from, to) == export = from /\ export' = to
Outside == UNCHANGED <<partition, source, pinned, importers>>

(* The state must know the baseline's score before anything is read.       *)
ReadBaseline ==
    /\ Exporting("idle", "check") /\ evaluation # None /\ exports < Exports
    /\ exports' = exports + 1 /\ read' = [Nothing EXCEPT !.decision = evaluation]
    /\ UNCHANGED pack /\ Outside

(* Records and packet of the first round are there both or neither.        *)
Half == (records # None) # (packet # None)

(* Without them a decision on the feedback partition stands in for both.   *)
CheckFeedback ==
    /\ IF Half \/ (records = None /\ partition = "selection")
       THEN Exporting("check", "idle") /\ UNCHANGED read
       ELSE IF records # None THEN Exporting("check", "records") /\ UNCHANGED read
       ELSE /\ Exporting("check", "verify")
            /\ read' = [read EXCEPT !.records = read.decision, !.packet = read.decision]
    /\ UNCHANGED <<exports, pack>> /\ Outside

ReadRecords ==
    /\ IF records = None THEN Exporting("records", "idle") ELSE Exporting("records", "packet")
    /\ read' = [read EXCEPT !.records = records]
    /\ UNCHANGED <<exports, pack>> /\ Outside

ReadPacket ==
    /\ IF packet = None THEN Exporting("packet", "idle") ELSE Exporting("packet", "verify")
    /\ read' = [read EXCEPT !.packet = packet]
    /\ UNCHANGED <<exports, pack>> /\ Outside

(* createBaselinePackDocument: the packet must report the status and the   *)
(* reward that each record has.                                            *)
SoundAnyway(content) == TRUE
Sound(content) == content.packet = content.records

(* exclusiveJson never replaces a pack; a kill leaves a part of it.        *)
OpenPack ==
    /\ IF Sound(read) /\ pack = Nothing
       THEN Exporting("verify", "write") /\ pack' = Torn
       ELSE Exporting("verify", "idle") /\ UNCHANGED pack
    /\ UNCHANGED <<read, exports>> /\ Outside

WritePack ==
    /\ Exporting("write", "idle") /\ pack' = read
    /\ UNCHANGED <<read, exports>> /\ Outside

KillExport ==
    /\ export # "idle" /\ export' = "idle"
    /\ UNCHANGED <<read, exports, pack>> /\ Outside

(* The user fixes the digest in the experiment, or removes a pack.         *)
Pin ==
    /\ WholePack /\ pinned = Nothing /\ pinned' = pack
    /\ UNCHANGED <<partition, source, exporter, importers>>

Remove ==
    /\ pack # Nothing /\ export # "write" /\ pack' = Nothing
    /\ UNCHANGED <<partition, source, export, read, exports, pinned, importers>>

-----------------------------------------------------------------------------
Loaded == WholePack /\ pack = pinned

Moved(b, to) == at' = [at EXCEPT ![b] = to]
Elsewhere == UNCHANGED <<partition, source, exporter, pinned>>

(* initialize and restore load the pack before they import anything and    *)
(* keep its content from then on.  A pack of other content, or none, is    *)
(* refused.                                                                *)
Load(b) ==
    IF Loaded THEN held' = [held EXCEPT ![b] = pack] /\ Moved(b, IF at[b] = "new" THEN "first" ELSE at[b])
    ELSE Moved(b, "refused") /\ UNCHANGED held

Initialize(b) ==
    /\ pinned # Nothing /\ at[b] = "new" /\ Load(b)
    /\ UNCHANGED <<file, opened, kills>> /\ Elsewhere

(* A restored branch without a proposal archives the round's files and     *)
(* starts the round again; with one only the comparison is left.           *)
Restore(b) ==
    /\ held[b] = Nothing /\ at[b] \notin {"new", "refused", "done"} /\ Load(b)
    /\ file' = IF Loaded /\ at[b] = "feedback"
               THEN [file EXCEPT ![b].feedback = None] ELSE file
    /\ UNCHANGED <<opened, kills>> /\ Elsewhere

Part(b) == IF at[b] = "feedback" THEN held[b].records ELSE held[b].decision
Following(b) ==
    IF at[b] = "first" THEN "feedback" ELSE IF at[b] = "feedback" THEN "propose" ELSE "done"
Importing(b) == held[b] # Nothing /\ at[b] \in {"first", "feedback", "paired"}

(* writeImportedRecords: what is there already must be the very same.      *)
Same(current, expected) == current = expected

Open(b) ==
    /\ Importing(b) /\ ~opened[b]
    /\ IF file[b][at[b]] = None
       THEN /\ file' = [file EXCEPT ![b][at[b]] = Partial]
            /\ opened' = [opened EXCEPT ![b] = TRUE] /\ UNCHANGED at
       ELSE /\ Moved(b, IF Same(file[b][at[b]], Part(b)) THEN Following(b) ELSE "refused")
            /\ UNCHANGED <<file, opened>>
    /\ UNCHANGED <<held, kills>> /\ Elsewhere

Write(b) ==
    /\ opened[b] /\ opened' = [opened EXCEPT ![b] = FALSE]
    /\ file' = [file EXCEPT ![b][at[b]] = Part(b)]
    /\ Moved(b, Following(b))
    /\ UNCHANGED <<held, kills>> /\ Elsewhere

(* The updater's proposal is put in flight, then the baseline's decision   *)
(* records are imported for the comparison; with the feedback partition    *)
(* they are the round's own.                                               *)
Propose(b) ==
    /\ held[b] # Nothing /\ at[b] = "propose"
    /\ Moved(b, IF partition = "feedback" THEN "done" ELSE "paired")
    /\ UNCHANGED <<file, held, opened, kills>> /\ Elsewhere

Kill(b) ==
    /\ kills < Kills /\ kills' = kills + 1
    /\ held[b] # Nothing /\ at[b] \notin {"refused", "done"}
    /\ Moved(b, IF at[b] = "propose" THEN "feedback" ELSE at[b])
    /\ held' = [held EXCEPT ![b] = Nothing] /\ opened' = [opened EXCEPT ![b] = FALSE]
    /\ UNCHANGED file /\ Elsewhere

Next ==
    \/ MeasureBaseline \/ MeasureFeedback \/ WritePacket \/ Archive
    \/ ReadBaseline \/ CheckFeedback \/ ReadRecords \/ ReadPacket
    \/ OpenPack \/ WritePack \/ KillExport \/ Pin \/ Remove
    \/ \E b \in Branches :
         Initialize(b) \/ Restore(b) \/ Open(b) \/ Write(b) \/ Propose(b) \/ Kill(b)

Spec == Init /\ [][Next]_packVars

-----------------------------------------------------------------------------
HeldIsPinned == \A b \in Branches : held[b] \in {Nothing, pinned}
ImportsArePinned ==
    \A b \in Branches :
      /\ file[b].first \in {None, Partial, pinned.decision}
      /\ file[b].feedback \in {None, Partial, pinned.records}
      /\ file[b].paired \in {None, Partial, pinned.decision}

(* A round of a branch is decided on whole result files only.              *)
DecidedOnWhole ==
    \A b \in Branches :
      /\ at[b] \in {"feedback", "propose", "paired", "done"} => file[b].first # Partial
      /\ at[b] \in {"propose", "paired", "done"} => file[b].feedback # Partial
      /\ at[b] = "done" => file[b].paired # Partial

(* The packet of a pack tells the statuses and rewards of its records, even*)
(* when the source run was restored and measured again during the export   *)
(* (two measurements with the same outcome are the same to the code).      *)
PacketTellsRecords ==
    WholePack => pack.packet = pack.records

(* However often packs are exported and replaced and branches are killed   *)
(* and restored, all branches of an experiment start from the one pack     *)
(* whose digest the experiment fixes.                                      *)
CommonBaseline ==
    HeldIsPinned /\ ImportsArePinned /\ DecidedOnWhole /\ PacketTellsRecords

(* A branch that was killed can be restored as long as the pack is there   *)
(* unchanged (docs/baseline-pack.zh.md: only another identity stops it).   *)
UnchangedPackResumes ==
    [][\A b \in Branches : at[b] # "refused" /\ at'[b] = "refused" => pack # pinned]_packVars
=============================================================================
