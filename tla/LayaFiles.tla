------------------------------ MODULE LayaFiles ------------------------------
(***************************************************************************)
(* The model's files on disk (src-tauri/src/services/model_manager.rs):    *)
(* ensure, under the manager's lock, verifies them against the manifest    *)
(* of checksums and downloads what is missing; load_session verifies them  *)
(* too, without that lock.  Downloads fail, files rot, the hub moves on,   *)
(* and the process dies between any two steps.                             *)
(***************************************************************************)
EXTENDS Naturals, Sequences, SequencesExt

CONSTANTS
  Artifacts,    \* ARTIFACTS, in their order
  Hashed,       \* the files whose checksum the hub tells
  MaxFaults    \* bound: failed downloads, rot, hub changes and deaths

VARIABLES
  file,       \* per artifact: "none", "part", "bad", or the version it holds
  manifest,   \* checksums.json: empty, or the version of each file
  torn,       \* checksums.json was cut off as it was written, and does not parse
  hub,        \* the version the hub has
  engine,     \* the manager's status
  mgr,        \* ensure or the start: where it is, for which verification, hub
              \* hashes, what it saw of the files, place in the list, attempt
  reader,     \* load_session: where it is and what it saw
  fellBack,   \* history: a rename failed and the file was copied in place
  disturbed,  \* history: a fault since ensure began
  failures,   \* history: failures of ensure in a row without a fault, up to 2
  faults

filesVars == <<file, manifest, torn, hub, engine, mgr, reader, fellBack, disturbed, failures, faults>>

File == ToSet(Artifacts)

ASSUME FilesConstants == Artifacts \in Seq(File) /\ Hashed \subseteq File /\ MaxFaults \in Nat

Version == {"old", "new"}
Present == \A f \in File : file[f] # "none"
NoHashes == << >>
Idle == [pc |-> "idle", stage |-> "first", hashes |-> NoHashes, saw |-> << >>, at |-> 1, attempt |-> 1]
Start == [Idle EXCEPT !.pc = "hash", !.stage = "start"]

FilesInit ==
  /\ file \in [File -> {"none", "bad", "old"}]
  /\ manifest = NoHashes /\ torn = FALSE
  /\ hub = "old"
  /\ engine = "downloading" /\ mgr = Start
  /\ reader = [pc |-> "idle", saw |-> << >>]
  /\ fellBack = FALSE /\ disturbed = FALSE /\ failures = 0 /\ faults = 0

Fault ==
  /\ faults < MaxFaults /\ faults' = faults + 1
  /\ disturbed' = TRUE /\ failures' = 0
NoFault == UNCHANGED <<faults, disturbed, failures>>

-----------------------------------------------------------------------------
(* verify_dir: all files are hashed, then compared with the manifest or,   *)
(* where there is none yet, with the hub's hashes; what differs is deleted *)
(* and what agrees becomes the manifest.  One that does not parse fails    *)
(* every verification, and nothing replaces it.                            *)

Expected(hashes) == IF manifest # NoHashes THEN manifest ELSE hashes
Differing(saw, hashes) == {f \in DOMAIN Expected(hashes) : Expected(hashes)[f] # saw[f]}
Verified(saw, hashes) == ~torn /\ Differing(saw, hashes) = {}
Writes(saw, hashes) == Verified(saw, hashes) /\ manifest = NoHashes

(* Mutant of Deleted: what differs is left for the download to replace.    *)
DeletedNone(F) == UNCHANGED file
Deleted(F) == file' = [f \in File |-> IF f \in F THEN "none" ELSE file[f]]
Compare(saw, hashes) ==
  /\ Deleted(IF torn THEN {} ELSE Differing(saw, hashes))
  /\ manifest' = IF Writes(saw, hashes) THEN saw ELSE manifest
  /\ UNCHANGED torn

-----------------------------------------------------------------------------
(* ensure, and ModelManager::new, which only verifies.                     *)

MgrAt(p) == mgr.pc = p
MgrGoto(p) == mgr' = [mgr EXCEPT !.pc = p]

Succeed == mgr' = Idle /\ engine' = "ready" /\ failures' = 0 /\ UNCHANGED <<faults, disturbed>>
GiveUp ==
  /\ mgr' = Idle /\ engine' = "failed"
  /\ failures' = IF disturbed THEN 0 ELSE IF failures = 0 THEN 1 ELSE 2
  /\ UNCHANGED <<faults, disturbed>>

Ensure ==
  /\ MgrAt("idle")
  /\ disturbed' = FALSE
  /\ mgr' = [Idle EXCEPT !.pc = IF Present THEN "hash" ELSE "fetch"]
  /\ engine' = IF engine = "ready" /\ Present THEN engine ELSE "downloading"
  /\ UNCHANGED <<file, manifest, torn, hub, reader, fellBack, failures, faults>>

(* A verification that fails: the start leaves it at that, ensure goes on  *)
(* to download, and fails where it has downloaded already.                 *)
NotVerified ==
  \/ mgr.stage = "start" /\ mgr' = Idle /\ NoFault /\ UNCHANGED engine
  \/ mgr.stage = "first" /\ MgrGoto("fetch") /\ engine' = "downloading" /\ NoFault
  \/ mgr.stage = "last" /\ GiveUp

HashFiles ==
  /\ MgrAt("hash")
  /\ IF Present THEN mgr' = [mgr EXCEPT !.pc = "compare", !.saw = file] /\ NoFault /\ UNCHANGED engine
     ELSE NotVerified
  /\ UNCHANGED <<file, manifest, torn, hub, reader, fellBack>>

CompareFiles ==
  /\ MgrAt("compare")
  /\ Compare(mgr.saw, mgr.hashes)
  /\ IF Verified(mgr.saw, mgr.hashes) THEN Succeed ELSE NotVerified
  /\ UNCHANGED <<hub, reader, fellBack>>

(* The hub's hashes, or none if it does not answer.                        *)
FetchHashes ==
  /\ MgrAt("fetch")
  /\ \E hashes \in {NoHashes, [f \in Hashed |-> hub]} :
       mgr' = [mgr EXCEPT !.pc = "get", !.hashes = hashes]
  /\ NoFault
  /\ UNCHANGED <<file, manifest, torn, hub, engine, reader, fellBack>>

(* download_artifacts, one file after the other.  A file that is there and *)
(* has no hash of the hub against it is kept.                              *)
Here == Artifacts[mgr.at]
Keeps(f) == file[f] # "none" /\ (f \in DOMAIN mgr.hashes => mgr.hashes[f] = file[f])
NextFile == mgr' = [mgr EXCEPT !.pc = "get", !.at = @ + 1]

GetFile ==
  /\ MgrAt("get") /\ mgr.at <= Len(Artifacts)
  /\ IF Keeps(Here) THEN NextFile /\ UNCHANGED file
     ELSE MgrGoto("down") /\ file' = [file EXCEPT ![Here] = "none"]
  /\ NoFault
  /\ UNCHANGED <<manifest, torn, hub, engine, reader, fellBack>>

(* copy_atomically: aside, and renamed; or copied in place if the rename   *)
(* fails.  Mutant: copied in place at once.                                *)
CopyInPlace == file' = [file EXCEPT ![Here] = "part"] /\ MgrGoto("copy")
CopyAside == file' = [file EXCEPT ![Here] = hub] /\ NextFile
PlaceFile ==
  /\ MgrAt("down")
  /\ \/ CopyAside /\ NoFault /\ UNCHANGED fellBack
     \/ CopyInPlace /\ Fault /\ fellBack' = TRUE
  /\ UNCHANGED <<manifest, torn, hub, engine, reader>>
CopyDone ==
  /\ MgrAt("copy")
  /\ file' = [file EXCEPT ![Here] = IF @ = "none" THEN @ ELSE hub] /\ NextFile
  /\ NoFault
  /\ UNCHANGED <<manifest, torn, hub, engine, reader, fellBack>>

(* A download, or a copy, fails: there is a second attempt.                *)
DownloadFails ==
  /\ MgrAt("down") \/ MgrAt("copy")
  /\ Fault
  /\ IF mgr.attempt = 1 THEN mgr' = [mgr EXCEPT !.pc = "get", !.at = 1, !.attempt = 2] /\ UNCHANGED engine
     ELSE mgr' = Idle /\ engine' = "failed"
  /\ UNCHANGED <<file, manifest, torn, hub, reader, fellBack>>

Downloaded ==
  /\ MgrAt("get") /\ mgr.at > Len(Artifacts)
  /\ mgr' = [mgr EXCEPT !.pc = "hash", !.stage = "last"]
  /\ NoFault
  /\ UNCHANGED <<file, manifest, torn, hub, engine, reader, fellBack>>

-----------------------------------------------------------------------------
(* load_session: what it deletes may be a file replaced meanwhile.         *)

ReadFiles ==
  /\ reader.pc = "idle" /\ Present
  /\ reader' = [pc |-> "compare", saw |-> file]
  /\ UNCHANGED <<file, manifest, torn, hub, engine, mgr, fellBack, disturbed, failures, faults>>
ReadCompare ==
  /\ reader.pc = "compare"
  /\ reader' = [pc |-> "idle", saw |-> << >>]
  /\ Compare(reader.saw, NoHashes)
  /\ IF Verified(reader.saw, NoHashes) THEN NoFault
     ELSE disturbed' = TRUE /\ failures' = 0 /\ UNCHANGED faults
  /\ UNCHANGED <<hub, engine, mgr, fellBack>>

Rot(f) ==
  /\ file[f] # "none" /\ file' = [file EXCEPT ![f] = "bad"]
  /\ Fault
  /\ UNCHANGED <<manifest, torn, hub, engine, mgr, reader, fellBack>>
HubMoves ==
  /\ hub = "old" /\ hub' = "new"
  /\ Fault
  /\ UNCHANGED <<file, manifest, torn, engine, mgr, reader, fellBack>>
Writing ==
  \/ MgrAt("compare") /\ Writes(mgr.saw, mgr.hashes)
  \/ reader.pc = "compare" /\ Writes(reader.saw, NoHashes)
Crash ==
  /\ Fault
  /\ torn' \in {torn, torn \/ Writing}
  /\ engine' = "downloading" /\ mgr' = Start /\ reader' = [pc |-> "idle", saw |-> << >>]
  /\ UNCHANGED <<file, manifest, hub, fellBack>>

FilesNext ==
  \/ Ensure \/ HashFiles \/ CompareFiles \/ FetchHashes \/ GetFile \/ PlaceFile \/ CopyDone
  \/ DownloadFails \/ Downloaded \/ ReadFiles \/ ReadCompare
  \/ HubMoves \/ Crash \/ \E f \in File : Rot(f)

FilesSpec == FilesInit /\ [][FilesNext]_filesVars

-----------------------------------------------------------------------------
Content == {"part", "bad"} \cup Version   \* of a file that is there
MgrState == [pc : {"idle", "hash", "compare", "fetch", "get", "down", "copy"},
             stage : {"start", "first", "last"},
             hashes : {NoHashes} \cup [Hashed -> Version], saw : {<< >>} \cup [File -> Content],
             at : 1..(Len(Artifacts) + 1), attempt : 1..2]
FilesTypeOK ==
  /\ file \in [File -> {"none"} \cup Content]
  /\ manifest \in {NoHashes} \cup [File -> Content]
  /\ hub \in Version /\ engine \in {"downloading", "ready", "failed"}
  /\ mgr \in MgrState
  /\ reader \in [pc : {"idle", "compare"}, saw : {<< >>} \cup [File -> Content]]
  /\ torn \in BOOLEAN /\ fellBack \in BOOLEAN /\ disturbed \in BOOLEAN
  /\ failures \in 0..2 /\ faults \in 0..MaxFaults

(* The manifest never vouches for a file that was cut off, wherever the    *)
(* process died in a download: only a rename that failed before, so that   *)
(* the file was copied in place, can leave one (model_manager.rs:671).     *)
VouchesForWhole == ~fellBack => \A f \in DOMAIN manifest : manifest[f] # "part"

(* A damaged or missing file is repaired by the second ensure at the       *)
(* latest if nothing goes wrong in between, whatever went wrong before and *)
(* however load_session deletes files beside it; unless the manifest       *)
(* vouches for what the hub no longer has, for then ensure deletes what it *)
(* downloads, or was torn by a death, for then nothing ever verifies       *)
(* (model_manager.rs:499, :615).                                           *)
Pinned == \E f \in DOMAIN manifest : manifest[f] # hub
EnsureRepairs == failures <= 1 \/ Pinned \/ torn
=============================================================================
