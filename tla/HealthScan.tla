------------------------------ MODULE HealthScan ------------------------------
(***************************************************************************)
(* The dead-symbol scan (src-tauri/src/services/health_scan.rs): a queue   *)
(* with one worker loop, and the scan itself, which copies the graph page  *)
(* by page into staging rows of project_index, compares counts and then    *)
(* promotes the staging rows to live ones.  Whoever asks for a scan checks *)
(* for an active one, resolves the project without the lock, and queues.   *)
(*                                                                         *)
(* Of the rows of a project only which pages they hold, how often, and who *)
(* wrote them is kept, not the mark of a partial scan.  A page stands for  *)
(* rows of functions, methods or calls alike.  An asker is a job of the    *)
(* index queue or a user's command.                                        *)
(***************************************************************************)
EXTENDS Naturals, Sequences, FiniteSets, FiniteSetsExt, SequencesExt, Functions,
        SeqFilter

CONSTANTS
  Repo,
  Asker,       \* whoever asks for scans
  RepoOf,      \* the repository of each
  Scan,        \* bound: the scans that can be queued
  Together,    \* bound: the askers and scans yet to come when a behaviour starts
  Page,        \* the pages of a repository's graph
  MaxScanJobs  \* the length the job list is drained to (100)

ASSUME HealthScanConstants ==
  /\ IsFiniteSet(Page) /\ Page # {} /\ IsFiniteSet(Scan) /\ Scan # {}
  /\ RepoOf \in [Asker -> Repo]
  /\ MaxScanJobs \in Nat \ {0}

VARIABLES
  scan,      \* per scan: the job's phase, its repository and cancel flag
  scanList,  \* QueueInner.jobs, oldest first
  scanWake,  \* a wake-up stored by notify_one
  scanner,   \* the worker loop: where it is, its scan, how much it counted
  asker,     \* where each asker is
  live,      \* project_index: the graph the readers see
  staging    \* project_index: the rows of kind health_*

scanVars == <<scan, scanList, scanWake, scanner, asker, live, staging>>

(* How a scan ended is not kept: nobody asks.                               *)
ScanPhase == {"none", "queued", "scanning", "over", "dropped"}
ScanActive == {"queued", "scanning"}
Blank == [p \in Page |-> 0]
Whole == [p \in Page |-> 1]
NoGraph == [by |-> "none", rows |-> Blank]

(* Between two jobs the loop holds nothing.                                 *)
Resting(l) == [pc |-> l, job |-> CHOOSE s \in Scan : TRUE, counted |-> {}]

(* Of the scans and askers those in C are yet to come.  Runners begin when  *)
(* the queue starts them.                                                   *)
HealthInit(C, Runners) ==
  /\ scan = [s \in Scan |-> [phase |-> IF s \in C THEN "none" ELSE "over",
                             repo |-> CHOOSE r \in Repo : TRUE, cancel |-> FALSE]]
  /\ scanList = << >>
  /\ scanWake = FALSE
  /\ scanner = Resting("look")
  /\ asker = [a \in Asker |-> IF a \in Runners \cup C THEN "idle" ELSE "asked"]
  /\ live = [r \in Repo |-> NoGraph]
  /\ staging = [r \in Repo |-> Blank]

AskerAt(a, l) == asker[a] = l
AskerGoto(a, l) == asker' = [asker EXCEPT ![a] = l]
ScannerAt(l) == scanner.pc = l
ScannerGoto(l) == scanner' = [scanner EXCEPT !.pc = l]
ScannerRests(l) == scanner' = Resting(l)
ScannerEnds == scanner' = [scanner EXCEPT !.pc = "finish", !.counted = {}]
Scanned == scan[scanner.job].repo

-----------------------------------------------------------------------------
(* Asking for a scan.                                                       *)

ScanOf(r) == {s \in Scan : scan[s].phase \in ScanActive /\ scan[s].repo = r}

CheckScan(a) ==
  /\ AskerAt(a, "ask")
  /\ AskerGoto(a, IF ScanOf(RepoOf[a]) = {} THEN "resolving" ELSE "asked")
  /\ UNCHANGED <<scan, scanList, scanWake, scanner, live, staging>>

(* The list keeps its newest entries; those dropped are not looked at for   *)
(* their phase.                                                             *)
Newest(seq, n) == SubSeq(seq, IF Len(seq) > n THEN Len(seq) - n + 1 ELSE 1, Len(seq))

(* notify_one wakes a sleeper or leaves the wake-up for the next one.       *)
(* Mutant of WakeScanner: notify_waiters, which leaves nothing.             *)
WakeSleeper ==
  /\ scanner' = [scanner EXCEPT !.pc = IF @ = "asleep" THEN "look" ELSE @]
  /\ UNCHANGED scanWake
WakeScanner ==
  \/ ScannerAt("asleep") /\ ScannerGoto("look") /\ UNCHANGED scanWake
  \/ ~ScannerAt("asleep") /\ scanWake' = TRUE /\ UNCHANGED scanner

NewScans == {s \in Scan : scan[s].phase = "none"}
PushScan(a) ==
  LET s == CHOOSE u \in NewScans : TRUE
      list == Newest(Append(scanList, s), MaxScanJobs)
      aged == [u \in Scan |-> IF u \in ToSet(scanList) \ ToSet(list)
                              THEN [scan[u] EXCEPT !.phase = "dropped"] ELSE scan[u]]
  IN /\ AskerAt(a, "resolving") /\ NewScans # {}
     /\ scan' = [aged EXCEPT ![s] = [phase |-> "queued", repo |-> RepoOf[a], cancel |-> FALSE]]
     /\ scanList' = list
     /\ WakeScanner
     /\ AskerGoto(a, "asked")
     /\ UNCHANGED <<live, staging>>

ResolveFails(a) ==
  /\ AskerAt(a, "resolving")
  /\ AskerGoto(a, "asked")
  /\ UNCHANGED <<scan, scanList, scanWake, scanner, live, staging>>

(* A queued scan is over at once, one that runs hears of it at its next     *)
(* page, also if it was dropped.  A flag that nobody will read is not kept. *)
Scanning(s) == scanner.pc \in {"begin", "page", "insert"} /\ scanner.job = s
CancelScan(s) ==
  /\ \/ Scanning(s) /\ ~scan[s].cancel /\ scan' = [scan EXCEPT ![s].cancel = TRUE]
     \/ scan[s].phase = "queued" /\ scan' = [scan EXCEPT ![s].phase = "over"]
  /\ UNCHANGED <<scanList, scanWake, scanner, asker, live, staging>>

-----------------------------------------------------------------------------
(* worker_loop.                                                             *)

Waiting == Kept(scanList, {s \in Scan : scan[s].phase = "queued"})

LookForScan ==
  /\ ScannerAt("look")
  /\ IF Waiting = << >> THEN ScannerGoto("park")
     ELSE scanner' = [scanner EXCEPT !.pc = "start", !.job = Head(Waiting)]
  /\ UNCHANGED <<scan, scanList, scanWake, asker, live, staging>>

ParkScanner ==
  /\ ScannerAt("park")
  /\ ScannerGoto(IF scanWake THEN "look" ELSE "asleep")
  /\ scanWake' = FALSE
  /\ UNCHANGED <<scan, scanList, asker, live, staging>>

(* A job dropped from the list is left alone, like a cancelled one.         *)
StartScan ==
  /\ ScannerAt("start")
  /\ IF scan[scanner.job].phase = "queued"
     THEN scan' = [scan EXCEPT ![scanner.job].phase = "scanning"] /\ ScannerGoto("begin")
     ELSE ScannerRests("look") /\ UNCHANGED scan
  /\ UNCHANGED <<scanList, scanWake, asker, live, staging>>

(* finish_done, finish_partial, finish_failed.                              *)
FinishScan ==
  /\ ScannerAt("finish")
  /\ scan' = [scan EXCEPT ![scanner.job].phase = IF @ = "dropped" THEN @ ELSE "over",
                          ![scanner.job].cancel = FALSE]
  /\ ScannerRests("look")
  /\ UNCHANGED <<scanList, scanWake, asker, live, staging>>

-----------------------------------------------------------------------------
(* run_health_scan.  The store is locked for one operation at a time.       *)

ClearStaging(r) == staging' = [staging EXCEPT ![r] = Blank]

(* Mutant of BeginScan: what an earlier scan left is not cleared.           *)
BeginScanKeepsStaging ==
  /\ ScannerAt("begin")
  /\ live[Scanned].by # "none"
  /\ scanner' = [scanner EXCEPT !.pc = "page", !.counted = {}]
  /\ UNCHANGED <<scan, scanList, scanWake, asker, live, staging>>
BeginScan ==
  /\ ScannerAt("begin")
  /\ live[Scanned].by # "none"
  /\ ClearStaging(Scanned)
  /\ scanner' = [scanner EXCEPT !.pc = "page", !.counted = {}]
  /\ UNCHANGED <<scan, scanList, scanWake, asker, live>>

(* No index yet, or the graph cannot be read.                               *)
ScanFails ==
  /\ scanner.pc \in {"begin", "page"}
  /\ ScannerEnds
  /\ UNCHANGED <<scan, scanList, scanWake, asker, live, staging>>

AbortScan ==
  /\ ScannerAt("page") /\ scan[scanner.job].cancel
  /\ ClearStaging(Scanned)
  /\ ScannerEnds
  /\ UNCHANGED <<scan, scanList, scanWake, asker, live>>

(* The graph's answer: another page, or none, be it the end or a truncation.*)
FetchPage ==
  /\ ScannerAt("page") /\ ~scan[scanner.job].cancel
  /\ \/ scanner.counted # Page /\ ScannerGoto("insert")
     \/ ScannerGoto("guard")
  /\ UNCHANGED <<scan, scanList, scanWake, asker, live, staging>>

(* After a short page the next one is fetched without a look at the flag.   *)
InsertPage == \E p \in Page \ scanner.counted, next \in {"page", "insert", "guard"} :
  /\ ScannerAt("insert")
  /\ next = "insert" => scanner.counted \cup {p} # Page
  /\ staging' = [staging EXCEPT ![Scanned][p] = @ + 1]
  /\ scanner' = [scanner EXCEPT !.pc = next, !.counted = @ \cup {p}]
  /\ UNCHANGED <<scan, scanList, scanWake, asker, live>>

CountsMatch == scanner.counted = Page
Mismatch ==
  /\ ScannerAt("guard") /\ ~CountsMatch
  /\ ClearStaging(Scanned)
  /\ ScannerEnds
  /\ UNCHANGED <<scan, scanList, scanWake, asker, live>>

(* promote_staging_atomic and replace_dead_rows_atomic under one lock.      *)
Promote ==
  /\ ScannerAt("guard") /\ CountsMatch
  /\ live' = [live EXCEPT ![Scanned] = [by |-> "scan", rows |-> staging[Scanned]]]
  /\ ClearStaging(Scanned)
  /\ ScannerEnds
  /\ UNCHANGED <<scan, scanList, scanWake, asker>>

ScannerStep ==
  \/ LookForScan \/ ParkScanner \/ StartScan \/ FinishScan
  \/ BeginScan \/ ScanFails \/ AbortScan \/ FetchPage \/ InsertPage \/ Mismatch \/ Promote

AskStep(a) == CheckScan(a) \/ PushScan(a) \/ ResolveFails(a)
=============================================================================
