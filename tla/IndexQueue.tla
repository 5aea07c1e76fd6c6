------------------------------ MODULE IndexQueue ------------------------------
(***************************************************************************)
(* The index queue (src-tauri/src/services/index_queue.rs) with the scan   *)
(* queue it feeds.  One loop hands queued jobs to spawned runners, as many *)
(* at a time as there are permits; a runner indexes the repository, saves  *)
(* the graph over all rows of the project (db/project_index.rs) and asks   *)
(* for a scan.  The commands index_workspace and start_health_scan do      *)
(* parts of the same without the queue (lib.rs).                           *)
(***************************************************************************)
EXTENDS HealthScan

CONSTANTS
  Job,          \* bound: the index jobs that can be queued
  Concurrency,  \* INDEX_CONCURRENCY
  MaxJobs       \* the length the job list is drained to (200)

ASSUME IndexQueueConstants ==
  /\ Job \subseteq Asker /\ IsFiniteSet(Job) /\ Job # {}
  /\ Concurrency \in Nat \ {0} /\ MaxJobs \in Nat \ {0}

VARIABLES
  job,      \* per job: its phase and cancel flag
  jobList,  \* QueueInner.jobs, oldest first
  wake,     \* a wake-up stored by notify_one
  loop,     \* the queue loop: where it is, the job it found
  permits   \* free permits of the semaphore

queueVars == <<job, jobList, wake, loop, permits>>
vars == <<scanVars, queueVars>>

Manual == Asker \ Job
Phase == {"none", "queued", "indexing", "done", "failed", "cancelled", "dropped"}
Active == {"queued", "indexing"}

Idle(l) == [pc |-> l, job |-> CHOOSE j \in Job : TRUE]

QueueInit == \E C \in Together :
  /\ HealthInit(C, Job)
  /\ job = [j \in Job |-> [phase |-> IF j \in C THEN "none" ELSE "done", cancel |-> FALSE]]
  /\ jobList = << >>
  /\ wake = FALSE
  /\ loop = Idle("look")
  /\ permits = Concurrency

LoopAt(l) == loop.pc = l
LoopGoto(l) == loop' = [loop EXCEPT !.pc = l]
LoopIdles(l) == loop' = Idle(l)
NotifyOne ==
  \/ LoopAt("asleep") /\ LoopGoto("look") /\ UNCHANGED wake
  \/ ~LoopAt("asleep") /\ wake' = TRUE /\ UNCHANGED loop

-----------------------------------------------------------------------------
(* scan_and_enqueue, cancel_job, cancel_all.                                *)

Busy(r) == \E j \in Job : RepoOf[j] = r /\ job[j].phase \in Active

(* One new job for each repository found that has none; notify_waiters      *)
(* wakes the loop only if it sleeps already.                                *)
Discover(R) == \E N \in SUBSET {j \in Job : job[j].phase = "none"} :
  LET list == Newest(jobList \o SetToSeq(N), MaxJobs)
      gone == ToSet(jobList \o SetToSeq(N)) \ ToSet(list)
  IN /\ {RepoOf[j] : j \in N} = {r \in R : ~Busy(r)}
     /\ \A i, j \in N : RepoOf[i] = RepoOf[j] => i = j
     /\ job' = [j \in Job |-> IF j \in gone THEN [job[j] EXCEPT !.phase = "dropped"]
                              ELSE IF j \in N THEN [job[j] EXCEPT !.phase = "queued"] ELSE job[j]]
     /\ jobList' = list
     /\ loop' = [loop EXCEPT !.pc = IF @ = "asleep" THEN "look" ELSE @]
     /\ UNCHANGED <<scanVars, wake, permits>>

(* Queued jobs are over at once, running ones, also those dropped from the  *)
(* list, when they see the flag, which is kept as long as they run.         *)
Reads(j) == asker[j] \in {"begin", "indexing"}
CancelJobs(C) ==
  /\ job' = [j \in Job |-> IF j \notin C THEN job[j] ELSE
       [cancel |-> Reads(j),
        phase |-> IF job[j].phase = "queued" THEN "cancelled" ELSE job[j].phase]]
  /\ NotifyOne
  /\ UNCHANGED <<scanVars, jobList, permits>>
CancelJob(j) == job[j].phase \in Active /\ CancelJobs({j})
CancelAll == CancelJobs({j \in Job : job[j].phase = "queued" \/ Reads(j)})

-----------------------------------------------------------------------------
(* run_loop.                                                                *)

QueuedJobs == Kept(jobList, {j \in Job : job[j].phase = "queued"})

Look ==
  /\ LoopAt("look")
  /\ IF QueuedJobs = << >> THEN LoopGoto("park")
     ELSE loop' = [pc |-> "permit", job |-> Head(QueuedJobs)]
  /\ UNCHANGED <<scanVars, job, jobList, wake, permits>>

Park ==
  /\ LoopAt("park")
  /\ LoopGoto(IF wake THEN "look" ELSE "asleep")
  /\ wake' = FALSE
  /\ UNCHANGED <<scanVars, job, jobList, permits>>

Acquire ==
  /\ LoopAt("permit") /\ permits > 0
  /\ permits' = permits - 1
  /\ LoopGoto("start")
  /\ UNCHANGED <<scanVars, job, jobList, wake>>

StillQueued(j) == job[j].phase = "queued"
Start ==
  /\ LoopAt("start") /\ StillQueued(loop.job)
  /\ job' = [job EXCEPT ![loop.job].phase = "indexing"]
  /\ AskerGoto(loop.job, "begin")
  /\ LoopIdles("look")
  /\ UNCHANGED <<scan, scanList, scanWake, scanner, live, staging, jobList, wake, permits>>

(* Mutant of Skip: the permit is not given back.                            *)
SkipKeepsPermit ==
  /\ LoopAt("start") /\ ~StillQueued(loop.job)
  /\ LoopIdles("look")
  /\ UNCHANGED <<scanVars, job, jobList, wake, permits>>
Skip ==
  /\ LoopAt("start") /\ ~StillQueued(loop.job)
  /\ permits' = permits + 1
  /\ LoopIdles("look")
  /\ UNCHANGED <<scanVars, job, jobList, wake>>

-----------------------------------------------------------------------------
(* run_one, in a task of its own.                                           *)

Runs(a, from, to) ==
  /\ AskerAt(a, from)
  /\ AskerGoto(a, to)
  /\ UNCHANGED <<scan, scanList, scanWake, scanner>>
RowsKept == UNCHANGED <<live, staging>>

(* The sidecar may be missing.                                              *)
RunBegin(j) ==
  /\ \/ job[j].phase = "dropped" /\ Runs(j, "begin", "asked")
     \/ job[j].phase # "dropped" /\ job[j].cancel /\ Runs(j, "begin", "cancelled")
     \/ job[j].phase # "dropped" /\ ~job[j].cancel /\ (Runs(j, "begin", "indexing") \/ Runs(j, "begin", "failed"))
  /\ RowsKept /\ UNCHANGED queueVars

(* The flag is polled while the graph is built and read once more after.    *)
RunIndex(j) ==
  /\ IF job[j].cancel THEN Runs(j, "indexing", "cancelled")
     ELSE Runs(j, "indexing", "saving") \/ Runs(j, "indexing", "failed")
  /\ RowsKept /\ UNCHANGED queueVars

(* save_project_index: every row of the project goes, a scan's staging      *)
(* rows too.  There is no transaction: a failure may leave nothing behind.  *)
Saved(r) ==
  /\ live' = [live EXCEPT ![r] = [by |-> "index", rows |-> Blank]]
  /\ ClearStaging(r)
SaveBroken(r) ==
  \/ RowsKept
  \/ live' = [live EXCEPT ![r] = NoGraph] /\ ClearStaging(r)

RunSave(j) ==
  /\ \/ Runs(j, "saving", "done") /\ Saved(RepoOf[j])
     \/ Runs(j, "saving", "failed") /\ SaveBroken(RepoOf[j])
  /\ UNCHANGED queueVars

Finish(j, from, phase, to) ==
  /\ Runs(j, from, to)
  /\ job' = [job EXCEPT ![j] = [phase |-> IF @.phase = "dropped" THEN "dropped" ELSE phase,
                                cancel |-> FALSE]]
  /\ RowsKept /\ UNCHANGED <<jobList, wake, loop, permits>>
RunFinish(j) ==
  \/ Finish(j, "done", "done", IF job[j].phase = "dropped" THEN "asked" ELSE "ask")
  \/ Finish(j, "failed", "failed", "asked")
  \/ Finish(j, "cancelled", "cancelled", "asked")

RunRelease(j) ==
  /\ Runs(j, "asked", "idle") /\ RowsKept
  /\ permits' = permits + 1
  /\ NotifyOne
  /\ UNCHANGED <<job, jobList>>

RunnerStep(j) == \/ RunBegin(j) \/ RunIndex(j) \/ RunSave(j) \/ RunFinish(j) \/ RunRelease(j)
                 \/ AskStep(j) /\ UNCHANGED queueVars

-----------------------------------------------------------------------------
(* The commands.  When the system is halted no scan is asked for.           *)

ManualIndex(m) ==
  /\ Runs(m, "idle", "saving")
  /\ RowsKept /\ UNCHANGED queueVars
ManualSave(m) ==
  /\ \/ (Runs(m, "saving", "ask") \/ Runs(m, "saving", "asked")) /\ Saved(RepoOf[m])
     \/ Runs(m, "saving", "asked") /\ SaveBroken(RepoOf[m])
  /\ UNCHANGED queueVars
ManualScan(m) ==
  /\ Runs(m, "idle", "ask")
  /\ RowsKept /\ UNCHANGED queueVars

LoopStep == Look \/ Park \/ Acquire \/ Start \/ Skip

QueueNext ==
  \/ \E R \in SUBSET Repo \ {{}} : Discover(R)
  \/ \E j \in Job : CancelJob(j) \/ RunnerStep(j)
  \/ CancelAll
  \/ LoopStep
  \/ /\ ScannerStep \/ \E s \in Scan : CancelScan(s)
     /\ UNCHANGED queueVars
  \/ \E m \in Manual : ManualIndex(m) \/ ManualSave(m) \/ ManualScan(m)
                       \/ (AskStep(m) /\ UNCHANGED queueVars)

(* The runtime polls every task.                                            *)
QueueFairness ==
  /\ WF_vars(LoopStep)
  /\ WF_vars(ScannerStep /\ UNCHANGED queueVars)
  /\ \A j \in Job : WF_vars(RunnerStep(j))

QueueSafety == QueueInit /\ [][QueueNext]_vars
QueueSpec == QueueSafety /\ QueueFairness
-----------------------------------------------------------------------------
QueueTypeOK ==
  /\ scan \in [Scan -> [phase : ScanPhase, repo : Repo, cancel : BOOLEAN]]
  /\ scanList \in Seq(Scan) /\ Len(scanList) <= MaxScanJobs
  /\ scanner \in [pc : {"look", "park", "asleep", "start", "begin", "page", "insert", "guard", "finish"},
                  job : Scan, counted : SUBSET Page]
  /\ live \in [Repo -> [by : {"none", "index", "scan"}, rows : [Page -> Nat]]]
  /\ staging \in [Repo -> [Page -> Nat]]
  /\ asker \in [Asker -> {"idle", "begin", "indexing", "saving", "done", "failed", "cancelled",
                          "ask", "resolving", "asked"}]
  /\ job \in [Job -> [phase : Phase, cancel : BOOLEAN]]
  /\ jobList \in Seq(Job) /\ Len(jobList) <= MaxJobs
  /\ loop \in [pc : {"look", "park", "asleep", "permit", "start"}, job : Job]
  /\ <<permits, wake, scanWake>> \in (0..Concurrency) \X BOOLEAN \X BOOLEAN

(* The runners and the loop together hold the permits that are taken: no    *)
(* path through cancel, drop or failure loses one or gives one back twice.  *)
Holders == {j \in Job : ~AskerAt(j, "idle")}
PermitsAccounted ==
  permits + Cardinality(Holders) + (IF LoopAt("start") THEN 1 ELSE 0) = Concurrency

(* No row is promoted twice: what a failed scan left is gone before the     *)
(* next one promotes, and two scans never fill the staging of one project.  *)
NoLeftovers == \A r \in Repo, p \in Page : live[r].rows[p] <= 1

(* A request is in the list and the worker is awake or about to be woken:   *)
(* it never sleeps through one, whatever is cancelled, dropped or fails.    *)
RequestsListed == \A s \in Scan : scan[s].phase = "queued" => s \in ToSet(scanList)
RequestsHeard == \A s \in Scan : scan[s].phase = "queued" =>
  ~ScannerAt("asleep") /\ (ScannerAt("park") => scanWake)

(* So the scan queue runs empty again and again.                            *)
ScanServed == [](RequestsListed /\ RequestsHeard) /\ []<>(Waiting = << >>)

(* An index job is forgotten only when the loop slept through               *)
(* notify_waiters: never for want of a permit, and every runner ends.       *)
ForgottenOnlyAsleep ==
  <>[](\E j \in Job : job[j].phase \in Active) => <>[](LoopAt("asleep") /\ permits = Concurrency)

(* What the scan promotes is the whole graph it counted (health_scan.rs:3). *)
PromotedWhole == \A r \in Repo : live[r].by = "scan" => live[r].rows = Whole
=============================================================================
