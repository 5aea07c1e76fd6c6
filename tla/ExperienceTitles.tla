--------------------------- MODULE ExperienceTitles ---------------------------
(***************************************************************************)
(* Titles of recorded experiences (src-tauri/src/services/                 *)
(* experience_title.rs over the rows of db/experiences.rs): one worker     *)
(* asks the local model for titles, while the user edits, archives, halts  *)
(* and resumes, MCP clients and the kernel record more and the process may *)
(* die.  Rows, the halt state and the backfill flag are in the database,   *)
(* the rest is memory.  The store's operations themselves succeed.         *)
(***************************************************************************)
EXTENDS Naturals, Sequences

CONSTANTS
  Experience,
  MaxTries,     \* TITLE_MAX_RETRIES
  MaxEvents     \* bound: edits, archivings, halts and deaths of the process

ASSUME TitleConstants == MaxTries \in Nat \ {0}

VARIABLES
  row,         \* per experience: title_source, whether the title is empty,
               \* whether the row is active, title_give_up
  halted,      \* halt_state
  backfilled,  \* MIGRATION_TITLE_BACKFILL_ENQUEUE_V1
  jobs,        \* TitleQueue.pending
  permit,      \* the wake-up stored by notify_one
  titler,      \* the worker: where it is, its job, failed tries, the answer
  deferred,    \* STARTUP_TITLE_DEFERRED
  filler,      \* the startup task and the resume command: where they are
  todo,        \* what the worker, or one of these, has listed and not queued
  recording,   \* rows inserted by MCP calls that have yet to queue them
  served,      \* history: rows the worker has dealt with since the start
  missed,      \* history: untitled rows that nobody queues or lists: archived
               \* when the worker listed, or recorded and left unqueued since
  events       \* how many edits, archivings, halts and deaths there were

diskVars == <<row, halted, backfilled>>
historyVars == <<served, missed>>
titleVars == <<diskVars, jobs, permit, titler, deferred, filler, todo, recording, historyVars, events>>

Filler == {"startup", "resume"}
Off == [pc |-> "off", job |-> "none", tries |-> 0, answer |-> "none"]

(* Rows of before the upgrade have no title of their own.                  *)
TitlesInit ==
  /\ \E old \in SUBSET Experience : row = [x \in Experience |->
       [src |-> IF x \in old THEN "fallback" ELSE "none", empty |-> x \notin old,
        active |-> TRUE, gaveUp |-> FALSE]]
  /\ halted \in BOOLEAN
  /\ backfilled = FALSE
  /\ jobs = << >> /\ permit = FALSE /\ titler = Off /\ deferred = FALSE
  /\ filler = [startup |-> "check", resume |-> "idle"]
  /\ todo = [worker |-> {}, startup |-> {}, resume |-> {}]
  /\ recording = {} /\ served = {} /\ missed = {}
  /\ events = 0

Counted == events < MaxEvents /\ events' = events + 1

-----------------------------------------------------------------------------
(* Rows.                                                                   *)

Untitled(x) == row[x].src = "fallback" /\ ~row[x].gaveUp
NeedsTitle == {x \in Experience : Untitled(x) /\ row[x].active}

(* Mutant of MayReplace: the source is looked at before the call only.      *)
MayReplaceAny(r) == r.src # "none"
MayReplace(r) == ~(r.src \in {"agent", "user"} /\ ~r.empty)
SetTitle(x, src) ==
  row' = [row EXCEPT ![x] = IF MayReplace(@) THEN [@ EXCEPT !.src = src, !.empty = FALSE] ELSE @]
SetGaveUp(x, b) == row' = [row EXCEPT ![x].gaveUp = b]

(* The UI edits a title, archives, rejects or restores a row; the hourly    *)
(* sweep archives too.                                                     *)
EditTitle(x, empty) == row' = [row EXCEPT ![x].src = "user", ![x].empty = empty]
Archive(x) == row[x].active /\ row' = [row EXCEPT ![x].active = FALSE]
Restore(x) == ~row[x].active /\ row' = [row EXCEPT ![x].active = TRUE]

UserEdit(x) ==
  /\ row[x].src # "none"
  /\ (\E empty \in BOOLEAN : EditTitle(x, empty)) \/ Archive(x) \/ Restore(x)
  /\ Counted
  /\ UNCHANGED <<halted, backfilled, jobs, permit, titler, deferred, filler, todo, recording, historyVars>>

-----------------------------------------------------------------------------
(* The queue.                                                              *)

(* A waiting worker takes the permit at once.                              *)
InQueue(x) == \E i \in DOMAIN jobs : jobs[i] = x
Enqueue(x) ==
  IF InQueue(x) THEN UNCHANGED <<jobs, permit>>
  ELSE jobs' = Append(jobs, x) /\ permit' = TRUE

EnsureWorker == titler' = IF titler.pc = "off" THEN [Off EXCEPT !.pc = "list"] ELSE titler

Insert(x, src) ==
  /\ row[x].src = "none"
  /\ row' = [row EXCEPT ![x].src = src, ![x].empty = FALSE]

(* lounge_record_experience, refused while halted; an agent's own title is  *)
(* not queued.                                                             *)
Record(x, src) ==
  /\ ~halted
  /\ Insert(x, src)
  /\ recording' = IF src = "fallback" THEN recording \cup {x} ELSE recording
  /\ UNCHANGED <<halted, backfilled, jobs, permit, titler, deferred, filler, todo, historyVars, events>>

EnqueueTitle(x) ==
  /\ x \in recording
  /\ recording' = recording \ {x}
  /\ EnsureWorker
  /\ Enqueue(x)
  /\ UNCHANGED <<diskVars, deferred, filler, todo, historyVars, events>>

(* The client goes away and its handler is dropped, before or after it has  *)
(* started the worker: the row stays, and is not queued.                   *)
HandlerDropped(x) ==
  /\ x \in recording
  /\ recording' = recording \ {x}
  /\ missed' = missed \cup {x}
  /\ EnsureWorker \/ UNCHANGED titler
  /\ UNCHANGED <<diskVars, jobs, permit, deferred, filler, todo, served, events>>

(* The kernel records a task that it executed itself, queues nothing, and   *)
(* does so during a halt too when the execution began before it.           *)
RecordLocally(x) ==
  /\ Insert(x, "fallback")
  /\ missed' = missed \cup {x}
  /\ UNCHANGED <<halted, backfilled, jobs, permit, titler, deferred, filler, todo, recording, served, events>>

-----------------------------------------------------------------------------
(* Startup, halt and resume.                                               *)

FillerAt(f, l) == filler[f] = l
FillerGoto(f, l) == filler' = [filler EXCEPT ![f] = l]

Halt ==
  /\ ~halted /\ halted' = TRUE
  /\ Counted
  /\ UNCHANGED <<row, backfilled, jobs, permit, titler, deferred, filler, todo, recording, historyVars>>
Resume ==
  /\ halted /\ FillerAt("resume", "idle")
  /\ halted' = FALSE
  /\ FillerGoto("resume", "hook")
  /\ UNCHANGED <<row, backfilled, jobs, permit, titler, deferred, todo, recording, historyVars, events>>

(* Resume ends with notify_waiters, which wakes a worker that waits.        *)
Finish(f) ==
  /\ FillerGoto(f, IF f = "resume" THEN "idle" ELSE "over")
  /\ permit' = (permit \/ (f = "resume" /\ titler.pc = "wait"))

StartupCheck ==
  /\ FillerAt("startup", "check")
  /\ IF halted THEN FillerGoto("startup", "defer") /\ UNCHANGED titler
     ELSE FillerGoto("startup", "flag") /\ EnsureWorker
  /\ UNCHANGED <<diskVars, jobs, permit, deferred, todo, recording, historyVars, events>>
StartupDefer ==
  /\ FillerAt("startup", "defer")
  /\ deferred' = TRUE
  /\ FillerGoto("startup", "over")
  /\ UNCHANGED <<diskVars, jobs, permit, titler, todo, recording, historyVars, events>>

ResumeHook ==
  /\ FillerAt("resume", "hook")
  /\ deferred' = FALSE
  /\ EnsureWorker
  /\ IF deferred THEN FillerGoto("resume", "flag") /\ UNCHANGED permit ELSE Finish("resume")
  /\ UNCHANGED <<diskVars, jobs, todo, recording, historyVars, events>>

(* backfill_on_queue, by either.                                           *)
BackfillList(f) ==
  /\ FillerAt(f, "flag")
  /\ IF backfilled THEN Finish(f) /\ UNCHANGED <<todo, missed>>
     ELSE /\ FillerGoto(f, "fill") /\ UNCHANGED permit
          /\ todo' = [todo EXCEPT ![f] = NeedsTitle]
          /\ missed' = missed \ NeedsTitle
  /\ UNCHANGED <<diskVars, jobs, titler, deferred, recording, served, events>>
EnqueueListed(f) == \E x \in todo[f] : Enqueue(x) /\ todo' = [todo EXCEPT ![f] = @ \ {x}]
BackfillEnqueue(f) ==
  /\ FillerAt(f, "fill") /\ EnqueueListed(f)
  /\ UNCHANGED <<diskVars, titler, deferred, filler, recording, historyVars, events>>
BackfillDone(f) ==
  /\ FillerAt(f, "fill") /\ todo[f] = {}
  /\ backfilled' = TRUE
  /\ Finish(f)
  /\ UNCHANGED <<row, halted, jobs, titler, deferred, todo, recording, historyVars, events>>

FillerStep ==
  \/ StartupCheck \/ StartupDefer \/ ResumeHook
  \/ \E f \in Filler : BackfillList(f) \/ BackfillEnqueue(f) \/ BackfillDone(f)

-----------------------------------------------------------------------------
(* worker_loop and generate_and_apply.                                     *)

TitlerAt(l) == titler.pc = l
TitlerGoto(l) == titler' = [titler EXCEPT !.pc = l]
TitlerIdles == titler' = [Off EXCEPT !.pc = "look"]
RestKept == UNCHANGED <<deferred, filler, recording, events>>

(* resume_pending_retries.                                                 *)
WorkerList ==
  /\ TitlerAt("list") /\ TitlerGoto("fill")
  /\ todo' = [todo EXCEPT !.worker = NeedsTitle]
  /\ missed' = {x \in Experience : Untitled(x) /\ ~row[x].active}
  /\ UNCHANGED <<diskVars, jobs, permit, served>> /\ RestKept
WorkerFill ==
  /\ TitlerAt("fill")
  /\ \/ EnqueueListed("worker") /\ UNCHANGED titler
     \/ todo.worker = {} /\ TitlerGoto("look") /\ UNCHANGED <<jobs, permit, todo>>
  /\ UNCHANGED <<diskVars, historyVars>> /\ RestKept

(* Parked, the worker may use a wake-up up.                                *)
WorkerPark ==
  /\ TitlerAt("look") /\ halted /\ permit
  /\ permit' = FALSE
  /\ UNCHANGED <<diskVars, jobs, titler, todo, historyVars>> /\ RestKept
WorkerPop ==
  /\ TitlerAt("look") /\ ~halted
  /\ IF jobs = << >> THEN TitlerGoto("wait") /\ UNCHANGED jobs
     ELSE titler' = [titler EXCEPT !.pc = "held", !.job = Head(jobs)] /\ jobs' = Tail(jobs)
  /\ UNCHANGED <<diskVars, permit, todo, historyVars>> /\ RestKept
WorkerWait ==
  /\ TitlerAt("wait") /\ permit
  /\ permit' = FALSE /\ TitlerGoto("look")
  /\ UNCHANGED <<diskVars, jobs, todo, historyVars>> /\ RestKept

(* A halt seen with a job in hand: the job goes back to the front.  Mutant: *)
(* it is dropped like a job that failed.                                   *)
DropJob == TitlerIdles /\ UNCHANGED jobs
PutBack == TitlerIdles /\ jobs' = <<titler.job>> \o jobs
WorkerHalted ==
  /\ (TitlerAt("held") \/ TitlerAt("try")) /\ halted
  /\ PutBack
  /\ UNCHANGED <<diskVars, permit, todo, historyVars>> /\ RestKept

HasTitle(r) == r.src \in {"agent", "user"} \/ (r.src = "llm" /\ ~r.empty)
Serve == TitlerIdles /\ served' = served \cup {titler.job}
WorkerRead ==
  /\ TitlerAt("held") /\ ~halted
  /\ IF HasTitle(row[titler.job]) THEN Serve ELSE TitlerGoto("try") /\ UNCHANGED served
  /\ UNCHANGED <<diskVars, jobs, permit, todo, missed>> /\ RestKept
WorkerTry ==
  /\ TitlerAt("try") /\ ~halted /\ TitlerGoto("ask")
  /\ UNCHANGED <<diskVars, jobs, permit, todo, historyVars>> /\ RestKept

(* The model answers with a title or with garbage, or fails; then the       *)
(* worker waits and tries again, or gives up.                              *)
WorkerAsk ==
  /\ TitlerAt("ask")
  /\ \/ \E src \in {"llm", "fallback"} : titler' = [titler EXCEPT !.pc = "apply", !.answer = src]
     \/ titler' = [titler EXCEPT !.tries = @ + 1,
                                 !.pc = IF titler.tries + 1 < MaxTries THEN "try" ELSE "giveup"]
  /\ UNCHANGED <<diskVars, jobs, permit, todo, historyVars>> /\ RestKept
WorkerApply ==
  /\ \/ TitlerAt("apply") /\ SetTitle(titler.job, titler.answer) /\ TitlerGoto("clear")
     \/ TitlerAt("giveup") /\ SetTitle(titler.job, "fallback") /\ TitlerGoto("mark")
  /\ UNCHANGED <<halted, backfilled, jobs, permit, todo, historyVars>> /\ RestKept
WorkerMark ==
  /\ \/ TitlerAt("clear") /\ SetGaveUp(titler.job, FALSE)
     \/ TitlerAt("mark") /\ SetGaveUp(titler.job, TRUE)
  /\ Serve
  /\ UNCHANGED <<halted, backfilled, jobs, permit, todo, missed>> /\ RestKept

WorkerStep ==
  \/ WorkerList \/ WorkerFill \/ WorkerPark \/ WorkerPop \/ WorkerWait \/ WorkerHalted
  \/ WorkerRead \/ WorkerTry \/ WorkerAsk \/ WorkerApply \/ WorkerMark

(* The process dies and starts again.                                      *)
Die ==
  /\ Counted
  /\ jobs' = << >> /\ permit' = FALSE /\ titler' = Off /\ deferred' = FALSE
  /\ filler' = [startup |-> "check", resume |-> "idle"]
  /\ todo' = [worker |-> {}, startup |-> {}, resume |-> {}]
  /\ recording' = {} /\ served' = {} /\ missed' = {}
  /\ UNCHANGED diskVars

TitlesNext ==
  \/ WorkerStep \/ FillerStep \/ Halt \/ Resume \/ Die
  \/ \E x \in Experience : \/ UserEdit(x) \/ EnqueueTitle(x) \/ HandlerDropped(x)
                           \/ RecordLocally(x)
                           \/ \E src \in {"fallback", "agent"} : Record(x, src)

TitlesSpec == TitlesInit /\ [][TitlesNext]_titleVars

-----------------------------------------------------------------------------
RowState == [src : {"none", "fallback", "llm", "agent", "user"}, empty : BOOLEAN,
             active : BOOLEAN, gaveUp : BOOLEAN]
TitlerState == [pc : {"off", "list", "fill", "look", "wait", "held", "try", "ask",
                      "apply", "clear", "giveup", "mark"},
                job : Experience \cup {"none"}, tries : 0..MaxTries,
                answer : {"none", "llm", "fallback"}]
TitlesTypeOK ==
  /\ row \in [Experience -> RowState]
  /\ halted \in BOOLEAN /\ backfilled \in BOOLEAN /\ permit \in BOOLEAN /\ deferred \in BOOLEAN
  /\ jobs \in Seq(Experience)
  /\ titler \in TitlerState
  /\ filler \in [Filler -> {"idle", "check", "defer", "hook", "flag", "fill", "over"}]
  /\ todo \in [{"worker"} \cup Filler -> SUBSET Experience]
  /\ recording \subseteq Experience /\ served \subseteq Experience /\ missed \subseteq Experience

(* However late the model answers, a title that an agent or the user gave   *)
(* stays until the user changes it (experience_title.rs:4).                *)
TitleKept == [][\A x \in Experience :
  row[x].src \in {"agent", "user"} /\ ~row[x].empty => row'[x].src \in {row[x].src, "user"}]_titleVars

(* An untitled row is being recorded, listed, queued or worked on, unless   *)
(* the worker has dealt with it since the start or will list the rows yet;  *)
(* only rows that were archived when it did, and rows that were recorded    *)
(* and not queued after it did (a local execution's, a dropped call's), are *)
(* passed over until rows are listed again.                                *)
InHand(x) ==
  \/ x \in recording \/ InQueue(x)
  \/ \E f \in {"worker"} \cup Filler : x \in todo[f]
  \/ titler.pc \in {"held", "try", "ask", "apply", "clear", "giveup", "mark"} /\ titler.job = x
NoneForgotten == \A x \in Experience :
  Untitled(x) => x \in served \cup missed \/ InHand(x) \/ titler.pc \in {"off", "list"}

(* The worker does not wait beside a job, and if it is off it is started.   *)
WorkerComes ==
  /\ TitlerAt("wait") /\ jobs # << >> => permit
  /\ TitlerAt("off") => halted \/ FillerAt("startup", "check") \/ FillerAt("resume", "hook")

(* So a row that needs a title is dealt with after every start, through     *)
(* halts, retries and deaths, unless the halt lasts, or the row was         *)
(* archived when the worker listed the rows and restored later, or was      *)
(* recorded and left unqueued since.                                       *)
TitlesServed ==
  /\ [](NoneForgotten /\ WorkerComes)
  /\ \A x \in Experience :
       <>[](x \in NeedsTitle \ served) => <>[](halted \/ x \in missed)
=============================================================================
