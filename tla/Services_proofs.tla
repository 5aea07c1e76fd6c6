--------------------------- MODULE Services_proofs ---------------------------
(***************************************************************************)
(* Proofs about the services that work in the background: the loading of   *)
(* the decision model (DecisionGate), the titles of experiences            *)
(* (ExperienceTitles), the model's files (LayaFiles) and the supervision   *)
(* of NATS and the local runtime (Supervisor), for every number of loads,  *)
(* experiences, files, restarts and faults.                                *)
(***************************************************************************)
EXTENDS DecisionGate, ExperienceTitles, LayaFiles, Supervisor, TLAPS

-----------------------------------------------------------------------------
(* DecisionGate.  As long as no load could begin beside another, the flag  *)
(* is a lock: one load runs at a time, none while there is a session, and  *)
(* whoever installed the session tells the dispatcher before it is over.   *)

Holding(l) == load[l].pc \in {"mark", "load", "fail", "install"}  \* the flag is not given back yet

OneLoad == \A l, m \in Load : Running(l) /\ Running(m) => l = m
FlagHeld == \A l \in Load : Holding(l) => inFlight
NotTwice == loaded => \A l \in Load : ~Running(l)
ToldOrTelling == loaded => gateReady \/ \E l \in Load : LoadAt(l, "tell")

GateInv ==
  /\ GateTypeOK
  /\ ~raced => OneLoad /\ FlagHeld /\ NotTwice /\ ToldOrTelling

(* At the start nothing loads and no session was offered. *)
LEMMA GateInitInv == GateInit => GateInv
<1> SUFFICES ASSUME GateInit PROVE GateInv
  OBVIOUS
<1>1. GateTypeOK BY DEF GateInit, GateTypeOK, LoadPlace
<1>2. OneLoad /\ FlagHeld /\ NotTwice /\ ToldOrTelling
  BY DEF GateInit, OneLoad, FlagHeld, NotTwice, ToldOrTelling, Running, Holding
<1> QED BY <1>1, <1>2 DEF GateInv

(* A step of one load leaves the others where they are. *)
LEMMA LoadMoves ==
  ASSUME GateTypeOK, NEW l \in Load, NEW p \in LoadPlace, LoadGoto(l, p)
  PROVE /\ load' \in [Load -> [pc : LoadPlace, why : {"cold", "noram"}]]
        /\ load'[l].pc = p
        /\ \A m \in Load \ {l} : load'[m] = load[m]
BY DEF GateTypeOK, LoadGoto

(* Every step of the gate keeps the types. *)
LEMMA GateStepTyped == GateTypeOK /\ [GateNext]_gateVars => GateTypeOK'
<1> SUFFICES ASSUME GateTypeOK, [GateNext]_gateVars PROVE GateTypeOK'
  OBVIOUS
<1> USE DEF GateTypeOK
<1>1. ASSUME NEW l \in Load, LoadStep(l) PROVE GateTypeOK'
  <2>0. \A p \in LoadPlace : LoadGoto(l, p) => load' \in [Load -> [pc : LoadPlace, why : {"cold", "noram"}]]
    BY LoadMoves
  <2>1. CASE AskEnable(l) BY <2>1, <2>0 DEF AskEnable, LoadPlace
  <2>2. CASE Peek(l) BY <2>2, <2>0 DEF Peek, LoadPlace
  <2>3. CASE ResetFlag(l) BY <2>3, <2>0 DEF ResetFlag, ClearFlag, LoadPlace
  <2>4. CASE BeginLoad(l) BY <2>4, <2>0 DEF BeginLoad, LoadPlace
  <2>5. CASE Claim(l)
    <3>1. raced' \in BOOLEAN /\ inFlight' \in BOOLEAN BY <2>5 DEF Claim
    <3>2. load' \in [Load -> [pc : LoadPlace, why : {"cold", "noram"}]]
      BY <2>5, <2>0 DEF Claim, LoadPlace
    <3> QED BY <2>5, <3>1, <3>2 DEF Claim
  <2>6. CASE MarkLoading(l) BY <2>6, <2>0 DEF MarkLoading, LoadPlace
  <2>7. CASE LoadSession(l)
    <3>1. CASE LoadGoto(l, "install") BY <2>7, <2>0, <3>1 DEF LoadSession, LoadPlace
    <3>2. ASSUME NEW why \in {"noram", "cold"}, load' = [load EXCEPT ![l].pc = "fail", ![l].why = why]
          PROVE GateTypeOK'
      <4>1. load' \in [Load -> [pc : LoadPlace, why : {"cold", "noram"}]] BY <3>2 DEF LoadPlace
      <4> QED BY <2>7, <4>1 DEF LoadSession
    <3> QED BY <2>7, <3>1, <3>2 DEF LoadSession
  <2>8. CASE FailLoad(l)
    <3>1. load[l].why \in {"cold", "noram"} BY DEF LoadPlace
    <3>2. load' \in [Load -> [pc : LoadPlace, why : {"cold", "noram"}]]
      BY <2>8, <2>0 DEF FailLoad, LoadPlace
    <3> QED BY <2>8, <3>1, <3>2 DEF FailLoad
  <2>9. CASE Install(l)
    <3>1. load' \in [Load -> [pc : LoadPlace, why : {"cold", "noram"}]]
      BY <2>9, <2>0 DEF Install, LoadPlace
    <3>2. /\ loaded' \in BOOLEAN /\ declined' \in BOOLEAN /\ inFlight' \in BOOLEAN
          /\ gateReady' \in BOOLEAN /\ raced' \in BOOLEAN
      BY <2>9 DEF Install
    <3>3. shown' \in {"cold", "noram", "available", "loading", "ready"} /\ UNCHANGED watch
      BY <2>9 DEF Install
    <3> QED BY <3>1, <3>2, <3>3
  <2> QED BY <1>1, <2>1, <2>2, <2>3, <2>4, <2>5, <2>6, <2>7, <2>8, <2>9 DEF LoadStep
<1>2. CASE WatchLook BY <1>2 DEF WatchLook
<1>w. ASSUME NEW p \in {"idle", "decide", "offer", "fail", "show"}, WatchGoto(p)
      PROVE watch' \in [pc : {"idle", "decide", "offer", "fail", "show"}, offered : BOOLEAN, ram : BOOLEAN]
  BY <1>w DEF WatchGoto
<1>3. CASE WatchDecide
  <2>1. watch.ram \in BOOLEAN OBVIOUS
  <2>2. declined' \in BOOLEAN BY <1>3, <2>1 DEF WatchDecide
  <2>3. watch' \in [pc : {"idle", "decide", "offer", "fail", "show"}, offered : BOOLEAN, ram : BOOLEAN]
    <3>1. WatchGoto("offer") \/ WatchGoto("fail") \/ WatchGoto("idle") BY <1>3 DEF WatchDecide
    <3> QED BY <3>1, <1>w
  <2> QED BY <1>3, <2>2, <2>3 DEF WatchDecide
<1>4. CASE WatchAct
  <2>1. raced' \in BOOLEAN BY <1>4 DEF WatchAct, ClearFlag
  <2>2. watch' \in [pc : {"idle", "decide", "offer", "fail", "show"}, offered : BOOLEAN, ram : BOOLEAN]
    <3>1. WatchGoto("show") \/ WatchGoto("idle") BY <1>4 DEF WatchAct
    <3> QED BY <3>1, <1>w
  <2> QED BY <1>4, <2>1, <2>2 DEF WatchAct, ClearFlag
<1>5. CASE Decline BY <1>5 DEF Decline
<1>6. CASE UNCHANGED gateVars BY <1>6 DEF gateVars
<1> QED BY <1>1, <1>2, <1>3, <1>4, <1>5, <1>6 DEF GateNext

(* A step of one call leaves the others where they are.                    *)
LEMMA GateStepInv == GateInv /\ [GateNext]_gateVars => GateInv'
<1> SUFFICES ASSUME GateInv, [GateNext]_gateVars, ~raced' PROVE (OneLoad /\ FlagHeld /\ NotTwice /\ ToldOrTelling)'
  BY GateStepTyped DEF GateInv
<1>a. GateTypeOK BY DEF GateInv
<1> USE DEF OneLoad, FlagHeld, NotTwice, ToldOrTelling, Running, Holding, LoadAt
<1>1. ASSUME NEW l \in Load, LoadStep(l) PROVE (OneLoad /\ FlagHeld /\ NotTwice /\ ToldOrTelling)'
  <2>0. \A p \in LoadPlace : LoadGoto(l, p) => load'[l].pc = p /\ \A m \in Load \ {l} : load'[m] = load[m]
    BY LoadMoves, <1>a
  <2>1. CASE AskEnable(l) BY <2>1, <2>0 DEF AskEnable, LoadPlace, GateInv
  <2>2. CASE Peek(l) BY <2>2, <2>0 DEF Peek, LoadPlace, GateInv
  <2>3. CASE ResetFlag(l)
    <3>1. ~raced /\ \A m \in Load : ~Running(m) BY <2>3 DEF ResetFlag, ClearFlag
    <3> QED BY <2>3, <2>0, <3>1 DEF ResetFlag, LoadPlace, GateInv
  <2>4. CASE BeginLoad(l) BY <2>4, <2>0 DEF BeginLoad, LoadPlace, GateInv
  <2>5. CASE Claim(l)
    <3>1. ~raced BY <2>5, <1>a DEF Claim, GateTypeOK
    <3>2. CASE MayClaim
      <4>1. ~loaded /\ \A m \in Load : ~Running(m)
        BY <2>5, <3>1, <3>2 DEF Claim, MayClaim, Ending, GateInv
      <4>2. inFlight' = TRUE /\ loaded' = loaded /\ LoadGoto(l, "mark") BY <2>5, <3>2 DEF Claim
      <4> QED BY <2>0, <4>1, <4>2 DEF LoadPlace
    <3> QED BY <2>5, <2>0, <3>1, <3>2 DEF Claim, LoadPlace, GateInv
  <2>6. CASE MarkLoading(l) BY <2>6, <2>0 DEF MarkLoading, LoadPlace, GateInv
  <2>7. CASE LoadSession(l)
    <3>1. load'[l].pc \in {"install", "fail"} /\ \A m \in Load \ {l} : load'[m] = load[m]
      BY <2>7, <1>a, <2>0 DEF LoadSession, GateTypeOK, LoadPlace
    <3> QED BY <2>7, <3>1 DEF LoadSession, GateInv
  <2>8. CASE FailLoad(l) BY <2>8, <2>0 DEF FailLoad, LoadPlace, GateInv
  <2>9. CASE Install(l) BY <2>9, <2>0 DEF Install, LoadPlace, GateInv
  <2> QED BY <1>1, <2>1, <2>2, <2>3, <2>4, <2>5, <2>6, <2>7, <2>8, <2>9 DEF LoadStep
<1>2. CASE WatchLook BY <1>2 DEF WatchLook, GateInv
<1>3. CASE WatchDecide BY <1>3 DEF WatchDecide, GateInv
<1>4. CASE WatchAct
  <2>1. CASE WatchAt("fail")
    <3>1. ~raced /\ \A m \in Load : ~Running(m) BY <1>4, <2>1 DEF WatchAct, WatchAt, ClearFlag
    <3> QED BY <1>4, <2>1, <3>1 DEF WatchAct, WatchAt, GateInv
  <2>2. CASE ~WatchAt("fail") BY <1>4, <2>2 DEF WatchAct, WatchAt, GateInv
  <2> QED BY <2>1, <2>2
<1>5. CASE Decline BY <1>5 DEF Decline, GateInv
<1>6. CASE UNCHANGED gateVars BY <1>6 DEF gateVars, GateInv
<1> QED BY <1>1, <1>2, <1>3, <1>4, <1>5, <1>6 DEF GateNext

(* However loads, clicks, refusals and the watchdog interleave, a session   *)
(* that is in memory once all loads are over is known to the dispatcher,   *)
(* unless the flag was cleared or taken beside a load that ran.            *)
THEOREM SessionIsServed == GateSpec => [](GateTypeOK /\ SessionServed)
<1>1. GateInv => GateTypeOK /\ SessionServed
  BY DEF GateInv, SessionServed, ToldOrTelling
<1> QED BY GateInitInv, GateStepInv, <1>1, PTL DEF GateSpec
-----------------------------------------------------------------------------
(* ExperienceTitles.  The worker has a job whenever it is past taking one, *)
(* and tries left whenever it may try again.                               *)

AtWork(t) ==
  /\ t.pc \in {"held", "try", "ask", "apply", "clear", "giveup", "mark"} => t.job \in Experience
  /\ t.pc \notin {"apply", "clear", "giveup", "mark"} => t.tries < MaxTries

TitlesInv == TitlesTypeOK /\ AtWork(titler)

(* Both fillers, the one of the start and the one of a resume, start typed. *)
LEMMA FillerStart ==
  /\ [startup |-> "check", resume |-> "idle"]
       \in [Filler -> {"idle", "check", "defer", "hook", "flag", "fill", "over"}]
  /\ [worker |-> {}, startup |-> {}, resume |-> {}] \in [{"worker"} \cup Filler -> SUBSET Experience]
<1>1. DOMAIN [startup |-> "check", resume |-> "idle"] = Filler BY DEF Filler
<1>2. DOMAIN [worker |-> {}, startup |-> {}, resume |-> {}] = {"worker"} \cup Filler
  BY DEF Filler
<1> QED BY <1>1, <1>2 DEF Filler

(* A worker that is off is typed. *)
LEMMA OffTyped == Off \in TitlerState /\ AtWork(Off)
BY TitleConstants DEF Off, TitlerState, AtWork

(* The invariant of the titles holds at the start. *)
LEMMA TitlesInitInv == TitlesInit => TitlesInv
<1> SUFFICES ASSUME TitlesInit PROVE TitlesInv
  OBVIOUS
<1>1. row \in [Experience -> RowState] BY DEF TitlesInit, RowState
<1>2. jobs \in Seq(Experience) BY DEF TitlesInit
<1> QED BY <1>1, <1>2, FillerStart, OffTyped DEF TitlesInit, TitlesInv, TitlesTypeOK

(* What the operations on the queue and on the worker keep.                *)
LEMMA EnqueueTyped ==
  ASSUME TitlesTypeOK, NEW x \in Experience, Enqueue(x)
  PROVE jobs' \in Seq(Experience) /\ permit' \in BOOLEAN
<1>1. Append(jobs, x) \in Seq(Experience) BY DEF TitlesTypeOK
<1> QED BY <1>1 DEF TitlesTypeOK, Enqueue

(* Starting the worker leaves it typed, whether it ran already or not. *)
LEMMA EnsureTyped ==
  ASSUME TitlesInv, EnsureWorker
  PROVE titler' \in TitlerState /\ AtWork(titler')
BY TitleConstants DEF TitlesInv, TitlesTypeOK, EnsureWorker, TitlerState, AtWork, Off

(* A filler that finishes leaves fillers and permit typed. *)
LEMMA FinishTyped ==
  ASSUME TitlesTypeOK, NEW f \in Filler, Finish(f)
  PROVE /\ filler' \in [Filler -> {"idle", "check", "defer", "hook", "flag", "fill", "over"}]
        /\ permit' \in BOOLEAN
BY DEF TitlesTypeOK, Finish, FillerGoto, Filler

(* Queueing the rows a filler listed keeps the queue typed. *)
LEMMA ListedTyped ==
  ASSUME TitlesTypeOK, NEW f \in {"worker"} \cup Filler, EnqueueListed(f)
  PROVE /\ jobs' \in Seq(Experience) /\ permit' \in BOOLEAN
        /\ todo' \in [{"worker"} \cup Filler -> SUBSET Experience]
<1>1. PICK x \in todo[f] : Enqueue(x) /\ todo' = [todo EXCEPT ![f] = @ \ {x}]
  BY DEF EnqueueListed
<1>2. x \in Experience BY DEF TitlesTypeOK
<1> QED BY <1>1, <1>2, EnqueueTyped DEF TitlesTypeOK

(* A row whose title, activity or mark is changed is a row. *)
LEMMA RowFieldsTyped ==
  ASSUME NEW r \in RowState, NEW b \in BOOLEAN, NEW src \in {"none", "fallback", "llm", "agent", "user"}
  PROVE /\ [r EXCEPT !.src = src, !.empty = b] \in RowState
        /\ [r EXCEPT !.active = b] \in RowState
        /\ [r EXCEPT !.gaveUp = b] \in RowState
BY DEF RowState

(* The writes to the table of experiences keep its type. *)
LEMMA RowEditsTyped ==
  ASSUME row \in [Experience -> RowState], NEW x \in Experience
  PROVE /\ \A b \in BOOLEAN : EditTitle(x, b) \/ SetGaveUp(x, b) => row' \in [Experience -> RowState]
        /\ Archive(x) \/ Restore(x) => row' \in [Experience -> RowState]
<1>1. row[x] \in RowState OBVIOUS
<1>2. ASSUME NEW r \in RowState PROVE [row EXCEPT ![x] = r] \in [Experience -> RowState]
  OBVIOUS
<1>3. ASSUME NEW b \in BOOLEAN, EditTitle(x, b) PROVE row' \in [Experience -> RowState]
  <2>1. row' = [row EXCEPT ![x] = [row[x] EXCEPT !.src = "user", !.empty = b]]
    BY <1>3 DEF EditTitle, RowState
  <2> QED BY <1>1, <1>2, <2>1, RowFieldsTyped
<1>4. ASSUME NEW b \in BOOLEAN, SetGaveUp(x, b) PROVE row' \in [Experience -> RowState]
  <2>1. row' = [row EXCEPT ![x] = [row[x] EXCEPT !.gaveUp = b]] BY <1>4 DEF SetGaveUp
  <2> QED BY <1>1, <1>2, <2>1, RowFieldsTyped
<1>5. ASSUME Archive(x) \/ Restore(x) PROVE row' \in [Experience -> RowState]
  <2>1. PICK b \in BOOLEAN : row' = [row EXCEPT ![x] = [row[x] EXCEPT !.active = b]]
    BY <1>5 DEF Archive, Restore
  <2> QED BY <1>1, <1>2, <2>1, RowFieldsTyped
<1> QED BY <1>3, <1>4, <1>5

(* The steps of the fillers keep the invariant. *)
LEMMA FillerTyped == TitlesInv /\ FillerStep => TitlesInv'
<1> SUFFICES ASSUME TitlesInv, FillerStep PROVE TitlesInv'
  OBVIOUS
<1>a. TitlesTypeOK /\ NeedsTitle \subseteq Experience BY DEF TitlesInv, NeedsTitle
<1> USE DEF TitlesTypeOK, TitlesInv, diskVars, historyVars
<1>1. CASE StartupCheck BY <1>1, EnsureTyped DEF StartupCheck, FillerGoto, Filler
<1>2. CASE StartupDefer BY <1>2 DEF StartupDefer, FillerGoto, Filler
<1>3. CASE ResumeHook
  <2>1. "resume" \in Filler BY DEF Filler
  <2>2. titler' \in TitlerState /\ AtWork(titler') BY <1>3, EnsureTyped DEF ResumeHook
  <2>3. /\ filler' \in [Filler -> {"idle", "check", "defer", "hook", "flag", "fill", "over"}]
        /\ permit' \in BOOLEAN
    BY <1>3, <2>1, FinishTyped DEF ResumeHook, FillerGoto
  <2> QED BY <1>3, <2>2, <2>3 DEF ResumeHook
<1>4. ASSUME NEW f \in Filler, BackfillList(f) PROVE TitlesInv'
  <2>1. /\ filler' \in [Filler -> {"idle", "check", "defer", "hook", "flag", "fill", "over"}]
        /\ permit' \in BOOLEAN
    BY <1>4, <1>a, FinishTyped DEF BackfillList, FillerGoto
  <2>2. todo' \in [{"worker"} \cup Filler -> SUBSET Experience] BY <1>4, <1>a DEF BackfillList
  <2> QED BY <1>4, <2>1, <2>2 DEF BackfillList
<1>5. ASSUME NEW f \in Filler, BackfillEnqueue(f) PROVE TitlesInv'
  BY <1>5, <1>a, ListedTyped DEF BackfillEnqueue
<1>6. ASSUME NEW f \in Filler, BackfillDone(f) PROVE TitlesInv'
  BY <1>6, <1>a, FinishTyped DEF BackfillDone
<1> QED BY <1>1, <1>2, <1>3, <1>4, <1>5, <1>6 DEF FillerStep

(* The steps of the worker keep the invariant. *)
LEMMA WorkerTyped == TitlesInv /\ WorkerStep => TitlesInv'
<1> SUFFICES ASSUME TitlesInv, WorkerStep PROVE TitlesInv'
  OBVIOUS
<1>a. TitlesTypeOK BY DEF TitlesInv
<1> USE DEF TitlesTypeOK, TitlesInv, diskVars, historyVars, RestKept, TitlerAt, TitlerGoto, TitlerState
<1>b. TitlerIdles => titler' \in TitlerState /\ AtWork(titler')
  BY TitleConstants DEF TitlerIdles, Off, AtWork
<1>1. CASE WorkerList
  <2>1. todo' \in [{"worker"} \cup Filler -> SUBSET Experience]
    BY <1>1 DEF WorkerList, NeedsTitle
  <2> QED BY <1>1, <2>1 DEF WorkerList, AtWork
<1>2. CASE WorkerFill
  <2>1. CASE EnqueueListed("worker") /\ UNCHANGED titler
    BY <1>2, <2>1, <1>a, ListedTyped DEF WorkerFill
  <2>2. CASE TitlerGoto("look") /\ UNCHANGED <<jobs, permit, todo>>
    BY <1>2, <2>2 DEF WorkerFill, AtWork
  <2> QED BY <1>2, <2>1, <2>2 DEF WorkerFill
<1>3. CASE WorkerPark BY <1>3 DEF WorkerPark
<1>4. CASE WorkerPop
  <2>1. CASE jobs = << >> BY <1>4, <2>1 DEF WorkerPop, AtWork
  <2>2. CASE jobs # << >>
    <3>1. Head(jobs) \in Experience /\ Tail(jobs) \in Seq(Experience) BY <2>2
    <3>2. titler' = [titler EXCEPT !.pc = "held", !.job = Head(jobs)] /\ jobs' = Tail(jobs)
      BY <1>4, <2>2 DEF WorkerPop
    <3>3. titler' \in TitlerState /\ AtWork(titler') BY <1>4, <3>1, <3>2 DEF WorkerPop, AtWork
    <3> QED BY <1>4, <3>1, <3>2, <3>3 DEF WorkerPop
  <2> QED BY <2>1, <2>2
<1>5. CASE WorkerWait BY <1>5 DEF WorkerWait, AtWork
<1>6. CASE WorkerHalted
  <2>1. titler.job \in Experience BY <1>6 DEF WorkerHalted, AtWork
  <2>2. jobs' \in Seq(Experience) BY <1>6, <2>1 DEF WorkerHalted, PutBack
  <2> QED BY <1>6, <1>b, <2>2 DEF WorkerHalted, PutBack
<1>7. CASE WorkerRead BY <1>7, <1>b DEF WorkerRead, Serve, AtWork
<1>8. CASE WorkerTry BY <1>8 DEF WorkerTry, AtWork
<1>9. CASE WorkerAsk
  <2>1. titler.tries \in Nat /\ titler.tries < MaxTries /\ titler.job \in Experience
    BY <1>9 DEF WorkerAsk, AtWork
  <2>2. ASSUME NEW src \in {"llm", "fallback"}, titler' = [titler EXCEPT !.pc = "apply", !.answer = src]
        PROVE titler' \in TitlerState /\ AtWork(titler')
    BY <2>1, <2>2 DEF AtWork
  <2>3. ASSUME titler' = [titler EXCEPT !.tries = @ + 1,
                                        !.pc = IF titler.tries + 1 < MaxTries THEN "try" ELSE "giveup"]
        PROVE titler' \in TitlerState /\ AtWork(titler')
    <3>1. titler.tries + 1 \in 0..MaxTries BY <2>1, TitleConstants
    <3>2. titler' \in TitlerState BY <2>3, <3>1
    <3>3. titler'.pc \in {"try", "giveup"} /\ titler'.job = titler.job
          /\ titler'.tries = titler.tries + 1
          /\ (titler.tries + 1 < MaxTries \/ titler'.pc = "giveup")
      BY <2>3
    <3> QED BY <2>1, <3>2, <3>3 DEF AtWork
  <2>4. titler' \in TitlerState /\ AtWork(titler') BY <1>9, <2>2, <2>3 DEF WorkerAsk
  <2> QED BY <1>9, <2>4 DEF WorkerAsk
<1>10. CASE WorkerApply
  <2>1. ASSUME NEW src \in {"none", "llm", "fallback"}, SetTitle(titler.job, src)
        PROVE row' \in [Experience -> RowState]
    BY <2>1, RowFieldsTyped DEF SetTitle
  <2>2. titler' \in TitlerState /\ AtWork(titler') BY <1>10 DEF WorkerApply, AtWork
  <2>3. row' \in [Experience -> RowState] BY <1>10, <2>1 DEF WorkerApply
  <2> QED BY <1>10, <2>2, <2>3 DEF WorkerApply
<1>11. CASE WorkerMark
  <2>1. titler.job \in Experience BY <1>11 DEF WorkerMark, AtWork
  <2>2. row' \in [Experience -> RowState] BY <1>11, <2>1, RowEditsTyped DEF WorkerMark
  <2> QED BY <1>11, <1>b, <2>1, <2>2 DEF WorkerMark, Serve
<1> QED BY <1>1, <1>2, <1>3, <1>4, <1>5, <1>6, <1>7, <1>8, <1>9, <1>10, <1>11 DEF WorkerStep

(* Every step does. *)
LEMMA TitlesStepInv == TitlesInv /\ [TitlesNext]_titleVars => TitlesInv'
<1> SUFFICES ASSUME TitlesInv, [TitlesNext]_titleVars PROVE TitlesInv'
  OBVIOUS
<1>a. TitlesTypeOK BY DEF TitlesInv
<1> USE DEF TitlesTypeOK, TitlesInv, diskVars, historyVars
<1>1. CASE WorkerStep BY <1>1, WorkerTyped
<1>2. CASE FillerStep BY <1>2, FillerTyped
<1>3. CASE Halt BY <1>3 DEF Halt
<1>4. CASE Resume BY <1>4 DEF Resume, FillerGoto, Filler
<1>5. CASE Die
  <2>1. jobs' \in Seq(Experience) BY <1>5 DEF Die
  <2> QED BY <1>5, <2>1, FillerStart, OffTyped DEF Die
<1>6. ASSUME NEW x \in Experience, UserEdit(x) PROVE TitlesInv'
  <2>1. row' \in [Experience -> RowState] BY <1>6, RowEditsTyped DEF UserEdit
  <2> QED BY <1>6, <2>1 DEF UserEdit
<1>7. ASSUME NEW x \in Experience, EnqueueTitle(x) PROVE TitlesInv'
  BY <1>7, <1>a, EnqueueTyped, EnsureTyped DEF EnqueueTitle
<1>8. ASSUME NEW x \in Experience, NEW src \in {"fallback", "agent"}, Record(x, src) PROVE TitlesInv'
  <2>1. row' \in [Experience -> RowState] BY <1>8 DEF Record, Insert, RowState
  <2> QED BY <1>8, <2>1 DEF Record
<1>9. ASSUME NEW x \in Experience, HandlerDropped(x) PROVE TitlesInv'
  BY <1>9, EnsureTyped DEF HandlerDropped
<1>10. ASSUME NEW x \in Experience, RecordLocally(x) PROVE TitlesInv'
  <2>1. row' \in [Experience -> RowState] BY <1>10 DEF RecordLocally, Insert, RowState
  <2> QED BY <1>10, <2>1 DEF RecordLocally
<1>11. CASE UNCHANGED titleVars BY <1>11 DEF titleVars
<1> QED BY <1>1, <1>2, <1>3, <1>4, <1>5, <1>6, <1>7, <1>8, <1>9, <1>10, <1>11 DEF TitlesNext
(* Whatever the model answers, however late, with edits, halts, retries and *)
(* deaths in between: a title of an agent or of the user is replaced by    *)
(* the user only.                                                          *)
THEOREM TitlesStay == TitlesSpec => []TitlesTypeOK /\ TitleKept
<1> DEFINE TitlesKeep == \A x \in Experience :
      row[x].src \in {"agent", "user"} /\ ~row[x].empty => row'[x].src \in {row[x].src, "user"}
<1>1. ASSUME TitlesInv, [TitlesNext]_titleVars PROVE TitlesKeep
  <2> SUFFICES ASSUME NEW y \in Experience, row[y].src \in {"agent", "user"}, ~row[y].empty
               PROVE row'[y].src \in {row[y].src, "user"}
    OBVIOUS
  <2>a. row \in [Experience -> RowState] BY <1>1 DEF TitlesInv, TitlesTypeOK
  <2>b. row' = row => row'[y].src \in {row[y].src, "user"} OBVIOUS
  <2>c. \A x, src : SetTitle(x, src) => row'[y] = row[y]
    BY <2>a DEF SetTitle, MayReplace
  <2>d. \A x, b : SetGaveUp(x, b) => row'[y].src = row[y].src
    BY <2>a DEF SetGaveUp, RowState
  <2>1. CASE WorkerStep
    <3>1. CASE WorkerApply BY <3>1, <2>c DEF WorkerApply
    <3>2. CASE WorkerMark BY <3>2, <2>d DEF WorkerMark
    <3>3. CASE ~WorkerApply /\ ~WorkerMark
      BY <2>1, <3>3, <2>b
         DEF WorkerStep, WorkerList, WorkerFill, WorkerPark, WorkerPop, WorkerWait,
           WorkerHalted, WorkerRead, WorkerTry, WorkerAsk, diskVars
    <3> QED BY <3>1, <3>2, <3>3
  <2>2. CASE FillerStep \/ Halt \/ Resume \/ Die \/ UNCHANGED titleVars
    BY <2>2, <2>b
       DEF FillerStep, StartupCheck, StartupDefer, ResumeHook, BackfillList, BackfillEnqueue,
         BackfillDone, Halt, Resume, Die, diskVars, titleVars
  <2>3. ASSUME NEW x \in Experience, UserEdit(x) PROVE row'[y].src \in {row[y].src, "user"}
    <3>1. \A b \in BOOLEAN : EditTitle(x, b) => row'[y].src \in {row[y].src, "user"}
      BY <2>a DEF EditTitle, RowState
    <3>2. Archive(x) \/ Restore(x) => row'[y].src = row[y].src
      BY <2>a DEF Archive, Restore, RowState
    <3> QED BY <2>3, <3>1, <3>2 DEF UserEdit
  <2>4. ASSUME NEW x \in Experience, EnqueueTitle(x) PROVE row'[y].src \in {row[y].src, "user"}
    BY <2>4, <2>b DEF EnqueueTitle, diskVars
  <2>5. ASSUME NEW x \in Experience, NEW src \in {"fallback", "agent"}, Record(x, src)
        PROVE row'[y].src \in {row[y].src, "user"}
    <3>1. x # y BY <2>5 DEF Record, Insert
    <3> QED BY <2>a, <2>5, <3>1 DEF Record, Insert
  <2>6. ASSUME NEW x \in Experience, HandlerDropped(x) PROVE row'[y].src \in {row[y].src, "user"}
    BY <2>6, <2>b DEF HandlerDropped, diskVars
  <2>7. ASSUME NEW x \in Experience, RecordLocally(x) PROVE row'[y].src \in {row[y].src, "user"}
    <3>1. x # y BY <2>7 DEF RecordLocally, Insert
    <3> QED BY <2>a, <2>7, <3>1 DEF RecordLocally, Insert
  <2> QED BY <1>1, <2>1, <2>2, <2>3, <2>4, <2>5, <2>6, <2>7 DEF TitlesNext
<1>2. [TitlesNext]_titleVars /\ TitlesInv => [TitlesKeep]_titleVars
  BY <1>1
<1>3. TitlesInv => TitlesTypeOK BY DEF TitlesInv
<1> QED BY TitlesInitInv, TitlesStepInv, <1>2, <1>3, PTL DEF TitlesSpec, TitleKept

(* No untitled row is forgotten.  A filler keeps a list only while it goes *)
(* through it; the worker's list is made of all that is untitled.          *)
Listed == \A f \in Filler : ~FillerAt(f, "fill") => todo[f] = {}
Covered(x) == x \in served \cup missed \/ InHand(x) \/ titler.pc \in {"off", "list"}
ForgetNone == TitlesInv /\ Listed /\ NoneForgotten /\ WorkerComes

(* What is queued is in the queue, with all that was there, and a queue    *)
(* that grew has left a wake-up.                                           *)
LEMMA EnqueueHolds ==
  ASSUME TitlesTypeOK, NEW x \in Experience, Enqueue(x)
  PROVE  /\ InQueue(x)' /\ \A y \in Experience : InQueue(y) => InQueue(y)'
         /\ UNCHANGED <<jobs, permit>> \/ permit'
<1>1. CASE InQueue(x) BY <1>1 DEF Enqueue, InQueue
<1>2. CASE ~InQueue(x)
  <2>1. jobs' = Append(jobs, x) /\ permit' BY <1>2 DEF Enqueue
  <2>2. jobs \in Seq(Experience) BY DEF TitlesTypeOK
  <2>3. /\ DOMAIN jobs' = 1..(Len(jobs) + 1) /\ Len(jobs) \in Nat /\ DOMAIN jobs = 1..Len(jobs)
        /\ jobs'[Len(jobs) + 1] = x /\ \A i \in DOMAIN jobs : jobs'[i] = jobs[i]
    BY <2>1, <2>2
  <2>4. InQueue(x)' BY <2>3 DEF InQueue
  <2>5. ASSUME NEW y \in Experience, InQueue(y) PROVE InQueue(y)'
    <3>1. PICK i \in DOMAIN jobs : jobs[i] = y BY <2>5 DEF InQueue
    <3> QED BY <2>3, <3>1 DEF InQueue
  <2> QED BY <2>1, <2>4, <2>5
<1> QED BY <1>1, <1>2

(* The worker, started or running before, has every row covered.           *)
LEMMA EnsureCovers ==
  ASSUME TitlesInv, EnsureWorker
  PROVE  /\ titler' = titler \/ titler'.pc = "list"
         /\ titler'.pc # "off" /\ (titler'.pc = "wait" => titler.pc = "wait")
BY DEF TitlesInv, TitlesTypeOK, EnsureWorker, TitlerState, Off

(* What is moved from a list to the queue stays in hand.                   *)
LEMMA ListedStays ==
  ASSUME TitlesInv, NEW f \in {"worker"} \cup Filler, EnqueueListed(f), UNCHANGED <<recording, titler>>
  PROVE  /\ \A x \in Experience : InHand(x) => InHand(x)'
         /\ UNCHANGED <<jobs, permit>> \/ permit'
         /\ \A g \in Filler : todo[g] = {} => todo'[g] = {}
<1>1. PICK y \in todo[f] : Enqueue(y) /\ todo' = [todo EXCEPT ![f] = @ \ {y}]
  BY DEF EnqueueListed
<1>2. TitlesTypeOK /\ y \in Experience BY DEF TitlesInv, TitlesTypeOK
<1>3. /\ InQueue(y)' /\ \A x \in Experience : InQueue(x) => InQueue(x)'
      /\ UNCHANGED <<jobs, permit>> \/ permit'
  BY <1>1, <1>2, EnqueueHolds
<1>4. \A g \in {"worker"} \cup Filler : todo'[g] = IF g = f THEN todo[g] \ {y} ELSE todo[g]
  BY <1>1, <1>2 DEF TitlesTypeOK
<1>5. ASSUME NEW x \in Experience, InHand(x) PROVE InHand(x)'
  <2>1. CASE x = y BY <1>3, <2>1 DEF InHand
  <2>2. CASE x # y
    <3>1. CASE \E g \in {"worker"} \cup Filler : x \in todo[g]
      BY <1>4, <2>2, <3>1 DEF InHand
    <3>2. CASE ~\E g \in {"worker"} \cup Filler : x \in todo[g]
      BY <1>3, <1>5, <3>2 DEF InHand
    <3> QED BY <3>1, <3>2
  <2> QED BY <2>1, <2>2
<1> QED BY <1>3, <1>4, <1>5

(* The worker's steps: what is untitled stays covered, a queue with a job  *)
(* has its wake-up, and the lists of the fillers are left alone.           *)
LEMMA WorkerCovers ==
  ASSUME ForgetNone, WorkerStep
  PROVE  /\ \A x \in Experience : Untitled(x) => Covered(x)'
         /\ Listed' /\ WorkerComes'
<1> USE DEF ForgetNone
<1>a. TitlesTypeOK /\ AtWork(titler) /\ titler \in TitlerState /\ jobs \in Seq(Experience)
  BY DEF TitlesInv, TitlesTypeOK
<1>b. /\ \A x \in Experience : Untitled(x) => Covered(x)
      /\ UNCHANGED <<halted, filler, recording>> /\ titler'.pc # "off"
  <2>1. UNCHANGED <<halted, filler, recording>>
    BY DEF WorkerStep, WorkerList, WorkerFill, WorkerPark, WorkerPop, WorkerWait,
       WorkerHalted, WorkerRead, WorkerTry, WorkerAsk, WorkerApply, WorkerMark, RestKept, diskVars
  <2>2. titler'.pc # "off"
    <3> USE <1>a DEF TitlerState, TitlerGoto, TitlerAt, TitlerIdles, Off
    <3>1. CASE WorkerList BY <3>1 DEF WorkerList
    <3>2. CASE WorkerFill BY <3>2 DEF WorkerFill
    <3>3. CASE WorkerPark BY <3>3 DEF WorkerPark
    <3>4. CASE WorkerPop BY <3>4 DEF WorkerPop
    <3>5. CASE WorkerWait BY <3>5 DEF WorkerWait
    <3>6. CASE WorkerHalted BY <3>6 DEF WorkerHalted, PutBack
    <3>7. CASE WorkerRead BY <3>7 DEF WorkerRead, Serve
    <3>8. CASE WorkerTry BY <3>8 DEF WorkerTry
    <3>9. CASE WorkerAsk BY <3>9 DEF WorkerAsk
    <3>10. CASE WorkerApply BY <3>10 DEF WorkerApply
    <3>11. CASE WorkerMark BY <3>11 DEF WorkerMark, Serve
    <3> QED BY <3>1, <3>2, <3>3, <3>4, <3>5, <3>6, <3>7, <3>8, <3>9, <3>10, <3>11 DEF WorkerStep
  <2> QED BY <2>1, <2>2 DEF NoneForgotten, Covered
<1>c. ASSUME UNCHANGED todo PROVE Listed' BY <1>b, <1>c DEF Listed, FillerAt
<1>d. ASSUME titler'.pc # "wait" PROVE WorkerComes' BY <1>b, <1>d DEF WorkerComes, TitlerAt
<1>w. ASSUME UNCHANGED <<jobs, todo, served, missed>>, titler'.job = titler.job,
             titler.pc \in {"held", "try", "ask", "apply", "clear", "giveup", "mark", "look", "wait"},
             titler.pc \in {"look", "wait"} \/
               titler'.pc \in {"held", "try", "ask", "apply", "clear", "giveup", "mark"}
      PROVE  \A x \in Experience : Untitled(x) => Covered(x)'
  BY <1>b, <1>w DEF Covered, InHand, InQueue
<1>1. CASE WorkerList
  <2>1. \A x \in Experience : Untitled(x) => x \in todo'["worker"] \/ x \in missed'
    BY <1>1, <1>a DEF WorkerList, NeedsTitle, TitlesTypeOK
  <2>2. \A f \in Filler : todo'[f] = todo[f]
    BY <1>1, <1>a DEF WorkerList, TitlesTypeOK, Filler
  <2>3. titler'.pc = "fill" BY <1>1, <1>a DEF WorkerList, TitlerGoto, TitlerState
  <2> QED BY <1>b, <1>d, <2>1, <2>2, <2>3 DEF Covered, InHand, Listed, FillerAt
<1>2. CASE WorkerFill
  <2>0. UNCHANGED <<served, missed>> /\ titler.pc = "fill"
    BY <1>2 DEF WorkerFill, historyVars, TitlerAt
  <2>1. CASE EnqueueListed("worker") /\ UNCHANGED titler
    <3>1. /\ \A x \in Experience : InHand(x) => InHand(x)'
          /\ \A g \in Filler : todo[g] = {} => todo'[g] = {}
      BY <1>b, <2>1, ListedStays
    <3> QED BY <1>b, <1>d, <2>0, <2>1, <3>1 DEF Covered, Listed, FillerAt
  <2>2. CASE todo.worker = {} /\ TitlerGoto("look") /\ UNCHANGED <<jobs, permit, todo>>
    <3>1. titler'.pc = "look" BY <1>a, <2>2 DEF TitlerGoto, TitlerState
    <3> QED BY <1>b, <1>c, <1>d, <2>0, <2>2, <3>1 DEF Covered, InHand, InQueue
  <2> QED BY <1>2, <2>1, <2>2 DEF WorkerFill
<1>3. CASE WorkerPark
  BY <1>3, <1>b, <1>c, <1>d DEF WorkerPark, TitlerAt, historyVars, Covered, InHand, InQueue
<1>4. CASE WorkerPop
  <2>0. UNCHANGED <<served, missed, todo>> /\ titler.pc = "look"
    BY <1>4 DEF WorkerPop, historyVars, TitlerAt
  <2>1. CASE jobs = << >>
    <3>1. titler'.pc = "wait" /\ titler'.job = titler.job /\ UNCHANGED jobs
      BY <1>4, <1>a, <2>1 DEF WorkerPop, TitlerGoto, TitlerState
    <3>2. WorkerComes' BY <2>1, <3>1 DEF WorkerComes, TitlerAt
    <3> QED BY <1>c, <1>w, <2>0, <3>1, <3>2
  <2>2. CASE jobs # << >>
    <3>1. titler'.pc = "held" /\ titler'.job = Head(jobs) /\ jobs' = Tail(jobs)
      BY <1>4, <1>a, <2>2 DEF WorkerPop, TitlerState
    <3>2. ASSUME NEW x \in Experience, InQueue(x) PROVE x = Head(jobs) \/ InQueue(x)'
      <4>1. PICK i \in DOMAIN jobs : jobs[i] = x BY <3>2 DEF InQueue
      <4>2. CASE i = 1 BY <4>1, <4>2
      <4>3. CASE i # 1
        <5>1. i - 1 \in DOMAIN Tail(jobs) /\ Tail(jobs)[i - 1] = x BY <1>a, <2>2, <4>1, <4>3
        <5> QED BY <3>1, <5>1 DEF InQueue
      <4> QED BY <4>2, <4>3
    <3> QED BY <1>b, <1>c, <1>d, <2>0, <3>1, <3>2 DEF Covered, InHand
  <2> QED BY <2>1, <2>2
<1>5. CASE WorkerWait
  <2>1. /\ UNCHANGED <<served, missed, todo, jobs>> /\ titler.pc = "wait"
        /\ titler'.pc = "look" /\ titler'.job = titler.job
    BY <1>5, <1>a DEF WorkerWait, historyVars, TitlerAt, TitlerGoto, TitlerState
  <2> QED BY <1>c, <1>d, <1>w, <2>1
<1>6. CASE WorkerHalted
  <2>0. /\ UNCHANGED <<served, missed, todo>> /\ titler.pc \in {"held", "try"}
        /\ titler'.pc = "look" /\ jobs' = <<titler.job>> \o jobs
    BY <1>6 DEF WorkerHalted, PutBack, TitlerIdles, Off, historyVars, TitlerAt
  <2>1. titler.job \in Experience BY <1>a, <2>0 DEF AtWork
  <2>2. /\ 1 \in DOMAIN jobs' /\ jobs'[1] = titler.job
        /\ \A i \in DOMAIN jobs : i + 1 \in DOMAIN jobs' /\ jobs'[i + 1] = jobs[i]
    BY <1>a, <2>0, <2>1
  <2>3. \A x \in Experience : InQueue(x) \/ x = titler.job => InQueue(x)'
    BY <2>2 DEF InQueue
  <2> QED BY <1>b, <1>c, <1>d, <2>0, <2>3 DEF Covered, InHand
<1>7. CASE WorkerRead \/ WorkerMark
  <2>0. /\ UNCHANGED <<missed, todo, jobs>>
        /\ titler.pc \in {"held", "clear", "mark"}
    BY <1>7 DEF WorkerRead, WorkerMark, TitlerAt
  <2>1. CASE Serve
    <3>1. titler'.pc = "look" /\ served' = served \cup {titler.job}
      BY <2>1 DEF Serve, TitlerIdles, Off
    <3> QED BY <1>b, <1>c, <1>d, <2>0, <3>1 DEF Covered, InHand, InQueue
  <2>2. CASE TitlerGoto("try") /\ UNCHANGED served
    <3>1. titler'.pc = "try" /\ titler'.job = titler.job
      BY <1>a, <2>2 DEF TitlerGoto, TitlerState
    <3> QED BY <1>c, <1>d, <1>w, <2>0, <2>2, <3>1
  <2> QED BY <1>7, <2>1, <2>2 DEF WorkerRead, WorkerMark
<1>8. CASE WorkerTry \/ WorkerAsk \/ WorkerApply
  <2>1. UNCHANGED <<served, missed, todo, jobs>>
    BY <1>8 DEF WorkerTry, WorkerAsk, WorkerApply, historyVars
  <2>2. /\ titler.pc \in {"try", "ask", "apply", "giveup"} /\ titler'.job = titler.job
        /\ titler'.pc \in {"try", "ask", "apply", "clear", "giveup", "mark"}
    <3> USE <1>a DEF TitlerState, TitlerGoto, TitlerAt
    <3>1. CASE WorkerTry BY <3>1 DEF WorkerTry
    <3>2. CASE WorkerAsk BY <3>2 DEF WorkerAsk
    <3>3. CASE WorkerApply BY <3>3 DEF WorkerApply
    <3> QED BY <1>8, <3>1, <3>2, <3>3
  <2> QED BY <1>c, <1>d, <1>w, <2>1, <2>2
<1> QED BY <1>1, <1>2, <1>3, <1>4, <1>5, <1>6, <1>7, <1>8 DEF WorkerStep

(* The same of the start and of a resume; a list is emptied before its     *)
(* filler is over.                                                         *)
LEMMA FillerCovers ==
  ASSUME ForgetNone, FillerStep
  PROVE  /\ \A x \in Experience : Untitled(x) => Covered(x)'
         /\ Listed' /\ WorkerComes'
<1> USE DEF ForgetNone
<1>a. /\ TitlesTypeOK /\ TitlesInv /\ \A x \in Experience : Untitled(x) => Covered(x)
      /\ filler \in [Filler -> {"idle", "check", "defer", "hook", "flag", "fill", "over"}]
  BY DEF TitlesInv, TitlesTypeOK, NoneForgotten, Covered
<1>b. UNCHANGED <<served, recording, halted>>
  BY DEF FillerStep, StartupCheck, StartupDefer, ResumeHook, BackfillList, BackfillEnqueue,
     BackfillDone, diskVars, historyVars
<1>c. ASSUME UNCHANGED <<jobs, todo, missed>>, UNCHANGED titler \/ EnsureWorker
      PROVE  \A x \in Experience : Untitled(x) => Covered(x)'
  BY <1>a, <1>b, <1>c, EnsureCovers DEF Covered, InHand, InQueue
<1>s. "startup" \in Filler /\ "resume" \in Filler /\ "startup" # "resume" BY DEF Filler
<1>1. CASE StartupCheck
  <2>0. UNCHANGED <<jobs, todo, permit, missed>> /\ FillerAt("startup", "check")
    BY <1>1 DEF StartupCheck, historyVars
  <2>1. CASE halted /\ FillerGoto("startup", "defer") /\ UNCHANGED titler
    <3>1. \A f \in Filler : FillerAt(f, "fill") => FillerAt(f, "fill")'
      BY <1>a, <2>0, <2>1 DEF FillerAt, FillerGoto
    <3> QED BY <1>b, <1>c, <2>0, <2>1, <3>1 DEF Listed, WorkerComes, TitlerAt
  <2>2. CASE FillerGoto("startup", "flag") /\ EnsureWorker
    <3>1. \A f \in Filler : FillerAt(f, "fill") => FillerAt(f, "fill")'
      BY <1>a, <2>0, <2>2 DEF FillerAt, FillerGoto
    <3>2. WorkerComes' BY <1>a, <2>0, <2>2, EnsureCovers DEF WorkerComes, TitlerAt
    <3> QED BY <1>c, <2>0, <2>2, <3>1, <3>2 DEF Listed
  <2> QED BY <1>1, <2>1, <2>2 DEF StartupCheck
<1>2. CASE StartupDefer
  <2>1. /\ UNCHANGED <<jobs, todo, permit, titler, missed>> /\ ~FillerAt("startup", "check")
        /\ FillerAt("resume", "hook") => FillerAt("resume", "hook")'
        /\ \A f \in Filler : FillerAt(f, "fill") => FillerAt(f, "fill")'
    BY <1>2, <1>a, <1>s DEF StartupDefer, FillerAt, FillerGoto, historyVars
  <2> QED BY <1>b, <1>c, <2>1 DEF Listed, WorkerComes, TitlerAt
<1>3. CASE ResumeHook
  <2>1. UNCHANGED <<jobs, todo, missed>> /\ EnsureWorker /\ FillerAt("resume", "hook")
    BY <1>3 DEF ResumeHook, historyVars
  <2>2. UNCHANGED permit \/ permit' \in {permit, TRUE}
    BY <1>3, <1>a DEF ResumeHook, Finish, TitlesTypeOK
  <2>3. \A f \in Filler : FillerAt(f, "fill") => FillerAt(f, "fill")'
    BY <1>3, <1>a, <2>1 DEF ResumeHook, Finish, FillerAt, FillerGoto
  <2>4. WorkerComes' BY <1>a, <2>1, <2>2, EnsureCovers DEF WorkerComes, TitlerAt
  <2> QED BY <1>c, <2>1, <2>3, <2>4 DEF Listed
<1>d. ASSUME NEW f \in Filler, NEW l, FillerAt(f, "flag") \/ FillerAt(f, "fill"), FillerGoto(f, l)
      PROVE  /\ FillerAt("startup", "check") => FillerAt("startup", "check")'
             /\ FillerAt("resume", "hook") => FillerAt("resume", "hook")'
             /\ \A g \in Filler : g # f => filler'[g] = filler[g]
             /\ filler'[f] = l
  BY <1>a, <1>d, <1>s DEF FillerAt, FillerGoto
<1>4. ASSUME NEW f \in Filler, BackfillList(f)
      PROVE  (\A x \in Experience : Untitled(x) => Covered(x)') /\ Listed' /\ WorkerComes'
  <2>0. UNCHANGED <<jobs, titler>> /\ FillerAt(f, "flag") /\ todo[f] = {}
    BY <1>4, <1>a DEF BackfillList, Listed, FillerAt
  <2>1. CASE Finish(f) /\ UNCHANGED <<todo, missed>>
    <3>1. permit' = permit \/ permit' BY <2>1, <1>a DEF Finish, TitlesTypeOK
    <3>2. PICK l : l \in {"idle", "over"} /\ FillerGoto(f, l) BY <2>1 DEF Finish
    <3>3. Listed' BY <1>d, <2>0, <2>1, <3>2 DEF Listed, FillerAt
    <3>4. WorkerComes' BY <1>b, <1>d, <2>0, <3>1, <3>2 DEF WorkerComes, TitlerAt
    <3> QED BY <1>c, <2>0, <2>1, <3>3, <3>4
  <2>2. CASE /\ FillerGoto(f, "fill") /\ UNCHANGED permit
             /\ todo' = [todo EXCEPT ![f] = NeedsTitle] /\ missed' = missed \ NeedsTitle
    <3>1. \A g \in {"worker"} \cup Filler : todo'[g] = IF g = f THEN NeedsTitle ELSE todo[g]
      BY <1>a, <2>2 DEF TitlesTypeOK
    <3>2. \A x \in Experience : InHand(x) => InHand(x)'
      BY <1>b, <2>0, <3>1 DEF InHand, InQueue
    <3>3. Listed' BY <1>d, <2>0, <2>2, <3>1 DEF Listed, FillerAt
    <3>4. WorkerComes' BY <1>b, <1>d, <2>0, <2>2 DEF WorkerComes, TitlerAt
    <3>5. \A x \in NeedsTitle : InHand(x)' BY <3>1 DEF InHand
    <3>6. \A x \in Experience : x \in missed => x \in missed' \/ InHand(x)' BY <2>2, <3>5
    <3> QED BY <1>a, <1>b, <2>0, <3>2, <3>3, <3>4, <3>6 DEF Covered
  <2> QED BY <1>4, <2>1, <2>2 DEF BackfillList
<1>5. ASSUME NEW f \in Filler, BackfillEnqueue(f)
      PROVE  (\A x \in Experience : Untitled(x) => Covered(x)') /\ Listed' /\ WorkerComes'
  <2>1. UNCHANGED <<titler, filler, recording, missed>> /\ EnqueueListed(f)
    BY <1>5 DEF BackfillEnqueue, historyVars
  <2>2. /\ \A x \in Experience : InHand(x) => InHand(x)'
        /\ UNCHANGED <<jobs, permit>> \/ permit'
        /\ \A g \in Filler : todo[g] = {} => todo'[g] = {}
    BY <1>a, <2>1, ListedStays
  <2> QED BY <1>a, <1>b, <2>1, <2>2 DEF Covered, Listed, WorkerComes, FillerAt, TitlerAt
<1>6. ASSUME NEW f \in Filler, BackfillDone(f)
      PROVE  (\A x \in Experience : Untitled(x) => Covered(x)') /\ Listed' /\ WorkerComes'
  <2>0. /\ UNCHANGED <<jobs, titler, todo, missed>> /\ FillerAt(f, "fill")
        /\ todo[f] = {} /\ Finish(f)
    BY <1>6 DEF BackfillDone, historyVars
  <2>1. permit' = permit \/ permit' BY <2>0, <1>a DEF Finish, TitlesTypeOK
  <2>2. PICK l : l \in {"idle", "over"} /\ FillerGoto(f, l) BY <2>0 DEF Finish
  <2>3. Listed' BY <1>d, <2>0, <2>2 DEF Listed, FillerAt
  <2>4. WorkerComes' BY <1>b, <1>d, <2>0, <2>1, <2>2 DEF WorkerComes, TitlerAt
  <2> QED BY <1>c, <2>0, <2>3, <2>4
<1> QED BY <1>1, <1>2, <1>3, <1>4, <1>5, <1>6 DEF FillerStep

(* The same of users, clients, halts and deaths.                           *)
LEMMA OthersCover ==
  ASSUME ForgetNone, [TitlesNext]_titleVars, ~WorkerStep, ~FillerStep
  PROVE  /\ \A x \in Experience : Untitled(x) => Covered(x)'
         /\ Listed' /\ WorkerComes'
<1> USE DEF ForgetNone
<1>a. /\ TitlesTypeOK /\ TitlesInv /\ \A x \in Experience : Untitled(x) => Covered(x)
      /\ filler \in [Filler -> {"idle", "check", "defer", "hook", "flag", "fill", "over"}]
  BY DEF TitlesInv, TitlesTypeOK, NoneForgotten, Covered
<1>s. "startup" \in Filler /\ "resume" \in Filler /\ "startup" # "resume" BY DEF Filler
<1>q. ASSUME UNCHANGED <<jobs, permit, titler, todo, filler, served>>, missed \subseteq missed',
             recording \subseteq recording', halted => halted'
      PROVE  (\A x \in Experience : Untitled(x) => Covered(x)') /\ Listed' /\ WorkerComes'
  BY <1>a, <1>q DEF Covered, InHand, InQueue, Listed, WorkerComes, FillerAt, TitlerAt
<1>1. CASE Halt BY <1>1, <1>q DEF Halt, historyVars
<1>2. CASE Resume
  <2>1. /\ UNCHANGED <<jobs, permit, titler, todo, served, missed, recording>>
        /\ filler' = [filler EXCEPT !["resume"] = "hook"] /\ filler["resume"] = "idle"
    BY <1>2 DEF Resume, historyVars, FillerAt, FillerGoto
  <2>2. filler'["resume"] = "hook" /\ \A f \in Filler : FillerAt(f, "fill") => FillerAt(f, "fill")'
    BY <1>a, <1>s, <2>1 DEF FillerAt
  <2> QED BY <1>a, <2>1, <2>2 DEF Covered, InHand, InQueue, Listed, WorkerComes, FillerAt, TitlerAt
<1>3. CASE Die
  BY <1>3 DEF Die, Covered, Listed, WorkerComes, FillerAt, TitlerAt, Off, Filler
<1>4. ASSUME NEW x \in Experience, UserEdit(x)
      PROVE  (\A y \in Experience : Untitled(y) => Covered(y)') /\ Listed' /\ WorkerComes'
  BY <1>4, <1>q DEF UserEdit, historyVars
<1>5. ASSUME NEW x \in Experience, EnqueueTitle(x)
      PROVE  (\A y \in Experience : Untitled(y) => Covered(y)') /\ Listed' /\ WorkerComes'
  <2>1. /\ UNCHANGED <<todo, filler, served, missed, halted>> /\ recording' = recording \ {x}
        /\ EnsureWorker /\ Enqueue(x)
    BY <1>5 DEF EnqueueTitle, historyVars, diskVars
  <2>2. /\ InQueue(x)' /\ \A y \in Experience : InQueue(y) => InQueue(y)'
        /\ UNCHANGED <<jobs, permit>> \/ permit'
    BY <1>a, <2>1, EnqueueHolds
  <2>3. \A y \in Experience : Covered(y) => Covered(y)'
    BY <1>a, <2>1, <2>2, EnsureCovers DEF Covered, InHand
  <2>4. WorkerComes' BY <1>a, <2>1, <2>2, EnsureCovers DEF WorkerComes, TitlerAt
  <2> QED BY <1>a, <2>1, <2>3, <2>4 DEF Listed, FillerAt
<1>6. ASSUME NEW x \in Experience, NEW src \in {"fallback", "agent"}, Record(x, src)
      PROVE  (\A y \in Experience : Untitled(y) => Covered(y)') /\ Listed' /\ WorkerComes'
  BY <1>6, <1>q DEF Record, historyVars
<1>7. CASE UNCHANGED titleVars BY <1>7, <1>q DEF titleVars, historyVars, diskVars
<1>8. ASSUME NEW x \in Experience, HandlerDropped(x)
      PROVE  (\A y \in Experience : Untitled(y) => Covered(y)') /\ Listed' /\ WorkerComes'
  <2>1. /\ UNCHANGED <<jobs, permit, todo, filler, served, halted>> /\ recording' = recording \ {x}
        /\ missed' = missed \cup {x} /\ (EnsureWorker \/ UNCHANGED titler)
    BY <1>8 DEF HandlerDropped, diskVars
  <2>2. \A y \in Experience : Covered(y) => Covered(y)'
    BY <1>a, <2>1, EnsureCovers DEF Covered, InHand, InQueue
  <2>3. WorkerComes' BY <1>a, <2>1, EnsureCovers DEF WorkerComes, TitlerAt, FillerAt
  <2> QED BY <1>a, <2>1, <2>2, <2>3 DEF Listed, FillerAt
<1>9. ASSUME NEW x \in Experience, RecordLocally(x)
      PROVE  (\A y \in Experience : Untitled(y) => Covered(y)') /\ Listed' /\ WorkerComes'
  BY <1>9, <1>q DEF RecordLocally
<1> QED BY <1>1, <1>2, <1>3, <1>4, <1>5, <1>6, <1>7, <1>8, <1>9 DEF TitlesNext

(* A row that becomes untitled is being recorded, or named as unqueued, or *)
(* is the worker's job.                                                    *)
LEMMA UntitledComes ==
  ASSUME TitlesInv, [TitlesNext]_titleVars, NEW x \in Experience, ~Untitled(x), Untitled(x)'
  PROVE  Covered(x)'
<1>a. /\ TitlesTypeOK /\ AtWork(titler) /\ titler \in TitlerState
      /\ row \in [Experience -> RowState] /\ row' # row
  BY DEF TitlesInv, TitlesTypeOK, Untitled
<1>1. CASE WorkerStep
  <2>1. WorkerApply \/ WorkerMark
    BY <1>1, <1>a DEF WorkerStep, WorkerList, WorkerFill, WorkerPark, WorkerPop, WorkerWait,
       WorkerHalted, WorkerRead, WorkerTry, WorkerAsk, diskVars
  <2>2. CASE WorkerApply
    <3>1. x = titler.job
      <4>1. \E src \in {"none", "llm", "fallback"} : SetTitle(titler.job, src)
        BY <1>a, <2>2 DEF WorkerApply, TitlerState
      <4>2. x # titler.job => row'[x] = row[x] BY <1>a, <4>1 DEF SetTitle
      <4> QED BY <4>2 DEF Untitled
    <3>2. titler'.pc \in {"clear", "mark"} /\ titler'.job = titler.job
      BY <1>a, <2>2 DEF WorkerApply, TitlerGoto, TitlerState
    <3> QED BY <3>1, <3>2 DEF Covered, InHand
  <2>3. CASE WorkerMark
    <3>1. x = titler.job
      <4>1. x # titler.job => row'[x] = row[x] BY <1>a, <2>3 DEF WorkerMark, SetGaveUp
      <4> QED BY <4>1 DEF Untitled
    <3> QED BY <2>3, <3>1 DEF WorkerMark, Serve, Covered
  <2> QED BY <2>1, <2>2, <2>3
<1>2. CASE FillerStep \/ Halt \/ Resume \/ Die \/ UNCHANGED titleVars
  BY <1>2, <1>a DEF FillerStep, StartupCheck, StartupDefer, ResumeHook, BackfillList,
     BackfillEnqueue, BackfillDone, Halt, Resume, Die, diskVars, titleVars
<1>3. ASSUME NEW y \in Experience, UserEdit(y) PROVE FALSE
  <2>1. row[y] \in RowState BY <1>a
  <2>2. row'[x] = row[x] \/ x = y BY <1>3, <1>a DEF UserEdit, EditTitle, Archive, Restore
  <2>3. CASE \E empty \in BOOLEAN : EditTitle(y, empty)
    <3>1. row'[y].src = "user" BY <1>a, <2>3, <2>1 DEF EditTitle, RowState
    <3> QED BY <2>2, <3>1 DEF Untitled
  <2>4. CASE Archive(y) \/ Restore(y)
    <3>1. row'[y].src = row[y].src /\ row'[y].gaveUp = row[y].gaveUp
      BY <1>a, <2>4, <2>1 DEF Archive, Restore, RowState
    <3> QED BY <2>2, <3>1 DEF Untitled
  <2> QED BY <1>3, <2>3, <2>4 DEF UserEdit
<1>4. ASSUME NEW y \in Experience, EnqueueTitle(y) PROVE FALSE
  BY <1>4, <1>a DEF EnqueueTitle, diskVars
<1>5. ASSUME NEW y \in Experience, NEW src \in {"fallback", "agent"}, Record(y, src)
      PROVE  Covered(x)'
  <2>1. x = y
    <3>1. x # y => row'[x] = row[x] BY <1>5, <1>a DEF Record, Insert
    <3> QED BY <3>1 DEF Untitled
  <2>2. row[y] \in RowState BY <1>a
  <2>3. row'[y].src = src BY <1>5, <1>a, <2>2 DEF Record, Insert, RowState
  <2>4. src = "fallback" BY <2>1, <2>3 DEF Untitled
  <2>5. x \in recording' BY <1>5, <2>1, <2>4 DEF Record
  <2> QED BY <2>5 DEF Covered, InHand
<1>6. ASSUME NEW y \in Experience, HandlerDropped(y) PROVE FALSE
  BY <1>6, <1>a DEF HandlerDropped, diskVars
<1>7. ASSUME NEW y \in Experience, RecordLocally(y) PROVE Covered(x)'
  <2>1. x # y => row'[x] = row[x] BY <1>7, <1>a DEF RecordLocally, Insert
  <2>2. x = y BY <2>1 DEF Untitled
  <2> QED BY <1>7, <2>2 DEF RecordLocally, Covered
<1> QED BY <1>1, <1>2, <1>3, <1>4, <1>5, <1>6, <1>7 DEF TitlesNext

(* No untitled row is forgotten between recording, lists, queue and worker, *)
(* and no job waits beside a worker that sleeps or was never started,       *)
(* whatever halts, resumes, edits and deaths come in between.               *)
THEOREM NoTitleForgotten == TitlesSpec => [](NoneForgotten /\ WorkerComes)
<1>1. TitlesInit => ForgetNone
  <2> SUFFICES ASSUME TitlesInit PROVE ForgetNone OBVIOUS
  <2>1. Listed BY DEF TitlesInit, Listed, Filler
  <2>2. NoneForgotten /\ WorkerComes
    BY DEF TitlesInit, NoneForgotten, WorkerComes, Off, TitlerAt, FillerAt
  <2> QED BY <2>1, <2>2, TitlesInitInv DEF ForgetNone
<1>2. ForgetNone /\ [TitlesNext]_titleVars => ForgetNone'
  <2> SUFFICES ASSUME ForgetNone, [TitlesNext]_titleVars PROVE ForgetNone'
    OBVIOUS
  <2>1. TitlesInv' BY TitlesStepInv DEF ForgetNone
  <2>2. (\A x \in Experience : Untitled(x) => Covered(x)') /\ Listed' /\ WorkerComes'
    BY WorkerCovers, FillerCovers, OthersCover
  <2>3. \A x \in Experience : Untitled(x)' => Covered(x)'
    BY <2>2, UntitledComes DEF ForgetNone
  <2> QED BY <2>1, <2>2, <2>3 DEF ForgetNone, NoneForgotten, Covered
<1> QED BY <1>1, <1>2, PTL DEF TitlesSpec, ForgetNone

-----------------------------------------------------------------------------
(* LayaFiles.  Types first: what was seen is seen of every file, a file is *)
(* placed where the list has one, and the last verification comes after    *)
(* the whole list.                                                         *)

SeenAll(r) == r.pc = "compare" => r.saw \in [File -> Content]
Placing == mgr.pc \in {"down", "copy"} => mgr.at <= Len(Artifacts)
ListEnded ==
  /\ mgr.stage = "last" => mgr.at = Len(Artifacts) + 1
  /\ mgr.pc \notin {"hash", "compare"} => mgr.stage = "first"

FilesTyped == FilesTypeOK /\ SeenAll(mgr) /\ SeenAll(reader) /\ Placing /\ ListEnded

(* A manifest without hashes lists no file. *)
LEMMA NoHashesEmpty == DOMAIN NoHashes = {} /\ DOMAIN << >> = {}
BY DEF NoHashes

(* The list of artifacts names every file of the model. *)
LEMMA ListedFiles ==
  /\ Len(Artifacts) \in Nat
  /\ \A i \in 1..Len(Artifacts) : Artifacts[i] \in File
  /\ \A f \in File : \E i \in 1..Len(Artifacts) : Artifacts[i] = f
BY FilesConstants DEF File, ToSet

(* The two states the manager starts an ensure from are typed. *)
LEMMA IdleTyped == Idle \in MgrState /\ Start \in MgrState
<1>1. 1 \in 1..(Len(Artifacts) + 1) BY ListedFiles
<1>2. Idle \in MgrState BY <1>1 DEF Idle, MgrState
<1> QED BY <1>2 DEF Start, MgrState

(* A comparison deletes files and leaves the others as they are, and it    *)
(* writes a manifest where there is none, of what it saw.                  *)
LEMMA CompareEffect ==
  ASSUME FilesTypeOK, NEW saw \in [File -> Content], NEW hashes \in {NoHashes} \cup [Hashed -> Version],
         Compare(saw, hashes)
  PROVE /\ file' \in [File -> {"none"} \cup Content]
        /\ manifest' \in {NoHashes} \cup [File -> Content]
        /\ torn' = torn
        /\ \A f \in File : file'[f] \in {"none", file[f]}
        /\ manifest' \in {manifest, saw}
        /\ manifest # NoHashes => manifest' = manifest
        /\ Verified(saw, hashes) => file' = file
        /\ ~torn => \A f \in Differing(saw, hashes) \cap File : file'[f] = "none"
        /\ ~torn => \A f \in File \ Differing(saw, hashes) : file'[f] = file[f]
<1>1. file' = [f \in File |-> IF ~torn /\ f \in Differing(saw, hashes) THEN "none" ELSE file[f]]
  BY DEF Compare, Deleted
<1>2. manifest' = (IF Writes(saw, hashes) THEN saw ELSE manifest) /\ torn' = torn
  BY DEF Compare
<1>3. \A f \in File : file'[f] = IF ~torn /\ f \in Differing(saw, hashes) THEN "none" ELSE file[f]
  BY <1>1
<1>4. file' \in [File -> {"none"} \cup Content] BY <1>1 DEF FilesTypeOK
<1>5. manifest' \in {manifest, saw} /\ (manifest # NoHashes => manifest' = manifest)
  BY <1>2 DEF Writes
<1>6. ASSUME Verified(saw, hashes) PROVE file' = file
  BY <1>1, <1>6 DEF Verified, FilesTypeOK
<1> QED BY <1>2, <1>3, <1>4, <1>5, <1>6 DEF FilesTypeOK

(* Any files on disk, and an idle manager, are typed. *)
LEMMA FilesInitTyped == FilesInit => FilesTyped
<1> SUFFICES ASSUME FilesInit PROVE FilesTyped
  OBVIOUS
<1>1. file \in [File -> {"none"} \cup Content] BY DEF FilesInit, Content, Version
<1>2. faults \in 0..MaxFaults /\ failures \in 0..2 BY FilesConstants DEF FilesInit
<1>3. mgr \in MgrState /\ mgr.pc = "hash" /\ mgr.stage = "start"
  BY IdleTyped DEF FilesInit, Start, Idle
<1>4. reader \in [pc : {"idle", "compare"}, saw : {<< >>} \cup [File -> Content]] /\ reader.pc = "idle"
  BY DEF FilesInit
<1>5. manifest = NoHashes /\ hub \in Version /\ engine = "downloading" /\ ~torn /\ ~fellBack /\ ~disturbed
      /\ torn \in BOOLEAN /\ fellBack \in BOOLEAN /\ disturbed \in BOOLEAN
  BY DEF FilesInit, Version
<1> QED BY <1>1, <1>2, <1>3, <1>4, <1>5 DEF FilesTyped, FilesTypeOK, SeenAll, Placing, ListEnded

(* What the common ends of a step do to the counters and the manager.      *)
LEMMA CountersTyped ==
  ASSUME FilesTypeOK, Fault \/ NoFault
  PROVE disturbed' \in BOOLEAN /\ failures' \in 0..2 /\ faults' \in 0..MaxFaults
<1>0. disturbed \in BOOLEAN /\ failures \in 0..2 /\ faults \in 0..MaxFaults BY DEF FilesTypeOK
<1>1. CASE Fault BY <1>0, <1>1, FilesConstants DEF Fault
<1>2. CASE NoFault BY <1>0, <1>2 DEF NoFault
<1> QED BY <1>1, <1>2

(* A manager that gives up is idle again. *)
LEMMA GiveUpTyped ==
  ASSUME FilesTypeOK, GiveUp
  PROVE /\ mgr' = Idle /\ engine' \in {"downloading", "ready", "failed"}
        /\ disturbed' \in BOOLEAN /\ failures' \in 0..2 /\ faults' \in 0..MaxFaults
BY DEF FilesTypeOK, GiveUp

(* After a failed verification the manager is idle or fetches. *)
LEMMA NotVerifiedTyped ==
  ASSUME FilesTyped, NotVerified
  PROVE /\ mgr' \in MgrState /\ engine' \in {"downloading", "ready", "failed"}
        /\ disturbed' \in BOOLEAN /\ failures' \in 0..2 /\ faults' \in 0..MaxFaults
        /\ mgr'.pc \in {"idle", "fetch"} /\ mgr'.stage = "first"
<1> USE DEF FilesTyped
<1>0. mgr \in MgrState BY DEF FilesTypeOK
<1>1. CASE mgr.stage = "start" /\ mgr' = Idle /\ NoFault /\ UNCHANGED engine
  BY <1>1, IdleTyped, CountersTyped DEF FilesTypeOK, Idle
<1>2. CASE mgr.stage = "first" /\ MgrGoto("fetch") /\ engine' = "downloading" /\ NoFault
  <2>1. mgr' \in MgrState /\ mgr'.pc = "fetch" /\ mgr'.stage = "first"
    BY <1>0, <1>2 DEF MgrGoto, MgrState
  <2> QED BY <1>2, <2>1, CountersTyped
<1>3. CASE mgr.stage = "last" /\ GiveUp
  BY <1>3, IdleTyped, GiveUpTyped DEF Idle
<1> QED BY <1>1, <1>2, <1>3 DEF NotVerified
(* Every step of the manager, of the disk and of a death keeps the types. *)
LEMMA FilesStepTyped == FilesTyped /\ [FilesNext]_filesVars => FilesTyped'
<1> SUFFICES ASSUME FilesTyped, [FilesNext]_filesVars PROVE FilesTyped'
  OBVIOUS
<1>a. /\ FilesTypeOK /\ mgr \in MgrState /\ file \in [File -> {"none"} \cup Content]
      /\ SeenAll(mgr) /\ SeenAll(reader)
  BY DEF FilesTyped, FilesTypeOK
<1>n. Len(Artifacts) \in Nat BY ListedFiles
<1>0. mgr.pc \in {"idle", "fetch", "get", "down", "copy"} => mgr.stage = "first"
  BY DEF FilesTyped, ListEnded
<1>1. CASE Ensure
  <2>1. mgr' = [Idle EXCEPT !.pc = IF Present THEN "hash" ELSE "fetch"] BY <1>1 DEF Ensure
  <2>2. mgr' \in MgrState /\ mgr'.pc \in {"hash", "fetch"} /\ mgr'.stage = "first"
    BY <2>1, IdleTyped DEF Idle, MgrState
  <2> QED BY <1>1, <2>2 DEF Ensure, FilesTyped, FilesTypeOK, SeenAll, Placing, ListEnded
<1>2. CASE HashFiles
  <2>1. CASE Present
    <3>1. file \in [File -> Content] BY <1>a, <2>1 DEF Present
    <3>2. mgr' = [mgr EXCEPT !.pc = "compare", !.saw = file] BY <1>2, <2>1 DEF HashFiles
    <3>3. mgr' \in MgrState /\ mgr'.pc = "compare" /\ mgr'.saw \in [File -> Content]
          /\ mgr'.stage = mgr.stage /\ mgr'.at = mgr.at
      BY <1>a, <3>1, <3>2 DEF MgrState
    <3>4. UNCHANGED <<file, manifest, torn, hub, reader, fellBack, engine, failures, disturbed, faults>>
      BY <1>2, <2>1 DEF HashFiles, NoFault
    <3> QED BY <3>3, <3>4 DEF FilesTyped, FilesTypeOK, SeenAll, Placing, ListEnded
  <2>2. CASE ~Present
    <3>1. NotVerified /\ UNCHANGED <<file, manifest, torn, hub, reader, fellBack>>
      BY <1>2, <2>2 DEF HashFiles
    <3> QED BY <3>1, NotVerifiedTyped DEF FilesTyped, FilesTypeOK, SeenAll, Placing, ListEnded
  <2> QED BY <2>1, <2>2
<1>3. CASE CompareFiles
  <2>1. mgr.saw \in [File -> Content] /\ mgr.hashes \in {NoHashes} \cup [Hashed -> Version]
    BY <1>3, <1>a DEF CompareFiles, MgrAt, SeenAll, MgrState
  <2>2. Compare(mgr.saw, mgr.hashes) /\ UNCHANGED <<hub, reader, fellBack>>
    BY <1>3 DEF CompareFiles
  <2>3. /\ file' \in [File -> {"none"} \cup Content]
        /\ manifest' \in {NoHashes} \cup [File -> Content] /\ torn' = torn
    BY <1>a, <2>1, <2>2, CompareEffect
  <2>4. CASE Succeed
    BY <2>2, <2>3, <2>4, IdleTyped
       DEF Succeed, Idle, FilesTyped, FilesTypeOK, SeenAll, Placing, ListEnded
  <2>5. CASE NotVerified
    BY <2>2, <2>3, <2>5, NotVerifiedTyped
       DEF FilesTyped, FilesTypeOK, SeenAll, Placing, ListEnded
  <2> QED BY <1>3, <2>4, <2>5 DEF CompareFiles
<1>4. CASE FetchHashes
  <2>1. PICK hashes \in {NoHashes, [f \in Hashed |-> hub]} :
          mgr' = [mgr EXCEPT !.pc = "get", !.hashes = hashes]
    BY <1>4 DEF FetchHashes
  <2>2. hashes \in {NoHashes} \cup [Hashed -> Version] BY <1>a, <2>1 DEF FilesTypeOK
  <2>3. mgr' \in MgrState /\ mgr'.pc = "get" /\ mgr'.stage = "first" /\ mgr'.at = mgr.at
    BY <1>4, <1>a, <1>0, <2>1, <2>2 DEF FetchHashes, MgrAt, MgrState
  <2> QED BY <1>4, <2>3
          DEF FetchHashes, NoFault, FilesTyped, FilesTypeOK, SeenAll, Placing, ListEnded
<1>5. ASSUME NextFile, mgr.at <= Len(Artifacts), mgr.pc \in {"get", "down", "copy"}, mgr.stage # "last"
      PROVE mgr' \in MgrState /\ mgr'.pc = "get" /\ mgr'.stage = "first"
  <2>1. mgr.at \in Nat /\ mgr.at + 1 \in 1..(Len(Artifacts) + 1)
    BY <1>a, <1>n, <1>5 DEF MgrState
  <2> QED BY <1>a, <1>0, <1>5, <2>1 DEF NextFile, MgrState
<1>6. mgr.pc \in {"get", "down", "copy"} /\ mgr.at <= Len(Artifacts) => mgr.stage # "last"
  BY <1>a, <1>n DEF FilesTyped, ListEnded, MgrState
<1>7. CASE GetFile
  <2>1. mgr.at \in 1..Len(Artifacts) /\ mgr.pc = "get" /\ mgr.stage = "first"
    BY <1>7, <1>0, <1>a, <1>n, <1>6 DEF GetFile, MgrAt, MgrState
  <2>2. CASE NextFile /\ UNCHANGED file
    BY <1>7, <1>5, <2>1, <2>2
       DEF GetFile, NoFault, FilesTyped, FilesTypeOK, SeenAll, Placing, ListEnded
  <2>3. CASE MgrGoto("down") /\ file' = [file EXCEPT ![Here] = "none"]
    <3>1. mgr' \in MgrState /\ mgr'.pc = "down" /\ mgr'.stage = mgr.stage /\ mgr'.at = mgr.at
      BY <1>a, <2>3 DEF MgrGoto, MgrState
    <3>2. file' \in [File -> {"none"} \cup Content] BY <1>a, <2>3
    <3> QED BY <1>7, <2>1, <3>1, <3>2
            DEF GetFile, NoFault, FilesTyped, FilesTypeOK, SeenAll, Placing, ListEnded
  <2> QED BY <1>7, <2>2, <2>3 DEF GetFile
<1>8. CASE PlaceFile
  <2>1. mgr.at <= Len(Artifacts) /\ mgr.pc = "down"
    BY <1>8 DEF PlaceFile, MgrAt, FilesTyped, Placing
  <2>2. fellBack' \in BOOLEAN /\ (Fault \/ NoFault) /\ UNCHANGED <<manifest, torn, hub, engine, reader>>
    BY <1>8, <1>a DEF PlaceFile, FilesTypeOK
  <2>3. CASE CopyAside
    <3>1. file' \in [File -> {"none"} \cup Content]
      BY <1>a, <2>3 DEF CopyAside, FilesTypeOK, Content
    <3>2. mgr' \in MgrState /\ mgr'.pc = "get" /\ mgr'.stage = "first"
      BY <2>1, <2>3, <1>0, <1>5, <1>6 DEF CopyAside
    <3> QED BY <1>a, <2>2, <3>1, <3>2, CountersTyped
            DEF FilesTyped, FilesTypeOK, SeenAll, Placing, ListEnded
  <2>4. CASE CopyInPlace
    <3>1. file' \in [File -> {"none"} \cup Content] BY <1>a, <2>4 DEF CopyInPlace, Content
    <3>2. mgr' \in MgrState /\ mgr'.pc = "copy" /\ mgr'.stage = "first" /\ mgr'.at = mgr.at
      BY <1>a, <1>0, <2>1, <2>4 DEF CopyInPlace, MgrGoto, MgrState
    <3> QED BY <1>a, <2>1, <2>2, <3>1, <3>2, CountersTyped
            DEF FilesTyped, FilesTypeOK, SeenAll, Placing, ListEnded
  <2> QED BY <1>8, <2>3, <2>4 DEF PlaceFile
<1>9. CASE CopyDone
  <2>1. mgr.at <= Len(Artifacts) /\ mgr.pc = "copy"
    BY <1>9 DEF CopyDone, MgrAt, FilesTyped, Placing
  <2>2. file' \in [File -> {"none"} \cup Content]
    BY <1>9, <1>a DEF CopyDone, FilesTypeOK, Content
  <2>3. mgr' \in MgrState /\ mgr'.pc = "get" /\ mgr'.stage = "first"
    BY <1>9, <2>1, <1>0, <1>5, <1>6 DEF CopyDone
  <2> QED BY <1>9, <2>2, <2>3
          DEF CopyDone, NoFault, FilesTyped, FilesTypeOK, SeenAll, Placing, ListEnded
<1>10. CASE DownloadFails
  <2>1. mgr.stage = "first" BY <1>10, <1>0 DEF DownloadFails, MgrAt
  <2>2. /\ mgr' \in MgrState /\ mgr'.pc \in {"get", "idle"} /\ mgr'.stage = "first"
        /\ engine' \in {"downloading", "ready", "failed"}
    <3>1. CASE mgr.attempt = 1
      <4>1. mgr' = [mgr EXCEPT !.pc = "get", !.at = 1, !.attempt = 2] /\ engine' = engine
        BY <1>10, <3>1 DEF DownloadFails
      <4>2. 1 \in 1..(Len(Artifacts) + 1) BY <1>n
      <4>f. /\ mgr.stage \in {"start", "first", "last"} /\ mgr.hashes \in {NoHashes} \cup [Hashed -> Version]
            /\ mgr.saw \in {<< >>} \cup [File -> Content]
        BY <1>a DEF MgrState
      <4>r. mgr' = [pc |-> "get", stage |-> mgr.stage, hashes |-> mgr.hashes, saw |-> mgr.saw,
                    at |-> 1, attempt |-> 2]
        BY <1>a, <4>1 DEF MgrState
      <4>3. mgr' \in MgrState
        <5> DEFINE m == [pc |-> "get", stage |-> mgr.stage, hashes |-> mgr.hashes, saw |-> mgr.saw,
                         at |-> 1, attempt |-> 2]
        <5>1. m \in MgrState BY <4>2, <4>f DEF MgrState
        <5> QED BY <4>r, <5>1
      <4>4. mgr'.pc = "get" /\ mgr'.stage = mgr.stage BY <1>a, <4>1 DEF MgrState
      <4>5. engine' \in {"downloading", "ready", "failed"} BY <1>a, <4>1 DEF FilesTypeOK
      <4> QED BY <2>1, <4>3, <4>4, <4>5
    <3>2. CASE mgr.attempt # 1 BY <1>10, <3>2, IdleTyped DEF DownloadFails, Idle
    <3> QED BY <3>1, <3>2
  <2> QED BY <1>10, <1>a, <2>2, CountersTyped
          DEF DownloadFails, FilesTyped, FilesTypeOK, SeenAll, Placing, ListEnded
<1>11. CASE Downloaded
  <2>1. mgr.at = Len(Artifacts) + 1 BY <1>11, <1>a, <1>n DEF Downloaded, MgrState
  <2>2. mgr' \in MgrState /\ mgr'.pc = "hash" /\ mgr'.at = Len(Artifacts) + 1
    BY <1>11, <1>a, <2>1 DEF Downloaded, MgrState
  <2> QED BY <1>11, <2>2
          DEF Downloaded, NoFault, FilesTyped, FilesTypeOK, SeenAll, Placing, ListEnded
<1>12. CASE ReadFiles
  <2>1. file \in [File -> Content] BY <1>12, <1>a DEF ReadFiles, Present
  <2> QED BY <1>12, <2>1 DEF ReadFiles, FilesTyped, FilesTypeOK, SeenAll, Placing, ListEnded
<1>13. CASE ReadCompare
  <2>1. reader.saw \in [File -> Content] BY <1>13, <1>a DEF ReadCompare, SeenAll
  <2>2. /\ file' \in [File -> {"none"} \cup Content]
        /\ manifest' \in {NoHashes} \cup [File -> Content] /\ torn' = torn
    BY <1>13, <1>a, <2>1, CompareEffect DEF ReadCompare
  <2>3. disturbed' \in BOOLEAN /\ failures' \in 0..2 /\ faults' \in 0..MaxFaults
    <3>1. CASE Verified(reader.saw, NoHashes)
      BY <1>13, <1>a, <3>1 DEF ReadCompare, NoFault, FilesTypeOK
    <3>2. CASE ~Verified(reader.saw, NoHashes) BY <1>13, <1>a, <3>2 DEF ReadCompare, FilesTypeOK
    <3> QED BY <3>1, <3>2
  <2>4. reader' \in [pc : {"idle", "compare"}, saw : {<< >>} \cup [File -> Content]] /\ reader'.pc = "idle"
    BY <1>13 DEF ReadCompare
  <2> QED BY <1>13, <2>2, <2>3, <2>4
          DEF ReadCompare, FilesTyped, FilesTypeOK, SeenAll, Placing, ListEnded
<1>14. CASE HubMoves
  BY <1>14, <1>a, CountersTyped
     DEF HubMoves, Version, FilesTyped, FilesTypeOK, SeenAll, Placing, ListEnded
<1>15. CASE Crash
  <2>1. torn' \in BOOLEAN BY <1>15, <1>a DEF Crash, FilesTypeOK
  <2>2. mgr' \in MgrState /\ mgr'.pc = "hash" /\ mgr'.stage = "start"
    BY <1>15, IdleTyped DEF Crash, Start, Idle
  <2>3. reader' \in [pc : {"idle", "compare"}, saw : {<< >>} \cup [File -> Content]] /\ reader'.pc = "idle"
    BY <1>15 DEF Crash
  <2> QED BY <1>15, <1>a, <2>1, <2>2, <2>3, CountersTyped
          DEF Crash, FilesTyped, FilesTypeOK, SeenAll, Placing, ListEnded
<1>16. ASSUME NEW f \in File, Rot(f) PROVE FilesTyped'
  <2>1. file' \in [File -> {"none"} \cup Content] BY <1>16, <1>a DEF Rot, Content
  <2> QED BY <1>16, <1>a, <2>1, CountersTyped
          DEF Rot, FilesTyped, FilesTypeOK, SeenAll, Placing, ListEnded
<1>17. CASE UNCHANGED filesVars
  BY <1>17 DEF filesVars, FilesTyped, FilesTypeOK, SeenAll, Placing, ListEnded
<1> QED BY <1>1, <1>2, <1>3, <1>4, <1>7, <1>8, <1>9, <1>10, <1>11, <1>12, <1>13, <1>14, <1>15,
        <1>16,
           <1>17 DEF FilesNext
(* Nothing cut off is on disk, was seen, or is in the manifest, as long as *)
(* no rename failed.                                                       *)
NonePart(g) == \A f \in DOMAIN g : g[f] # "part"
AllWhole == mgr.pc # "copy" /\ NonePart(file) /\ NonePart(mgr.saw) /\ NonePart(reader.saw) /\ NonePart(manifest)
WholeInv == FilesTyped /\ (~fellBack => AllWhole)

(* A comparison of whole files leaves files and manifest whole. *)
LEMMA CompareWhole ==
  ASSUME FilesTypeOK, NEW saw \in [File -> Content], NEW hashes \in {NoHashes} \cup [Hashed -> Version],
         Compare(saw, hashes), NonePart(saw), NonePart(file), NonePart(manifest)
  PROVE NonePart(file') /\ NonePart(manifest')
<1>1. /\ file' \in [File -> {"none"} \cup Content] /\ \A f \in File : file'[f] \in {"none", file[f]}
      /\ manifest' \in {manifest, saw}
  BY CompareEffect
<1>2. DOMAIN file = File BY DEF FilesTypeOK
<1> QED BY <1>1, <1>2 DEF NonePart

(* While no file was copied in place, files and manifest stay whole. *)
LEMMA WholeStep ==
  ASSUME FilesTyped, AllWhole, [FilesNext]_filesVars, ~fellBack'
  PROVE AllWhole'
<1>a. /\ FilesTypeOK /\ mgr \in MgrState /\ file \in [File -> {"none"} \cup Content]
      /\ SeenAll(mgr) /\ SeenAll(reader) /\ hub \in {"old", "new"}
      /\ mgr.pc # "copy" /\ NonePart(file) /\ NonePart(mgr.saw) /\ NonePart(reader.saw) /\ NonePart(manifest)
  BY DEF FilesTyped, FilesTypeOK, AllWhole, Version
<1>i. NonePart(<< >>) /\ NonePart(Idle.saw) /\ NonePart(Start.saw)
  BY NoHashesEmpty DEF NonePart, Idle, Start
<1>g. \A p : MgrGoto(p) => mgr'.saw = mgr.saw /\ mgr'.pc = p BY <1>a DEF MgrGoto, MgrState
<1>n. NextFile => mgr'.saw = mgr.saw /\ mgr'.pc = "get" BY <1>a DEF NextFile, MgrState
<1>v. NotVerified => mgr'.pc # "copy" /\ NonePart(mgr'.saw)
  BY <1>a, <1>i, <1>g DEF NotVerified, GiveUp, Idle
<1>r. ASSUME NEW f, NEW c \in {"none", "bad", "old", "new"}, file' = [file EXCEPT ![f] = c] PROVE NonePart(file')
  BY <1>a, <1>r DEF NonePart
<1>1. CASE Ensure BY <1>1, <1>a, <1>i DEF Ensure, Idle, AllWhole
<1>2. CASE HashFiles
  <2>1. CASE Present
    <3>1. mgr' = [mgr EXCEPT !.pc = "compare", !.saw = file] BY <1>2, <2>1 DEF HashFiles
    <3>2. mgr'.pc = "compare" /\ mgr'.saw = file BY <1>a, <3>1 DEF MgrState
    <3> QED BY <1>2, <1>a, <3>2 DEF HashFiles, AllWhole
  <2>2. CASE ~Present BY <1>2, <1>a, <1>v, <2>2 DEF HashFiles, AllWhole
  <2> QED BY <2>1, <2>2
<1>3. CASE CompareFiles
  <2>1. mgr.saw \in [File -> Content] /\ mgr.hashes \in {NoHashes} \cup [Hashed -> Version]
    BY <1>3, <1>a DEF CompareFiles, MgrAt, SeenAll, MgrState
  <2>2. NonePart(file') /\ NonePart(manifest') /\ reader' = reader
    BY <1>3, <1>a, <2>1, CompareWhole DEF CompareFiles
  <2>3. mgr'.pc # "copy" /\ NonePart(mgr'.saw)
    BY <1>3, <1>i, <1>v DEF CompareFiles, Succeed, Idle
  <2> QED BY <2>2, <2>3 DEF AllWhole
<1>4. CASE FetchHashes
  <2>1. mgr'.pc = "get" /\ mgr'.saw = mgr.saw BY <1>4, <1>a DEF FetchHashes, MgrState
  <2> QED BY <1>4, <1>a, <2>1 DEF FetchHashes, AllWhole
<1>5. CASE GetFile
  <2>1. NonePart(file') BY <1>5, <1>a, <1>r DEF GetFile
  <2>2. mgr'.pc # "copy" /\ mgr'.saw = mgr.saw BY <1>5, <1>g, <1>n DEF GetFile
  <2> QED BY <1>5, <1>a, <2>1, <2>2 DEF GetFile, AllWhole
<1>6. CASE PlaceFile
  <2>1. CopyAside /\ UNCHANGED <<manifest, reader>> BY <1>6 DEF PlaceFile
  <2>2. NonePart(file') BY <2>1, <1>a, <1>r DEF CopyAside
  <2> QED BY <2>1, <2>2, <1>a, <1>n DEF CopyAside, AllWhole
<1>7. CASE CopyDone BY <1>7, <1>a DEF CopyDone, MgrAt
<1>8. CASE DownloadFails
  <2>1. mgr'.pc # "copy" /\ NonePart(mgr'.saw)
    <3>1. CASE mgr.attempt = 1
      <4>1. mgr' = [mgr EXCEPT !.pc = "get", !.at = 1, !.attempt = 2]
        BY <1>8, <3>1 DEF DownloadFails
      <4> QED BY <1>a, <4>1 DEF MgrState
    <3>2. CASE mgr.attempt # 1 BY <1>8, <1>i, <3>2 DEF DownloadFails, Idle
    <3> QED BY <3>1, <3>2
  <2> QED BY <1>8, <1>a, <2>1 DEF DownloadFails, AllWhole
<1>9. CASE Downloaded
  <2>1. mgr'.pc = "hash" /\ mgr'.saw = mgr.saw BY <1>9, <1>a DEF Downloaded, MgrState
  <2> QED BY <1>9, <1>a, <2>1 DEF Downloaded, AllWhole
<1>10. CASE ReadFiles BY <1>10, <1>a DEF ReadFiles, AllWhole
<1>11. CASE ReadCompare
  <2>1. reader.saw \in [File -> Content] BY <1>11, <1>a DEF ReadCompare, SeenAll
  <2>2. NonePart(file') /\ NonePart(manifest')
    BY <1>11, <1>a, <2>1, CompareWhole DEF ReadCompare
  <2> QED BY <1>11, <1>a, <1>i, <2>2 DEF ReadCompare, AllWhole
<1>12. CASE HubMoves BY <1>12, <1>a DEF HubMoves, AllWhole
<1>13. CASE Crash BY <1>13, <1>a, <1>i DEF Crash, Start, Idle, AllWhole
<1>14. ASSUME NEW f \in File, Rot(f) PROVE AllWhole'
  <2>1. NonePart(file') BY <1>14, <1>r DEF Rot
  <2> QED BY <1>14, <1>a, <2>1 DEF Rot, AllWhole
<1>15. CASE UNCHANGED filesVars BY <1>15, <1>a DEF filesVars, AllWhole
<1> QED BY <1>1, <1>2, <1>3, <1>4, <1>5, <1>6, <1>7, <1>8, <1>9, <1>10, <1>11, <1>12, <1>13,
        <1>14, <1>15
        DEF FilesNext

(* A failed rename is remembered.                                          *)
LEMMA FellBackStays == FilesTypeOK /\ [FilesNext]_filesVars /\ fellBack => fellBack'
BY DEF FilesTypeOK, FilesNext, filesVars, Ensure, HashFiles, CompareFiles, FetchHashes,
   GetFile, PlaceFile,
       CopyDone, DownloadFails, Downloaded, ReadFiles, ReadCompare, HubMoves, Crash, Rot

(* They are whole at the start. *)
LEMMA WholeInit == FilesInit => WholeInv
<1> SUFFICES ASSUME FilesInit PROVE WholeInv
  OBVIOUS
<1>1. NonePart(<< >>) /\ NonePart(NoHashes) BY NoHashesEmpty DEF NonePart
<1>2. NonePart(file) BY DEF FilesInit, NonePart
<1> QED BY <1>1, <1>2, FilesInitTyped DEF FilesInit, WholeInv, AllWhole, Start, Idle

(* The manifest vouches for whole files, whatever dies, fails, rots and     *)
(* moves, for any list of files and number of faults.                      *)
THEOREM ManifestVouches == FilesSpec => [](FilesTypeOK /\ VouchesForWhole)
<1>1. WholeInv /\ [FilesNext]_filesVars => WholeInv'
  BY FilesStepTyped, WholeStep, FellBackStays DEF WholeInv, FilesTyped
<1>2. WholeInv => FilesTypeOK /\ VouchesForWhole
  BY DEF WholeInv, FilesTyped, AllWhole, NonePart, VouchesForWhole
<1> QED BY WholeInit, <1>1, <1>2, PTL DEF FilesSpec
(* Ensure repairs.  While nothing disturbs it, the hashes it compares with *)
(* are the hub's, what it has been through of the list is there and agrees *)
(* with them, and what it saw is what is on disk.                          *)
InList == mgr.pc \in {"get", "down", "copy"} \/ mgr.stage = "last"
Good(f) == file[f] # "none" /\ (f \in DOMAIN mgr.hashes => file[f] = hub)
Calm ==
  /\ mgr.pc # "copy"
  /\ mgr.pc = "compare" => mgr.saw = file
  /\ \A f \in DOMAIN mgr.hashes : mgr.hashes[f] = hub
  /\ InList => \A i \in 1..(mgr.at - 1) : Good(Artifacts[i])
  /\ ~InList => mgr.at = 1

(* After one calm failure only what is missing is left to repair.          *)
Repairing == failures >= 1 /\ ~torn /\ ~Pinned =>
  manifest # NoHashes /\ \A f \in File : file[f] \in {"none", hub}

RepairInv == FilesTyped /\ (~disturbed => Calm) /\ Repairing /\ EnsureRepairs

(* An ensure that nothing disturbs stays calm. *)
LEMMA CalmStep ==
  ASSUME FilesTyped, ~disturbed => Calm, [FilesNext]_filesVars, ~disturbed'
  PROVE Calm'
<1>a. /\ FilesTypeOK /\ mgr \in MgrState /\ file \in [File -> {"none"} \cup Content]
      /\ SeenAll(mgr) /\ SeenAll(reader) /\ hub \in Version /\ Len(Artifacts) \in Nat
  BY ListedFiles DEF FilesTyped, FilesTypeOK
<1>i. DOMAIN Idle.hashes = {} /\ Idle.at = 1 /\ Idle.stage = "first" /\ Idle.pc = "idle"
  BY NoHashesEmpty DEF Idle
<1>g. \A p : MgrGoto(p) => /\ mgr'.pc = p /\ mgr'.stage = mgr.stage /\ mgr'.hashes = mgr.hashes
                           /\ mgr'.at = mgr.at /\ mgr'.saw = mgr.saw
  BY <1>a DEF MgrGoto, MgrState
<1>f. ~Fault BY DEF Fault
<1>d. NoFault => ~disturbed BY DEF NoFault
<1>idle. mgr' = Idle => Calm' BY <1>i DEF Calm, InList
<1>v. ASSUME NotVerified, Calm, hub' = hub, mgr.pc \in {"hash", "compare"} PROVE Calm'
  <2>1. CASE mgr' = Idle BY <2>1, <1>idle
  <2>2. CASE mgr.stage = "first" /\ MgrGoto("fetch")
    <3>1. mgr'.pc = "fetch" /\ mgr'.stage = "first" /\ mgr'.hashes = mgr.hashes /\ mgr'.at = mgr.at
      BY <1>g, <2>2
    <3> QED BY <1>v, <2>2, <3>1 DEF Calm, InList
  <2> QED BY <1>v, <2>1, <2>2 DEF NotVerified, GiveUp
<1>1. CASE Ensure
  <2>1. mgr' = [Idle EXCEPT !.pc = IF Present THEN "hash" ELSE "fetch"] BY <1>1 DEF Ensure
  <2>2. mgr'.pc \in {"hash", "fetch"} /\ mgr'.stage = "first" /\ DOMAIN mgr'.hashes = {} /\ mgr'.at = 1
    BY <2>1, <1>i DEF Idle
  <2> QED BY <2>2 DEF Calm, InList
<1>2. CASE HashFiles
  <2>1. CASE Present
    <3>1. mgr' = [mgr EXCEPT !.pc = "compare", !.saw = file] /\ file' = file /\ hub' = hub /\ ~disturbed
      BY <1>2, <1>d, <2>1 DEF HashFiles
    <3>2. /\ mgr'.pc = "compare" /\ mgr'.saw = file /\ mgr'.stage = mgr.stage
          /\ mgr'.hashes = mgr.hashes /\ mgr'.at = mgr.at
      BY <1>a, <3>1 DEF MgrState
    <3>3. mgr.pc = "hash" BY <1>2 DEF HashFiles, MgrAt
    <3> QED BY <3>1, <3>2, <3>3 DEF Calm, InList, Good
  <2>2. CASE ~Present
    <3>1. NotVerified /\ hub' = hub /\ mgr.pc = "hash" BY <1>2, <2>2 DEF HashFiles, MgrAt
    <3>2. ~disturbed BY <3>1 DEF NotVerified, NoFault, GiveUp
    <3> QED BY <1>v, <3>1, <3>2
  <2> QED BY <2>1, <2>2
<1>3. CASE CompareFiles
  <2>1. CASE Succeed BY <2>1, <1>idle DEF Succeed
  <2>2. CASE NotVerified
    <3>1. hub' = hub BY <1>3 DEF CompareFiles
    <3>2. ~disturbed BY <2>2 DEF NotVerified, NoFault, GiveUp
    <3>3. mgr.pc = "compare" BY <1>3 DEF CompareFiles, MgrAt
    <3> QED BY <1>v, <2>2, <3>1, <3>2, <3>3
  <2> QED BY <1>3, <2>1, <2>2 DEF CompareFiles
<1>4. CASE FetchHashes
  <2>1. PICK hashes \in {NoHashes, [f \in Hashed |-> hub]} :
          mgr' = [mgr EXCEPT !.pc = "get", !.hashes = hashes]
    BY <1>4 DEF FetchHashes
  <2>2. mgr'.pc = "get" /\ mgr'.hashes = hashes /\ mgr'.stage = mgr.stage /\ mgr'.at = mgr.at
    BY <1>a, <2>1 DEF MgrState
  <2>3. \A f \in DOMAIN hashes : hashes[f] = hub BY NoHashesEmpty
  <2>4. mgr.stage # "last" /\ mgr.at = 1
    <3>1. Calm /\ mgr.pc = "fetch" BY <1>4, <1>d DEF FetchHashes, MgrAt
    <3>2. mgr.stage = "first" BY <3>1 DEF FilesTyped, ListEnded
    <3> QED BY <3>1, <3>2 DEF Calm, InList
  <2>5. hub' = hub BY <1>4 DEF FetchHashes
  <2> QED BY <2>2, <2>3, <2>4, <2>5 DEF Calm, InList
<1>5. CASE GetFile
  <2>1. Calm /\ mgr.pc = "get" /\ mgr.at \in 1..Len(Artifacts) /\ UNCHANGED <<hub, disturbed>>
    BY <1>5, <1>a, <1>d DEF GetFile, MgrAt, MgrState, NoFault
  <2>2. InList BY <2>1 DEF InList
  <2>3. CASE Keeps(Here) /\ NextFile /\ UNCHANGED file
    <3>1. mgr'.pc = "get" /\ mgr'.stage = mgr.stage /\ mgr'.hashes = mgr.hashes /\ mgr'.at = mgr.at + 1
      BY <1>a, <2>3 DEF NextFile, MgrState
    <3>2. Good(Artifacts[mgr.at]) BY <2>1, <2>3 DEF Keeps, Here, Good, Calm
    <3>3. \A i \in 1..(mgr.at + 1 - 1) : Good(Artifacts[i])
      <4>1. \A i \in 1..(mgr.at + 1 - 1) : i = mgr.at \/ i \in 1..(mgr.at - 1) BY <2>1
      <4> QED BY <4>1, <2>1, <2>2, <3>2 DEF Calm
    <3> QED BY <2>1, <2>3, <3>1, <3>3 DEF Calm, InList, Good
  <2>4. CASE ~Keeps(Here) /\ MgrGoto("down") /\ file' = [file EXCEPT ![Here] = "none"]
    <3>1. \A i \in 1..(mgr.at - 1) : Artifacts[i] # Here /\ Artifacts[i] \in File
      <4>1. ~Good(Here) BY <2>1, <2>4 DEF Keeps, Good, Calm
      <4>2. \A i \in 1..(mgr.at - 1) : i \in 1..Len(Artifacts) BY <1>a, <2>1
      <4> QED BY <4>1, <4>2, <2>1, <2>2, ListedFiles DEF Calm
    <3>2. \A i \in 1..(mgr.at - 1) : Good(Artifacts[i])'
      BY <1>a, <1>g, <2>1, <2>2, <2>4, <3>1 DEF Good, Calm
    <3> QED BY <1>g, <2>1, <2>4, <3>2 DEF Calm, InList
  <2> QED BY <1>5, <2>3, <2>4 DEF GetFile
<1>6. CASE PlaceFile
  <2>1. /\ CopyAside /\ Calm /\ mgr.pc = "down" /\ mgr.at \in 1..Len(Artifacts) /\ UNCHANGED <<hub, disturbed>>
    <3>1. CopyAside /\ NoFault /\ mgr.pc = "down" /\ UNCHANGED hub
      BY <1>6, <1>f DEF PlaceFile, MgrAt
    <3>2. mgr.at \in 1..Len(Artifacts) BY <1>a, <3>1 DEF FilesTyped, Placing, MgrState
    <3> QED BY <1>d, <3>1, <3>2 DEF NoFault
  <2>2. InList BY <2>1 DEF InList
  <2>3. mgr'.pc = "get" /\ mgr'.stage = mgr.stage /\ mgr'.hashes = mgr.hashes /\ mgr'.at = mgr.at + 1
    BY <1>a, <2>1 DEF CopyAside, NextFile, MgrState
  <2>4. Here \in File /\ file' = [file EXCEPT ![Here] = hub]
    BY <2>1, ListedFiles DEF CopyAside, Here
  <2>5. \A i \in 1..(mgr.at + 1 - 1) : Good(Artifacts[i])'
    <3>1. \A i \in 1..(mgr.at + 1 - 1) : (Artifacts[i] = Here \/ i \in 1..(mgr.at - 1)) /\ Artifacts[i] \in File
      <4>1. \A i \in 1..(mgr.at + 1 - 1) : (i = mgr.at \/ i \in 1..(mgr.at - 1)) /\ i \in 1..Len(Artifacts)
        BY <1>a, <2>1
      <4> QED BY <4>1, ListedFiles DEF Here
    <3>2. hub # "none" BY <1>a DEF Version
    <3> QED BY <1>a, <2>1, <2>2, <2>3, <2>4, <3>1, <3>2 DEF Good, Calm
  <2> QED BY <2>1, <2>3, <2>5 DEF Calm, InList
<1>7. CASE CopyDone BY <1>7, <1>d DEF CopyDone, MgrAt, Calm
<1>8. CASE DownloadFails BY <1>8, <1>f DEF DownloadFails
<1>9. CASE Downloaded
  <2>1. Calm /\ mgr.pc = "get" /\ UNCHANGED <<hub, file, disturbed>>
    BY <1>9, <1>d DEF Downloaded, MgrAt, NoFault
  <2>2. mgr'.pc = "hash" /\ mgr'.stage = "last" /\ mgr'.hashes = mgr.hashes /\ mgr'.at = mgr.at
    BY <1>9, <1>a DEF Downloaded, MgrState
  <2> QED BY <2>1, <2>2 DEF Calm, InList, Good
<1>10. CASE ReadFiles BY <1>10 DEF ReadFiles, Calm, InList, Good
<1>11. CASE ReadCompare
  <2>1. reader.saw \in [File -> Content] BY <1>11, <1>a DEF ReadCompare, SeenAll
  <2>2. Verified(reader.saw, NoHashes) /\ ~disturbed BY <1>11, <1>d DEF ReadCompare
  <2>3. file' = file BY <1>11, <1>a, <2>1, <2>2, CompareEffect DEF ReadCompare
  <2> QED BY <1>11, <2>2, <2>3 DEF ReadCompare, Calm, InList, Good
<1>12. CASE HubMoves BY <1>12, <1>f DEF HubMoves
<1>13. CASE Crash BY <1>13, <1>f DEF Crash
<1>14. ASSUME NEW f \in File, Rot(f) PROVE Calm' BY <1>14, <1>f DEF Rot
<1>15. CASE UNCHANGED filesVars BY <1>15 DEF filesVars, Calm, InList, Good
<1> QED BY <1>1, <1>2, <1>3, <1>4, <1>5, <1>6, <1>7, <1>8, <1>9, <1>10, <1>11, <1>12, <1>13,
        <1>14, <1>15
        DEF FilesNext
(* A step that counts no failure, keeps a manifest and leaves files that    *)
(* are gone, as they were or the hub's.                                    *)
LEMMA QuietStep ==
  ASSUME FilesTypeOK, Repairing, EnsureRepairs, failures' \in {0, failures}, hub' = hub, torn' = torn,
         manifest # NoHashes => manifest' = manifest,
         file' \in [File -> {"none"} \cup Content],
         \A f \in File : file'[f] \in {"none", file[f], hub}
  PROVE Repairing' /\ EnsureRepairs'
<1>1. Pinned => Pinned' BY NoHashesEmpty DEF Pinned
<1>2. EnsureRepairs' BY <1>1 DEF EnsureRepairs, FilesTypeOK
<1>3. ASSUME failures' >= 1, ~torn', ~Pinned'
      PROVE manifest' # NoHashes /\ \A f \in File : file'[f] \in {"none", hub'}
  <2>1. failures >= 1 /\ ~torn /\ ~Pinned BY <1>1, <1>3 DEF FilesTypeOK
  <2>2. manifest # NoHashes /\ \A f \in File : file[f] \in {"none", hub} BY <2>1 DEF Repairing
  <2> QED BY <2>2
<1> QED BY <1>2, <1>3 DEF Repairing

(* A fault starts the count of failures anew. *)
LEMMA FaultStep == FilesTypeOK /\ Fault => Repairing' /\ EnsureRepairs'
BY DEF Fault, Repairing, EnsureRepairs

(* The end of a calm ensure: everything is there and as the hub has it, so *)
(* only the manifest can be against it.                                    *)
LEMMA CalmEnd ==
  ASSUME FilesTyped, Calm, mgr.stage = "last"
  PROVE Present /\ \A f \in File : Good(f)
<1>1. mgr.at = Len(Artifacts) + 1 /\ Len(Artifacts) \in Nat
  BY ListedFiles DEF FilesTyped, ListEnded
<1>2. \A i \in 1..Len(Artifacts) : Good(Artifacts[i]) BY <1>1 DEF Calm, InList
<1>3. \A f \in File : Good(f) BY <1>2, ListedFiles
<1> QED BY <1>3 DEF Present, Good

(* A last comparison that fails leaves a manifest and no file that is not the
   hub's, so the next ensure succeeds. *)
LEMMA FailedCompare ==
  ASSUME RepairInv, CompareFiles, mgr.stage = "last", GiveUp, ~Verified(mgr.saw, mgr.hashes)
  PROVE Repairing' /\ EnsureRepairs'
<1>a. /\ FilesTyped /\ FilesTypeOK /\ file \in [File -> {"none"} \cup Content]
      /\ failures \in 0..2 /\ Repairing /\ EnsureRepairs
  BY DEF RepairInv, FilesTyped, FilesTypeOK
<1>b. mgr.saw \in [File -> Content] /\ mgr.hashes \in {NoHashes} \cup [Hashed -> Version]
  BY <1>a DEF CompareFiles, MgrAt, FilesTyped, FilesTypeOK, SeenAll, MgrState
<1>c. /\ file' \in [File -> {"none"} \cup Content] /\ torn' = torn /\ hub' = hub
      /\ manifest # NoHashes => manifest' = manifest
      /\ ~torn => \A f \in Differing(mgr.saw, mgr.hashes) \cap File : file'[f] = "none"
      /\ ~torn => \A f \in File \ Differing(mgr.saw, mgr.hashes) : file'[f] = file[f]
      /\ \A f \in File : file'[f] \in {"none", file[f]}
  BY <1>a, <1>b, CompareEffect DEF CompareFiles
<1>1. CASE disturbed
  <2>1. failures' = 0 BY <1>1 DEF GiveUp
  <2> QED BY <2>1 DEF Repairing, EnsureRepairs
<1>2. CASE ~disturbed
  <2>1. Calm /\ mgr.saw = file BY <1>2 DEF RepairInv, Calm, CompareFiles, MgrAt
  <2>2. \A f \in File : Good(f) BY <1>a, <2>1, CalmEnd
  <2>3. ASSUME ~torn', ~Pinned'
        PROVE /\ failures = 0
              /\ manifest' # NoHashes /\ \A f \in File : file'[f] \in {"none", hub'}
    <3>1. ~torn /\ Differing(mgr.saw, mgr.hashes) # {} BY <1>c, <2>3 DEF Verified
    <3>2. manifest # NoHashes
      <4> SUFFICES ASSUME manifest = NoHashes PROVE FALSE
        OBVIOUS
      <4>1. PICK f \in DOMAIN mgr.hashes : mgr.hashes[f] # mgr.saw[f]
        BY <3>1 DEF Differing, Expected
      <4>2. f \in File BY <1>b, NoHashesEmpty, FilesConstants
      <4> QED BY <2>1, <2>2, <4>1, <4>2 DEF Calm, Good
    <3>3. manifest' = manifest /\ manifest \in [File -> Content]
      BY <1>a, <1>c, <3>2 DEF FilesTypeOK
    <3>4. \A f \in File : manifest[f] = hub BY <1>c, <2>3, <3>3 DEF Pinned
    <3>5. Differing(mgr.saw, mgr.hashes) = {f \in File : file[f] # hub}
      BY <2>1, <3>2, <3>3, <3>4 DEF Differing, Expected
    <3>6. ~Pinned BY <3>3, <3>4 DEF Pinned
    <3>7. failures = 0
      <4> SUFFICES ASSUME failures >= 1 PROVE FALSE
        BY <1>a
      <4>1. \A f \in File : file[f] \in {"none", hub} BY <1>a, <3>1, <3>6 DEF Repairing
      <4> QED BY <2>2, <3>1, <3>5, <4>1 DEF Good
    <3> QED BY <1>c, <3>1, <3>2, <3>3, <3>5, <3>7
  <2>4. failures = 0 => failures' = 1 BY <1>2 DEF GiveUp
  <2> QED BY <2>3, <2>4 DEF Repairing, EnsureRepairs
<1> QED BY <1>1, <1>2 DEF RepairInv, FilesTyped, FilesTypeOK

(* Every step keeps the invariant of the repair. *)
LEMMA RepairStep == RepairInv /\ [FilesNext]_filesVars => Repairing' /\ EnsureRepairs'
<1> SUFFICES ASSUME RepairInv, [FilesNext]_filesVars PROVE Repairing' /\ EnsureRepairs'
  OBVIOUS
<1>a. /\ FilesTyped /\ FilesTypeOK /\ file \in [File -> {"none"} \cup Content] /\ mgr \in MgrState
      /\ Repairing /\ EnsureRepairs /\ failures \in 0..2
  BY DEF RepairInv, FilesTyped, FilesTypeOK
<1>u. ASSUME UNCHANGED <<file, manifest, torn, hub>>, failures' \in {0, failures} PROVE Repairing' /\ EnsureRepairs'
  BY <1>a, <1>u, QuietStep
<1>1. CASE Ensure BY <1>1, <1>u DEF Ensure
<1>2. CASE HashFiles
  <2>1. CASE NoFault BY <1>2, <1>u, <2>1 DEF HashFiles, NoFault
  <2>2. CASE ~NoFault
    <3>1. ~Present /\ mgr.stage = "last" /\ GiveUp BY <1>2, <2>2 DEF HashFiles, NotVerified
    <3>2. disturbed BY <1>a, <3>1, CalmEnd DEF RepairInv
    <3> QED BY <1>2, <1>u, <3>1, <3>2 DEF HashFiles, GiveUp
  <2> QED BY <2>1, <2>2
<1>3. CASE CompareFiles
  <2>1. mgr.saw \in [File -> Content] /\ mgr.hashes \in {NoHashes} \cup [Hashed -> Version]
    BY <1>3, <1>a DEF CompareFiles, MgrAt, FilesTyped, SeenAll, MgrState
  <2>2. /\ file' \in [File -> {"none"} \cup Content] /\ torn' = torn /\ hub' = hub
        /\ manifest # NoHashes => manifest' = manifest
        /\ \A f \in File : file'[f] \in {"none", file[f]}
    BY <1>3, <1>a, <2>1, CompareEffect DEF CompareFiles
  <2>3. CASE failures' \in {0, failures} BY <1>a, <2>2, <2>3, QuietStep
  <2>4. CASE failures' \notin {0, failures}
    <3>1. ~Verified(mgr.saw, mgr.hashes) /\ mgr.stage = "last" /\ GiveUp
      BY <1>3, <2>4 DEF CompareFiles, Succeed, NotVerified, NoFault
    <3> QED BY <1>3, <3>1, FailedCompare
  <2> QED BY <2>3, <2>4
<1>4. CASE FetchHashes BY <1>4, <1>u DEF FetchHashes, NoFault
<1>5. CASE GetFile
  <2>1. file' \in [File -> {"none"} \cup Content] /\ \A f \in File : file'[f] \in {"none", file[f]}
    BY <1>5, <1>a DEF GetFile
  <2> QED BY <1>5, <1>a, <2>1, QuietStep DEF GetFile, NoFault
<1>6. CASE PlaceFile
  <2>1. CASE Fault BY <1>a, <2>1, FaultStep
  <2>2. CASE CopyAside /\ NoFault
    <3>1. file' \in [File -> {"none"} \cup Content] /\ \A f \in File : file'[f] \in {"none", file[f], hub}
      BY <1>a, <2>2 DEF CopyAside, FilesTypeOK, Content
    <3> QED BY <1>6, <1>a, <2>2, <3>1, QuietStep DEF PlaceFile, NoFault
  <2> QED BY <1>6, <2>1, <2>2 DEF PlaceFile
<1>7. CASE CopyDone
  <2>1. file' \in [File -> {"none"} \cup Content] /\ \A f \in File : file'[f] \in {"none", file[f], hub}
    BY <1>7, <1>a DEF CopyDone, FilesTypeOK, Content
  <2> QED BY <1>7, <1>a, <2>1, QuietStep DEF CopyDone, NoFault
<1>8. CASE DownloadFails BY <1>8, <1>a, FaultStep DEF DownloadFails
<1>9. CASE Downloaded BY <1>9, <1>u DEF Downloaded, NoFault
<1>10. CASE ReadFiles BY <1>10, <1>u DEF ReadFiles
<1>11. CASE ReadCompare
  <2>1. reader.saw \in [File -> Content] BY <1>11, <1>a DEF ReadCompare, FilesTyped, SeenAll
  <2>2. /\ file' \in [File -> {"none"} \cup Content] /\ torn' = torn /\ hub' = hub
        /\ manifest # NoHashes => manifest' = manifest
        /\ \A f \in File : file'[f] \in {"none", file[f]}
    BY <1>11, <1>a, <2>1, CompareEffect DEF ReadCompare
  <2>3. failures' \in {0, failures} BY <1>11 DEF ReadCompare, NoFault
  <2> QED BY <1>a, <2>2, <2>3, QuietStep
<1>12. CASE HubMoves BY <1>12, <1>a, FaultStep DEF HubMoves
<1>13. CASE Crash BY <1>13, <1>a, FaultStep DEF Crash
<1>14. ASSUME NEW f \in File, Rot(f) PROVE Repairing' /\ EnsureRepairs'
  BY <1>14, <1>a, FaultStep DEF Rot
<1>15. CASE UNCHANGED filesVars BY <1>15, <1>u DEF filesVars
<1> QED BY <1>1, <1>2, <1>3, <1>4, <1>5, <1>6, <1>7, <1>8, <1>9, <1>10, <1>11, <1>12, <1>13,
        <1>14, <1>15
        DEF FilesNext

(* It holds at the start. *)
LEMMA RepairInit == FilesInit => RepairInv
<1> SUFFICES ASSUME FilesInit PROVE RepairInv
  OBVIOUS
<1>1. failures = 0 BY DEF FilesInit
<1>2. mgr = Start BY DEF FilesInit
<1>3. Calm BY <1>2, NoHashesEmpty DEF Start, Idle, Calm, InList
<1> QED BY <1>1, <1>3, FilesInitTyped DEF RepairInv, Repairing, EnsureRepairs

(* After a calm failure of ensure the next calm one succeeds, unless the    *)
(* manifest is against what the hub has or does not parse: the first       *)
(* deletes whatever is against the manifest, the second finds the rest     *)
(* right and downloads what is gone.                                       *)
THEOREM SecondEnsureRepairs == FilesSpec => []EnsureRepairs
<1>1. RepairInv /\ [FilesNext]_filesVars => RepairInv'
  BY FilesStepTyped, CalmStep, RepairStep DEF RepairInv
<1>2. RepairInv => EnsureRepairs BY DEF RepairInv
<1> QED BY RepairInit, <1>1, <1>2, PTL DEF FilesSpec

-----------------------------------------------------------------------------
(***************************************************************************)
(* Supervisor.  The count of attempts is the length of the streak, for     *)
(* whatever sets one to its start sets the other, too; and a recovery that *)
(* is under way began below the limit.                                     *)
(***************************************************************************)
CountsStreak ==
  /\ streak = backoff.attempts
  /\ backoff.exhausted => backoff.attempts >= MaxRestarts
  /\ pc # "idle" /\ by = "supervisor" => backoff.attempts < MaxRestarts
BackoffState == [attempts : 0..MaxRestarts, exhausted : BOOLEAN, ready : BOOLEAN]
AtLimit == backoff.attempts >= MaxRestarts => backoff.exhausted
SuperInv == SuperTypeOK /\ CountsStreak /\ AtLimit

(* The end of an ensure: a success starts both counts anew, a failure adds *)
(* one to each.                                                            *)
LEMMA DoneCounts ==
  ASSUME SuperInv, pc # "idle", UNCHANGED by, Done(TRUE) \/ Done(FALSE)
  PROVE  /\ backoff' \in BackoffState /\ streak' \in 0..MaxRestarts
         /\ pc' = "idle" /\ CountsStreak' /\ AtLimit'
<1> USE SuperConstants
<1>0. backoff \in BackoffState /\ streak \in 0..MaxRestarts /\ CountsStreak /\ AtLimit
  BY DEF SuperInv, SuperTypeOK, BackoffState
<1>1. CASE by = "supervisor"
  <2>1. backoff.attempts < MaxRestarts /\ backoff.attempts \in 0..MaxRestarts /\ streak = backoff.attempts
    BY <1>0, <1>1 DEF CountsStreak, BackoffState
  <2>2. CASE Done(TRUE)
    <3>1. backoff' = Fresh /\ streak' = 0 /\ pc' = "idle" BY <1>1, <2>2 DEF Done, AfterRecovery
    <3> QED BY <3>1 DEF Fresh, BackoffState, CountsStreak, AtLimit
  <2>3. CASE Done(FALSE)
    <3>1. backoff' = Fail(backoff) /\ streak' = streak + 1 /\ pc' = "idle"
      BY <1>1, <2>3 DEF Done, AfterRecovery
    <3>2. /\ backoff'.attempts = backoff.attempts + 1
          /\ backoff'.exhausted = (backoff.attempts + 1 >= MaxRestarts)
          /\ backoff' \in BackoffState
      <4> DEFINE last == backoff.attempts + 1 >= MaxRestarts
      <4>1. last \in BOOLEAN OBVIOUS
      <4>2. backoff' = [attempts |-> backoff.attempts + 1, exhausted |-> last, ready |-> FALSE]
        BY <3>1 DEF Fail
      <4>3. backoff.attempts + 1 \in 0..MaxRestarts BY <2>1
      <4> HIDE DEF last
      <4>4. backoff' \in BackoffState /\ backoff'.attempts = backoff.attempts + 1 /\ backoff'.exhausted = last
        BY <4>1, <4>2, <4>3 DEF BackoffState
      <4> QED BY <4>4 DEF last
    <3>3. streak' \in 0..MaxRestarts BY <2>1, <3>1
    <3>4. CountsStreak' /\ AtLimit' BY <2>1, <3>1, <3>2 DEF CountsStreak, AtLimit
    <3> QED BY <3>1, <3>2, <3>3, <3>4
  <2> QED BY <2>2, <2>3
<1>2. CASE by # "supervisor"
  <2>1. UNCHANGED <<backoff, streak>> /\ pc' = "idle" BY <1>2 DEF Done
  <2> QED BY <1>0, <2>1 DEF CountsStreak, AtLimit
<1> QED BY <1>1, <1>2

(* Supervisor, user, ensure and processes keep the invariant.              *)
LEMMA SuperStepInv == SuperInv /\ [SuperNext]_superVars => SuperInv'
<1> SUFFICES ASSUME SuperInv, [SuperNext]_superVars PROVE SuperInv'
  OBVIOUS
<1> USE SuperConstants DEF setting, processes
<1>i. /\ SuperTypeOK /\ backoff \in BackoffState /\ streak \in 0..MaxRestarts /\ CountsStreak /\ AtLimit
  BY DEF SuperInv, SuperTypeOK, BackoffState
<1> DEFINE Processes == /\ kind' \in {"nats", "nats_auth", "lmr"}
                        /\ installed' \in BOOLEAN /\ withMonitor' \in BOOLEAN
                        /\ server' \in Foreign \cup {Nobody} \cup
                             {[who |-> "child", monitor |-> m, accepts |-> TRUE, pass |-> FALSE] : m \in BOOLEAN}
                        /\ child' \in {"none", "starting", "up", "dead"}
                        /\ (server'.who = "child") = (child' = "up")
                        /\ conf' \/ authActive' => kind' = "nats_auth"
           Places == pc' \in {"idle", "ensure", "decide", "spawn", "wait"} /\ by' \in {"supervisor", "ui"}
           Count == backoff' \in BackoffState /\ streak' \in 0..MaxRestarts /\ CountsStreak' /\ AtLimit'
<1>q. SUFFICES Processes /\ Places /\ Count
  BY DEF SuperInv, SuperTypeOK, BackoffState
<1>s. UNCHANGED <<setting, processes, withMonitor>> => Processes
  BY <1>i DEF SuperTypeOK
<1>c. UNCHANGED <<backoff, streak, by>> /\ (pc' = pc \/ pc # "idle") => Count
  BY <1>i DEF CountsStreak, AtLimit
<1>n. Nobody.who = "none" /\ \A f \in Foreign : f.who # "child" BY DEF Nobody, Foreign
<1>w. child' \in {"none", "dead", "starting"} /\ UNCHANGED setting /\ withMonitor' \in BOOLEAN /\ (conf' \/ authActive' => kind = "nats_auth")
      /\ server' = (IF server.who = "child" THEN Nobody ELSE server) => Processes
  BY <1>i, <1>n DEF SuperTypeOK
<1>d. (Done(TRUE) \/ Done(FALSE)) /\ UNCHANGED by /\ pc # "idle" => Count /\ Places
  BY <1>i, DoneCounts DEF SuperInv, SuperTypeOK
<1>1. CASE UNCHANGED superVars
  BY <1>1, <1>s, <1>c, <1>i DEF superVars, SuperTypeOK
<1>2. CASE WindowOver
  <2>1. Count BY <1>i, <1>2 DEF WindowOver, CountsStreak, AtLimit, BackoffState
  <2> QED BY <1>2, <1>s, <1>i, <2>1 DEF WindowOver, SuperTypeOK
<1>3. CASE Tick
  <2>1. pc = "idle" /\ UNCHANGED <<setting, processes, withMonitor>> BY <1>3 DEF Tick
  <2>2. CASE Reset /\ streak' = 0 /\ UNCHANGED <<pc, by>>
    <3>1. Count BY <2>1, <2>2 DEF Reset, Fresh, BackoffState, CountsStreak, AtLimit
    <3> QED BY <1>i, <1>s, <2>1, <2>2, <3>1 DEF SuperTypeOK
  <2>3. CASE /\ ~backoff.exhausted /\ pc' = "ensure" /\ by' = "supervisor" /\ UNCHANGED <<backoff, streak>>
    <3>1. backoff.attempts < MaxRestarts BY <1>i, <2>3 DEF AtLimit, BackoffState
    <3>2. Count BY <1>i, <2>3, <3>1 DEF CountsStreak, AtLimit
    <3> QED BY <1>s, <2>1, <2>3, <3>2
  <2> QED BY <1>3, <2>2, <2>3 DEF Tick
<1>4. CASE EnsureServices
  <2>1. Count BY <1>i, <1>4 DEF EnsureServices, CountsStreak, AtLimit
  <2> QED BY <1>4, <1>s, <2>1 DEF EnsureServices
<1>5. CASE Probe
  <2>1. Processes BY <1>i, <1>5 DEF Probe, SuperTypeOK
  <2> QED BY <1>5, <1>c, <1>i, <2>1 DEF Probe, SuperTypeOK
<1>6. CASE Adopt
  <2>1. Processes BY <1>i, <1>6 DEF Adopt, MarkAuth, SuperTypeOK
  <2> QED BY <1>6, <1>d, <2>1 DEF Adopt
<1>7. CASE Replace
  <2>1. Processes
    <3>1. CASE seen.client
      BY <1>i, <1>7, <1>n, <3>1 DEF Replace, KillAll, Killable, SuperTypeOK
    <3>2. CASE ~seen.client
      BY <1>i, <1>7, <3>2 DEF Replace, SuperTypeOK
    <3> QED BY <3>1, <3>2
  <2> QED BY <1>7, <1>c, <1>i, <2>1 DEF Replace, SuperTypeOK
<1>8. CASE Spawn
  <2>1. CASE ~installed
    BY <1>8, <1>s, <1>d, <2>1 DEF Spawn
  <2>2. CASE installed
    <3>1. conf' \/ authActive' => kind = "nats_auth" BY <1>i, <1>8, <2>2 DEF Spawn, SuperTypeOK
    <3>2. Processes BY <1>i, <1>8, <1>w, <2>2, <3>1 DEF Spawn, SuperTypeOK
    <3> QED BY <1>8, <1>c, <1>i, <2>2, <3>2 DEF Spawn, SuperTypeOK
  <2> QED BY <2>1, <2>2
<1>9. CASE Ready
  <2>1. Processes BY <1>i, <1>9 DEF Ready, MarkAuth, SuperTypeOK
  <2> QED BY <1>9, <1>d, <2>1 DEF Ready
<1>10. CASE NotReady
  <2>1. Processes BY <1>i, <1>10, <1>w DEF NotReady, KillChild, SuperTypeOK
  <2>2. CASE pc' = "spawn" /\ UNCHANGED <<backoff, streak>>
    BY <1>10, <1>c, <1>i, <2>1, <2>2 DEF NotReady, SuperTypeOK
  <2>3. CASE Done(FALSE)
    BY <1>10, <1>d, <2>1, <2>3 DEF NotReady
  <2> QED BY <1>10, <2>2, <2>3 DEF NotReady
<1>11. CASE ChildBinds \/ ChildDies \/ ForeignTakes \/ ForeignLeaves
  <2>1. UNCHANGED <<setting, conf, authActive, backoff, pc, by, withMonitor, streak>>
    BY <1>11 DEF ChildBinds, ChildDies, ForeignTakes, ForeignLeaves, Elsewhere
  <2>2. CASE ChildBinds
    <3>1. Processes BY <1>i, <2>1, <2>2 DEF ChildBinds, SuperTypeOK
    <3> QED BY <1>i, <1>c, <2>1, <2>2, <3>1 DEF ChildBinds, SuperTypeOK
  <2>3. CASE ChildDies BY <1>i, <1>c, <1>w, <2>1, <2>3 DEF ChildDies, SuperTypeOK
  <2>4. CASE ForeignTakes BY <1>i, <1>c, <1>n, <2>1, <2>4 DEF ForeignTakes, SuperTypeOK
  <2>5. CASE ForeignLeaves BY <1>i, <1>c, <1>n, <2>1, <2>5 DEF ForeignLeaves, SuperTypeOK
  <2> QED BY <1>11, <2>2, <2>3, <2>4, <2>5
<1> QED BY <1>1, <1>2, <1>3, <1>4, <1>5, <1>6, <1>7, <1>8, <1>9, <1>10, <1>11 DEF SuperNext, EnsureStep

(* The supervisor gives a service up only after MaxRestarts recoveries that *)
(* failed in a row, without a tick between them that found the service      *)
(* healthy, whoever else starts it, takes its port or kills it in between;  *)
(* and once it has, it runs no recovery.                                   *)
THEOREM GivesUpLate == SuperSafety => [](SuperTypeOK /\ GivenUpLate /\ GivenUpRests)
<1>1. SuperInit => SuperInv
  BY SuperConstants DEF SuperInit, SuperInv, SuperTypeOK, CountsStreak, AtLimit, Fresh, Nobody
<1>2. SuperInv => SuperTypeOK /\ GivenUpLate /\ GivenUpRests
  <2> SUFFICES ASSUME SuperInv PROVE SuperTypeOK /\ GivenUpLate /\ GivenUpRests
    OBVIOUS
  <2>1. MaxRestarts \in Nat /\ backoff.attempts \in 0..MaxRestarts
    BY SuperConstants DEF SuperInv, SuperTypeOK
  <2> QED BY <2>1 DEF SuperInv, CountsStreak, GivenUpLate, GivenUpRests
<1> QED BY <1>1, <1>2, SuperStepInv, PTL DEF SuperSafety
=============================================================================
