---------------------------- MODULE Workflow_proofs ----------------------------
(***************************************************************************)
(* Proofs about the workflow engine on the store (WorkflowEngine), for any *)
(* number of coding tasks, Tests, looks and exits.                         *)
(***************************************************************************)
EXTENDS WorkflowEngine, A2AStore_proofs, SeqFilter_proofs

USE StoreConstants, WorkflowConstants

(* The Test tasks on their way: built from a coding task, under its key.   *)
TestRequest ==
  {r \in Request : r.id \in FollowUp /\ r.parent \in Coding /\ r.key = TestKey[r.parent]}
Message == [task : Coding \cup {NoTask}, looks : Nat]

EngineTypes ==
  /\ lifecycle \in Seq(Coding) /\ completed \in Seq(Coding)
  /\ looking \in Message /\ looking.looks < Attempts
  /\ looking # Nothing => looking.task \in Coding
  /\ ingress \in Seq(TestRequest)
  /\ executing \in FollowUp \cup {NoTask}
  /\ executing # NoTask => Exists(executing)
  /\ answers \in 0..MaxAnswers /\ owed \subseteq Coding /\ lapsed \in BOOLEAN

(* Only coding tasks and their Tests are admitted, each under its own key. *)
RowsKnown == \A t \in Task : Exists(t) =>
  \/ t \in Coding /\ \A c \in Coding : rows[t].key # TestKey[c]
  \/ t \in FollowUp /\ rows[t].parent \in Coding /\ rows[t].key = TestKey[rows[t].parent]

(* A Test on its way has an id of its own, and there are ids left.         *)
NewIds == \A i \in DOMAIN ingress :
  /\ ~Exists(ingress[i].id)
  /\ \A j \in DOMAIN ingress : ingress[i].id = ingress[j].id => i = j
Used == FollowUp \ Unused
AtWork == IF looking = Nothing THEN 0 ELSE 1
RoomLeft == Cardinality(Used) + Len(completed) + AtWork <= answers

(* A Test that is not over holds the key of its coding task.               *)
Holds(x) == keys[TestKey[rows[x].parent]] = x
KeysHeld == ~lapsed => \A x \in FollowUp :
  Exists(x) /\ ~HasStatus(x, Closed) => Holds(x)

(* Whatever is owed is being looked at, on its way, or there.              *)
OnItsWay(c) == \E i \in DOMAIN ingress : ingress[i].parent = c
Covered(c) == looking.task = c \/ OnItsWay(c) \/ TestsOf(c) # {}
OwedCovered == \A c \in owed : Covered(c)

WorkflowInv ==
  /\ IInv /\ EngineTypes
  /\ RowsKnown /\ NewIds /\ RoomLeft
  /\ KeysHeld /\ OwedCovered

-----------------------------------------------------------------------------
(* The ids of coding tasks and of Tests are apart, and a TestKey is a key. *)
LEMMA WorkflowIds ==
  /\ Coding \subseteq Task /\ FollowUp \subseteq Task /\ NoTask \notin Task
  /\ \A c \in Coding : c \notin FollowUp /\ TestKey[c] \in Key /\ TestKey[c] # NoKey
  /\ \A r \in CodingRequests : r \in Request /\ r.id \in Coding
BY DEF Coding, Request

(* The ids used are finitely many, and count one by one.                   *)
LEMMA UsedCount ==
  /\ IsFiniteSet(Used) /\ Cardinality(Used) \in Nat
  /\ Used' \subseteq Used => Cardinality(Used)' <= Cardinality(Used)
  /\ \A x \in FollowUp :
       Used' \subseteq Used \cup {x} => Cardinality(Used)' <= Cardinality(Used) + 1
  /\ Cardinality(Used) < Cardinality(FollowUp) => Unused # {}
<1>1. IsFiniteSet(Used) /\ IsFiniteSet(Used') BY FS_Subset DEF Used
<1>2. Cardinality(Used) \in Nat /\ Cardinality(Used') \in Nat BY <1>1, FS_CardinalityType
<1>3. ASSUME Used' \subseteq Used PROVE Cardinality(Used') <= Cardinality(Used)
  BY <1>1, <1>3, FS_Subset
<1>4. ASSUME NEW x \in FollowUp, Used' \subseteq Used \cup {x}
      PROVE  Cardinality(Used') <= Cardinality(Used) + 1
  <2>1. IsFiniteSet(Used \cup {x})
        /\ Cardinality(Used \cup {x}) =
             IF x \in Used THEN Cardinality(Used) ELSE Cardinality(Used) + 1
    BY <1>1, FS_AddElement
  <2>2. Cardinality(Used') <= Cardinality(Used \cup {x}) BY <1>4, <2>1, FS_Subset
  <2> QED BY <1>2, <2>1, <2>2
<1>5. ASSUME Cardinality(Used) < Cardinality(FollowUp) PROVE Unused # {}
  BY <1>2, <1>5 DEF Used
<1>6. (Cardinality(Used))' = Cardinality(Used') OBVIOUS
<1> QED BY <1>1, <1>2, <1>3, <1>4, <1>5, <1>6

-----------------------------------------------------------------------------
(* An operation writes the row of one task, and may give its keys back.    *)
Writes(t) ==
  /\ KeepsIdentity /\ UNCHANGED sessions
  /\ \A u \in Task : u # t => rows'[u] = rows[u]
  /\ keys' = keys \/ keys' = KeysWithout(t)

(* A new status for a row that is there writes this task and no other.     *)
LEMMA RowWritten ==
  ASSUME TypeOK, NEW t \in Task, Exists(t), NEW s \in Status \ {"EXPIRED"},
         NEW row \in {[rows[t] EXCEPT !.status = s], [WithResult(rows[t]) EXCEPT !.status = s]},
         rows' = [u \in Task |-> IF u = t THEN row ELSE rows[u]],
         keys' = keys \/ keys' = KeysWithout(t), UNCHANGED sessions
  PROVE  Writes(t) /\ rows'[t].status = s
<1>0. rows[t] \in Row /\ rows[t].status # "ABSENT" /\ s \in Status /\ s # "EXPIRED"
  BY DEF TypeOK, Exists
<1>1. SameTask(rows[t], row)
  <2>1. /\ SameTask(rows[t], [rows[t] EXCEPT !.status = s])
        /\ SameTask(rows[t], [WithResult(rows[t]) EXCEPT !.status = s])
    BY <1>0, RowRewrites
  <2> QED BY <2>1
<1>2. KeepsIdentity BY <1>1, RowwiseKeepsIdentity
<1>3. row.status = s
  <2>1. /\ [rows[t] EXCEPT !.status = s].status = s
        /\ [WithResult(rows[t]) EXCEPT !.status = s].status = s
    BY <1>0 DEF Row, WithResult
  <2> QED BY <2>1
<1> QED BY <1>2, <1>3 DEF Writes

(* Nothing written is written about any task.                              *)
LEMMA NothingWritten ==
  ASSUME TypeOK, UNCHANGED storeVars, NEW t \in Task PROVE Writes(t)
BY NoRowKeepsIdentity DEF Writes, storeVars

(* set_a2a_task_status, with a status the kernel passes.                   *)
LEMMA SetStatusWrites ==
  ASSUME TypeOK, NEW t \in Task, Exists(t), NEW s \in KernelStatus, SetStatus(t, s)
  PROVE  Writes(t) /\ rows'[t].status = s /\ UNCHANGED keys
<1>1. s \in Status \ {"EXPIRED"}
  BY DEF KernelStatus, Status, Incomplete, Backgroundable, Silenceable, Terminal
<1>2. rows' = [u \in Task |-> IF u = t THEN [rows[t] EXCEPT !.status = s] ELSE rows[u]]
  BY DEF SetStatus, InRow, TypeOK
<1> QED BY <1>1, <1>2, RowWritten DEF SetStatus

(* complete_a2a_task_with_result, with or without a result or a release.   *)
LEMMA CompleteWrites ==
  ASSUME TypeOK, NEW t \in Task, Exists(t), NEW s \in {"COMPLETED", "FAILED"},
         NEW hasResult \in BOOLEAN, NEW release \in BOOLEAN,
         CompleteWithResult(t, s, hasResult, release)
  PROVE  Writes(t) /\ rows'[t].status = s
<1>1. s \in Status \ {"EXPIRED"} BY DEF Status, Terminal
<1>2. PICK row \in {[rows[t] EXCEPT !.status = s], [WithResult(rows[t]) EXCEPT !.status = s]} :
        rows' = [u \in Task |-> IF u = t THEN row ELSE rows[u]]
  BY DEF CompleteWithResult, InRow, TypeOK
<1>3. (keys' = keys \/ keys' = KeysWithout(t)) /\ UNCHANGED sessions
  BY DEF CompleteWithResult
<1> QED BY <1>1, <1>2, <1>3, RowWritten

(* cancel_a2a_task by the session that asked for the task, or by none.     *)
LEMMA CancelWrites ==
  ASSUME TypeOK, NEW t \in Task, CancelTask(t, rows[t].session)
  PROVE  Writes(t) /\ rows'[t].status = "CANCELLED"
<1>1. "CANCELLED" \in Status \ {"EXPIRED"} BY DEF Status, Terminal
<1>2. rows' = [u \in Task |-> IF u = t THEN [rows[t] EXCEPT !.status = "CANCELLED"] ELSE rows[u]]
  BY DEF CancelTask, InRow, TypeOK
<1> QED BY <1>1, <1>2, RowWritten DEF CancelTask, MayCancel

(* The watchdog on one silent row.                                         *)
LEMMA SilentWrites ==
  ASSUME TypeOK, NEW t \in Task, MarkSilentNeedsHuman({t})
  PROVE  Writes(t) /\ HasStatus(t, Silenceable) /\ UNCHANGED keys
<1>1. "NEEDS_HUMAN" \in Status \ {"EXPIRED"} BY DEF Status, Terminal
<1>2. rows' = [u \in Task |-> IF u = t THEN [rows[t] EXCEPT !.status = "NEEDS_HUMAN"] ELSE rows[u]]
  BY DEF MarkSilentNeedsHuman, SetAll
<1>3. HasStatus(t, Silenceable) /\ Exists(t)
  BY DEF MarkSilentNeedsHuman, Silent, HasStatus, Exists, Silenceable
<1> QED BY <1>1, <1>2, <1>3, RowWritten DEF MarkSilentNeedsHuman

(* The watchdog on one row that was never delivered.                       *)
LEMMA AbandonWrites ==
  ASSUME TypeOK, NEW t \in Task, AbandonMustDeliver({t})
  PROVE  Writes(t)
<1>1. "FAILED" \in Status \ {"EXPIRED"} BY DEF Status, Terminal
<1>2. rows' = [u \in Task |->
        IF u = t THEN [WithResult(rows[t]) EXCEPT !.status = "FAILED"] ELSE rows[u]]
  BY DEF AbandonMustDeliver
<1>3. Exists(t) BY DEF AbandonMustDeliver, Undelivered
<1> QED BY <1>1, <1>2, <1>3, RowWritten DEF AbandonMustDeliver

-----------------------------------------------------------------------------
(* What a step of the engine and its surroundings does to the store.       *)
Orders == \E r \in CodingRequests : Accept(r) /\ UNCHANGED ingress
TakesIn == ingress # <<>> /\ Accept(Head(ingress)) /\ ingress' = Tail(ingress)
CodingWritten == \E c \in Coding : Writes(c)
TestWritten == \E x \in FollowUp :
  /\ Writes(x)
  /\ \/ HasStatus(x, Closed)'
     \/ keys' = keys /\ ~HasStatus(x, Closed)
     \/ UNCHANGED storeVars
     \/ lapsed'
KeyCollected == KeepsIdentity /\ UNCHANGED <<rows, sessions>> /\ lapsed'

(* Every step writes nothing, admits a request, or writes one task or key. *)
LEMMA WorkflowWrites ==
  ASSUME WorkflowInv, WorkflowNext
  PROVE  UNCHANGED storeVars \/ Orders \/ TakesIn \/ CodingWritten \/ TestWritten \/ KeyCollected
<1> USE DEF WorkflowInv, IInv
<1>a. \A t \in Task : HasStatus(t, BusTerminal) \/ HasStatus(t, {"QUEUED"}) => Exists(t)
  BY DEF HasStatus, Exists, BusTerminal
<1>b. BusTerminal \cap Closed = {} /\ Silenceable \cap Closed = {}
  BY DEF BusTerminal, Closed, Terminal, Silenceable
<1>1. ASSUME NEW r \in CodingRequests, Order(r) PROVE UNCHANGED storeVars \/ Orders
  BY <1>1 DEF Order, Admit, Orders, engineVars
<1>2. ASSUME NEW c \in Coding, WriteAndTell(c) \/ CodingWrite(c) PROVE CodingWritten
  <2>1. c \in Task BY WorkflowIds
  <2>2. CASE WriteAndTell(c)
    <3>1. HasStatus(c, BusTerminal) BY <2>2 DEF WriteAndTell, HasStatus
    <3> QED BY <1>a, <1>b, <2>1, <2>2, <3>1, CompleteWrites DEF WriteAndTell, CodingWritten
  <2>3. CASE HasStatus(c, {"QUEUED"}) /\ SetStatus(c, "DISPATCHED")
    <3>1. "DISPATCHED" \in KernelStatus BY DEF KernelStatus
    <3> QED BY <1>a, <1>b, <2>1, <2>3, <3>1, SetStatusWrites DEF CodingWritten
  <2>4. CASE MarkSilentNeedsHuman({c}) BY <2>1, <2>4, SilentWrites DEF CodingWritten
  <2>5. CASE AbandonMustDeliver({c}) BY <2>1, <2>5, AbandonWrites DEF CodingWritten
  <2>6. CASE CancelTask(c, rows[c].session) BY <2>1, <2>6, CancelWrites DEF CodingWritten
  <2> QED BY <1>2, <2>2, <2>3, <2>4, <2>5, <2>6 DEF CodingWrite
<1>3. CASE ApplyBusTerminal
  <2>1. PICK c \in Coding : c = Head(lifecycle)
    BY <1>3 DEF ApplyBusTerminal, EngineTypes
  <2>2. c \in Task BY WorkflowIds
  <2>3. CASE HasStatus(c, BusTerminal)
    BY <1>3, <1>a, <1>b, <2>1, <2>2, <2>3, CompleteWrites DEF ApplyBusTerminal, CodingWritten
  <2>4. CASE ~HasStatus(c, BusTerminal) BY <1>3, <2>1, <2>4 DEF ApplyBusTerminal
  <2> QED BY <2>3, <2>4
<1>4. CASE Take
  BY <1>4 DEF Take, Admit, TakesIn
<1>5. CASE ExecuteTest
  <2>1. PICK x \in FollowUp : x = executing /\ Exists(x) /\ x \in Task
    BY <1>5, WorkflowIds DEF ExecuteTest, EngineTypes
  <2>2. ASSUME NEW s \in {"PENDING_APPROVAL", "QUEUED", "EXECUTING", "DISPATCHED"},
               SetStatus(x, s), lapsed' = (lapsed \/ HasStatus(x, Closed))
        PROVE  TestWritten
    <3>1. s \in KernelStatus BY DEF KernelStatus
    <3>2. Writes(x) /\ UNCHANGED keys BY <2>1, <2>2, <3>1, SetStatusWrites
    <3>3. lapsed' \/ ~HasStatus(x, Closed)
      BY <2>2, Zenon
    <3> QED BY <3>2, <3>3 DEF TestWritten
  <2>3. ASSUME NEW s \in {"COMPLETED", "FAILED"},
               NEW hasResult \in BOOLEAN, NEW release \in BOOLEAN,
               CompleteWithResult(x, s, hasResult, release)
        PROVE  TestWritten
    <3>1. Writes(x) /\ rows'[x].status = s BY <2>1, <2>3, CompleteWrites
    <3>2. HasStatus(x, Closed)' BY <3>1 DEF HasStatus, Closed, Terminal
    <3> QED BY <3>1, <3>2 DEF TestWritten
  <2> QED BY <1>5, <2>1, <2>2, <2>3 DEF ExecuteTest
<1>6. ASSUME NEW x \in FollowUp, TestWrite(x) PROVE TestWritten
  <2>1. x \in Task BY WorkflowIds
  <2>2. ASSUME NEW s \in {"COMPLETED", "FAILED"},
               NEW hasResult \in BOOLEAN, NEW release \in BOOLEAN,
               HasStatus(x, BusTerminal), CompleteWithResult(x, s, hasResult, release)
        PROVE  TestWritten
    <3>1. Writes(x) /\ rows'[x].status = s BY <1>a, <1>b, <2>1, <2>2, CompleteWrites
    <3>2. HasStatus(x, Closed)' BY <3>1 DEF HasStatus, Closed, Terminal
    <3> QED BY <3>1, <3>2 DEF TestWritten
  <2>3. CASE MarkSilentNeedsHuman({x})
    <3>1. Writes(x) /\ keys' = keys /\ ~HasStatus(x, Closed)
      BY <1>b, <2>1, <2>3, SilentWrites DEF HasStatus
    <3> QED BY <3>1 DEF TestWritten
  <2>4. CASE CancelTask(x, rows[x].session)
    <3>1. Writes(x) /\ rows'[x].status = "CANCELLED" BY <2>1, <2>4, CancelWrites
    <3>2. HasStatus(x, Closed)' BY <3>1 DEF HasStatus, Closed, Terminal
    <3> QED BY <3>1, <3>2 DEF TestWritten
  <2> QED BY <1>6, <2>2, <2>3, <2>4 DEF TestWrite
<1>7. ASSUME NEW c \in Coding, CollectKey(c) PROVE KeyCollected
  BY <1>7, SameTaskReflexive DEF CollectKey, GcKeys, TypeOK, KeepsIdentity, KeyCollected
<1>8. CASE Receive \/ LookAgain \/ Plan \/ Exit \/ \E c \in Coding : Answer(c)
  BY <1>8 DEF Receive, LookAgain, Plan, Exit, Answer
<1> QED BY <1>1, <1>2, <1>3, <1>4, <1>5, <1>6, <1>7, <1>8 DEF WorkflowNext

-----------------------------------------------------------------------------
(* What a step leaves of the identities.                                   *)
LEMMA KeptStays ==
  ASSUME WorkflowInv, KeepsIdentity, UNCHANGED sessions
  PROVE  /\ IInv' /\ RowsKnown'
         /\ \A t \in Task : (Exists(t)' <=> Exists(t)) /\ rows'[t].parent = rows[t].parent
<1>1. IInv' BY KeptIInv DEF WorkflowInv, IInv, TypeOK
<1>2. \A t \in Task : /\ Exists(t)' <=> Exists(t)
                      /\ rows'[t].parent = rows[t].parent /\ rows'[t].key = rows[t].key
  BY DEF KeepsIdentity, SameTask, IdentityOf, Exists
<1>3. RowsKnown' BY <1>2, WorkflowIds DEF WorkflowInv, RowsKnown
<1> QED BY <1>1, <1>2, <1>3

(* An admitted coding task leaves every other row and every TestKey alone. *)
LEMMA OrderStays ==
  ASSUME WorkflowInv, NEW r \in CodingRequests, Accept(r)
  PROVE  /\ IInv' /\ RowsKnown' /\ r.id \in Coding
         /\ \A t \in Task : t # r.id => rows'[t] = rows[t]
         /\ \A c \in Coding : keys'[TestKey[c]] = keys[TestKey[c]]
<1>1. r \in Request /\ r.id \in Coding /\ r.id \in Task BY WorkflowIds
<1>2. IInv' BY <1>1, AcceptIInv DEF WorkflowInv
<1>3. rows' = [rows EXCEPT ![r.id] = NewRow(r)]
  BY <1>1, AcceptFacts DEF WorkflowInv
<1>4. (\A t \in Task : t # r.id => rows'[t] = rows[t]) /\ rows'[r.id].key = r.key
  BY <1>1, <1>3 DEF WorkflowInv, IInv, TypeOK, NewRow
<1>5. \A c \in Coding : r.key # TestKey[c] BY WorkflowConstants
<1>6. RowsKnown'
  BY <1>1, <1>4, <1>5, WorkflowIds DEF WorkflowInv, RowsKnown, Exists
<1>7. \A c \in Coding : keys'[TestKey[c]] = keys[TestKey[c]]
  BY <1>5, WorkflowIds DEF Accept, WorkflowInv, IInv, TypeOK
<1> QED BY <1>1, <1>2, <1>4, <1>6, <1>7

(* An admitted Test has its row below its coding task, and takes its key.  *)
LEMMA TakenStays ==
  ASSUME WorkflowInv, TakesIn, NEW r, r = Head(ingress)
  PROVE  /\ r \in TestRequest /\ IInv' /\ RowsKnown'
         /\ ~Exists(r.id) /\ Exists(r.id)' /\ rows'[r.id].parent = r.parent
         /\ \A t \in Task : t # r.id => rows'[t] = rows[t]
         /\ keys[r.key] = NoTask /\ keys' = [keys EXCEPT ![r.key] = r.id]
<1>1. /\ r \in TestRequest /\ Accept(r) BY DEF TakesIn, WorkflowInv, EngineTypes
<1>2. /\ r \in Request /\ r.id \in FollowUp /\ r.parent \in Coding /\ r.key = TestKey[r.parent]
      /\ r.id \in Task /\ r.key # NoKey
  BY <1>1, WorkflowIds DEF TestRequest
<1>3. IInv' BY <1>1, <1>2, AcceptIInv DEF WorkflowInv
<1>4. ~Exists(r.id) /\ rows' = [rows EXCEPT ![r.id] = NewRow(r)] /\ keys[r.key] = NoTask
  BY <1>1, <1>2, AcceptFacts DEF WorkflowInv
<1>5. /\ \A t \in Task : t # r.id => rows'[t] = rows[t]
      /\ rows'[r.id].key = r.key /\ rows'[r.id].parent = r.parent /\ Exists(r.id)'
  BY <1>2, <1>4 DEF WorkflowInv, IInv, TypeOK, NewRow, Exists
<1>6. RowsKnown'
  BY <1>2, <1>5, WorkflowIds DEF WorkflowInv, RowsKnown, Exists
<1>7. keys' = [keys EXCEPT ![r.key] = r.id]
  BY <1>1, <1>2 DEF Accept
<1> QED BY <1>1, <1>3, <1>4, <1>5, <1>6, <1>7

(* Which rows there are, and which Tests a coding task has.                *)
Grows ==
  /\ \A t \in Task : Exists(t) => Exists(t)'
  /\ \A c \in Coding : TestsOf(c) \subseteq TestsOf(c)'
  /\ \A x \in FollowUp : Exists(x)' => Exists(x) \/ (TakesIn /\ x = Head(ingress).id)

(* Every step keeps the tables, and no row or Test of a task goes away.    *)
LEMMA StoreStays ==
  ASSUME WorkflowInv, [WorkflowNext]_workflowVars
  PROVE  IInv' /\ RowsKnown' /\ Grows
<1>a. ASSUME KeepsIdentity, UNCHANGED sessions PROVE IInv' /\ RowsKnown' /\ Grows
  <2>1. /\ IInv' /\ RowsKnown'
        /\ \A t \in Task : (Exists(t)' <=> Exists(t)) /\ rows'[t].parent = rows[t].parent
    BY <1>a, KeptStays
  <2>2. \A c \in Coding : TestsOf(c) \subseteq TestsOf(c)' BY <2>1, WorkflowIds DEF TestsOf
  <2> QED BY <2>1, <2>2, WorkflowIds DEF Grows
<1>1. CASE UNCHANGED storeVars
  BY <1>1, <1>a, NoRowKeepsIdentity DEF storeVars, WorkflowInv, IInv
<1>2. CASE Orders
  <2>1. PICK r \in CodingRequests : Accept(r) BY <1>2 DEF Orders
  <2>2. /\ IInv' /\ RowsKnown' /\ r.id \in Coding
        /\ \A t \in Task : t # r.id => rows'[t] = rows[t]
    BY <2>1, OrderStays
  <2>3. \A x \in FollowUp : x # r.id /\ x \in Task BY <2>2, WorkflowIds
  <2>4. \A x \in FollowUp : rows'[x] = rows[x] BY <2>2, <2>3
  <2>5. \A c \in Coding : TestsOf(c) \subseteq TestsOf(c)' BY <2>4 DEF TestsOf
  <2>6. ~Exists(r.id) BY <2>1, WorkflowIds, AcceptFacts DEF WorkflowInv
  <2>7. \A t \in Task : Exists(t) => Exists(t)' BY <2>2, <2>6 DEF Exists
  <2> QED BY <2>2, <2>4, <2>5, <2>7 DEF Grows, Exists
<1>3. CASE TakesIn
  <2>1. PICK r : r = Head(ingress) OBVIOUS
  <2>2. /\ r \in TestRequest /\ IInv' /\ RowsKnown' /\ ~Exists(r.id)
        /\ \A t \in Task : t # r.id => rows'[t] = rows[t]
    BY <1>3, <2>1, TakenStays
  <2>3. r.id \in Task /\ r.id \in FollowUp BY <2>2, WorkflowIds DEF TestRequest
  <2>4. rows[r.id] = AbsentRow(r.id) BY <2>2, <2>3 DEF WorkflowInv, IInv, NoHistory
  <2>5. rows[r.id].parent = NoTask BY <2>4 DEF AbsentRow
  <2>6. ASSUME NEW c \in Coding, NEW x \in TestsOf(c) PROVE x \in TestsOf(c)'
    <3>1. x \in FollowUp /\ rows[x].parent = c /\ x \in Task /\ c # NoTask
      BY <2>6, WorkflowIds DEF TestsOf
    <3>2. rows'[x] = rows[x] BY <2>2, <2>5, <3>1
    <3> QED BY <3>1, <3>2 DEF TestsOf
  <2>7. \A t \in Task : Exists(t) => Exists(t)' BY <2>2 DEF Exists
  <2>8. \A x \in FollowUp : Exists(x)' => Exists(x) \/ x = r.id BY <2>2, WorkflowIds DEF Exists
  <2> QED BY <1>3, <2>1, <2>2, <2>6, <2>7, <2>8 DEF Grows
<1>4. CASE CodingWritten \/ TestWritten \/ KeyCollected
  BY <1>4, <1>a DEF CodingWritten, TestWritten, KeyCollected, Writes
<1>5. CASE UNCHANGED workflowVars
  BY <1>1, <1>5 DEF workflowVars, storeVars
<1> QED BY <1>1, <1>2, <1>3, <1>4, <1>5, WorkflowWrites

-----------------------------------------------------------------------------
(* A Test that is not over keeps its key, in every step.                   *)
LEMMA KeysHeldStays ==
  ASSUME WorkflowInv, [WorkflowNext]_workflowVars
  PROVE  KeysHeld'
<1> USE DEF WorkflowInv
<1>0. lapsed => lapsed'
  BY DEF WorkflowNext, Order, Answer, WriteAndTell, CodingWrite, CollectKey, ApplyBusTerminal,
     Receive, LookAgain, Plan, Take, ExecuteTest, TestWrite, Exit, historyVars, workflowVars
<1> SUFFICES ASSUME ~lapsed', NEW x \in FollowUp, Exists(x)', ~HasStatus(x, Closed)'
             PROVE  Holds(x)'
  BY DEF KeysHeld
<1>a. x \in Task /\ ~lapsed BY <1>0, WorkflowIds
<1>b. ASSUME rows'[x] = rows[x]
      PROVE  Exists(x) /\ ~HasStatus(x, Closed) /\ Holds(x) /\ rows[x].parent \in Coding
             /\ keys[TestKey[rows[x].parent]] = x /\ TestKey[rows[x].parent] \in Key
  BY <1>a, <1>b, WorkflowIds DEF Exists, HasStatus, KeysHeld, RowsKnown, Holds
<1>1. CASE UNCHANGED storeVars
  BY <1>1, <1>b DEF storeVars, Holds
<1>2. CASE Orders
  <2>1. PICK r \in CodingRequests : Accept(r) BY <1>2 DEF Orders
  <2>2. rows'[x] = rows[x] BY <1>a, <2>1, OrderStays, WorkflowIds
  <2> QED BY <1>b, <2>1, <2>2, OrderStays DEF Holds
<1>3. CASE TakesIn
  <2>1. PICK r : r = Head(ingress) OBVIOUS
  <2>2. /\ r.id \in FollowUp /\ r.parent \in Coding /\ r.key = TestKey[r.parent] /\ r.key \in Key
        /\ keys' = [keys EXCEPT ![r.key] = r.id] /\ keys[r.key] = NoTask
        /\ keys \in [Key -> Task \cup {NoTask}]
    BY <1>3, <2>1, TakenStays, WorkflowIds DEF TestRequest, IInv, TypeOK
  <2>3. CASE x = r.id
    <3>1. rows'[x].parent = r.parent BY <1>3, <2>1, <2>3, TakenStays
    <3>2. keys'[r.key] = x BY <2>2, <2>3
    <3> QED BY <2>2, <3>1, <3>2 DEF Holds
  <2>4. CASE x # r.id
    <3>1. rows'[x] = rows[x] BY <1>3, <1>a, <2>1, <2>4, TakenStays
    <3>2. TestKey[rows[x].parent] # r.key BY <1>a, <1>b, <2>2, <3>1, WorkflowIds
    <3>3. keys'[TestKey[rows[x].parent]] = x BY <1>b, <2>2, <3>1, <3>2
    <3> QED BY <3>1, <3>3 DEF Holds
  <2> QED BY <2>3, <2>4
<1>c. ASSUME NEW t \in Task, t # x, Writes(t) PROVE Holds(x)'
  <2>1. rows'[x] = rows[x] BY <1>a, <1>c DEF Writes
  <2>2. keys'[TestKey[rows[x].parent]] = keys[TestKey[rows[x].parent]]
    BY <1>b, <1>c, <2>1 DEF Writes, KeysWithout
  <2> QED BY <1>b, <2>1, <2>2 DEF Holds
<1>4. CASE CodingWritten
  BY <1>4, <1>c, WorkflowIds DEF CodingWritten
<1>5. CASE TestWritten
  <2>1. PICK y \in FollowUp : /\ Writes(y)
                              /\ \/ HasStatus(y, Closed)'
                                 \/ keys' = keys /\ ~HasStatus(y, Closed)
                                 \/ UNCHANGED storeVars
                                 \/ lapsed'
    BY <1>5 DEF TestWritten
  <2>2. CASE y # x BY <2>1, <2>2, <1>c, WorkflowIds
  <2>3. CASE y = x
    <3>1. (keys' = keys /\ ~HasStatus(x, Closed)) \/ UNCHANGED storeVars
      BY <2>1, <2>3
    <3>2. CASE keys' = keys /\ ~HasStatus(x, Closed)
      <4>1. Exists(x) /\ rows'[x].parent = rows[x].parent
        BY <1>a, <2>1, KeptStays DEF Writes
      <4> QED BY <1>a, <3>2, <4>1 DEF KeysHeld, Holds
    <3> QED BY <1>1, <3>1, <3>2
  <2> QED BY <2>2, <2>3
<1>6. CASE KeyCollected BY <1>6 DEF KeyCollected
<1>7. CASE UNCHANGED workflowVars BY <1>1, <1>7 DEF workflowVars, storeVars
<1> QED BY <1>1, <1>2, <1>3, <1>4, <1>5, <1>6, <1>7, WorkflowWrites

-----------------------------------------------------------------------------
(* The queues of the engine.                                               *)

(* There is an id left for the Test that is planned.                       *)
LEMMA PlanAdds ==
  ASSUME WorkflowInv, Plan
  PROVE  \E x \in FollowUp, c \in Coding :
           /\ c = looking.task /\ looking' = Nothing
           /\ ~Exists(x) /\ \A i \in DOMAIN ingress : ingress[i].id # x
           /\ TestOf(c, x) \in TestRequest /\ TestOf(c, x).id = x /\ TestOf(c, x).parent = c
           /\ ingress' = Append(ingress, TestOf(c, x))
<1> USE DEF WorkflowInv, EngineTypes
<1>1. PICK x : x = CHOOSE y \in Unused : TRUE OBVIOUS
<1>2. x \in Unused
  <2>1. answers <= MaxAnswers /\ MaxAnswers <= Cardinality(FollowUp) /\ MaxAnswers \in Nat
        /\ Cardinality(FollowUp) \in Nat
    BY FS_CardinalityType
  <2>2. AtWork = 1 /\ Len(completed) >= 0 BY DEF Plan, AtWork
  <2>3. Cardinality(Used) < Cardinality(FollowUp) BY <2>1, <2>2, UsedCount DEF RoomLeft
  <2> QED BY <1>1, <2>3, UsedCount
<1>3. PICK c \in Coding : c = looking.task BY DEF Plan
<1>4. TestOf(c, x) \in TestRequest
  <2>1. rows[c] \in Row /\ c \in Task BY WorkflowIds DEF IInv, TypeOK
  <2> QED BY <1>2, <2>1, WorkflowIds DEF TestOf, TestRequest, Request, Row, Unused
<1>5. TestOf(c, x).id = x /\ TestOf(c, x).parent = c BY DEF TestOf
<1> QED BY <1>1, <1>2, <1>3, <1>4, <1>5 DEF Plan, Unused
(* The queues hold what they can hold, after every step.                   *)
LEMMA EngineStays ==
  ASSUME WorkflowInv, [WorkflowNext]_workflowVars
  PROVE  EngineTypes'
<1> USE DEF WorkflowInv, EngineTypes
<1>a. ASSUME executing' = executing PROVE (executing # NoTask => Exists(executing))'
  BY <1>a, StoreStays, WorkflowIds DEF Grows
<1>1. ASSUME NEW r \in CodingRequests, Order(r) PROVE EngineTypes'
  BY <1>1, <1>a DEF Order, busVars, engineVars, historyVars
<1>2. ASSUME NEW c \in Coding, Answer(c) PROVE EngineTypes'
  <2>a. Append(lifecycle, c) \in Seq(Coding) /\ Append(completed, c) \in Seq(Coding)
    BY AppendAdds
  <2>1. lifecycle' \in Seq(Coding) BY <1>2, <2>a DEF Answer
  <2>2. completed' \in Seq(Coding) BY <1>2, <2>a DEF Answer, Heard
  <2> QED BY <1>2, <1>a, <2>1, <2>2 DEF Answer, engineVars, historyVars
<1>3. ASSUME NEW c \in Coding, WriteAndTell(c) PROVE EngineTypes'
  BY <1>3, <1>a DEF WriteAndTell, Heard, engineVars, historyVars
<1>4. ASSUME NEW c \in Coding, CodingWrite(c) PROVE EngineTypes'
  BY <1>4, <1>a DEF CodingWrite, busVars, engineVars, historyVars
<1>5. ASSUME NEW c \in Coding, CollectKey(c) PROVE EngineTypes'
  BY <1>5, <1>a DEF CollectKey, busVars, engineVars
<1>6. CASE ApplyBusTerminal
  BY <1>6, <1>a DEF ApplyBusTerminal, engineVars, historyVars
<1>7. CASE Receive
  <2>1. Head(completed) \in Coding /\ completed' \in Seq(Coding) BY <1>7 DEF Receive
  <2>2. looking' \in Message /\ looking'.looks < Attempts /\ looking'.task \in Coding
    BY <1>7, <2>1 DEF Receive, Message
  <2>3. owed' \subseteq Coding BY <1>7, <2>1 DEF Receive
  <2> QED BY <1>7, <1>a, <2>1, <2>2, <2>3 DEF Receive
<1>8. CASE LookAgain
  <2>1. CASE MayRetry
    <3>1. looking' = [looking EXCEPT !.looks = @ + 1] BY <1>8, <2>1 DEF LookAgain
    <3>a. looking \in [task : Coding \cup {NoTask}, looks : Nat] BY DEF Message
    <3>2. looking' \in Message /\ looking'.looks = looking.looks + 1 /\ looking'.task = looking.task
      BY ONLY <3>1, <3>a DEF Message
    <3> QED BY <1>8, <1>a, <2>1, <3>2 DEF LookAgain, MayRetry, busVars
  <2>2. CASE ~MayRetry
    <3>1. looking' = Nothing BY <1>8, <2>2 DEF LookAgain
    <3>2. Nothing \in Message /\ Nothing.looks < Attempts BY DEF Message, Nothing
    <3> QED BY <1>8, <1>a, <3>1, <3>2 DEF LookAgain, busVars
  <2> QED BY <2>1, <2>2
<1>9. CASE Plan
  <2>5. PICK x \in FollowUp, c \in Coding : /\ TestOf(c, x) \in TestRequest
                                            /\ ingress' = Append(ingress, TestOf(c, x))
    BY <1>9, PlanAdds
  <2>4. ingress' \in Seq(TestRequest) BY <2>5, AppendAdds
  <2>6. Nothing \in Message /\ Nothing.looks < Attempts BY DEF Message, Nothing
  <2> QED BY <1>9, <1>a, <2>4, <2>6 DEF Plan, busVars, historyVars
<1>10. CASE Take
  <2>1. PICK r : r = Head(ingress) OBVIOUS
  <2>2. r \in TestRequest /\ ingress' \in Seq(TestRequest) BY <1>10, <2>1 DEF Take
  <2>3. executing' \in FollowUp \cup {NoTask} /\ (executing # NoTask => Exists(executing))'
    <3>1. CASE UNCHANGED executing BY <3>1, <1>a
    <3>2. CASE IsAccepted(r) /\ Admit(r) /\ executing' = r.id
      <4>1. TakesIn BY <1>10, <2>1, <3>2 DEF Take, Admit, TakesIn
      <4> QED BY <2>1, <2>2, <3>2, <4>1, TakenStays DEF TestRequest
    <3>3. CASE executing' = NoTask BY <3>3
    <3> QED BY <1>10, <2>1, <3>1, <3>2, <3>3 DEF Take
  <2>4. owed' \subseteq Coding BY <1>10 DEF Take
  <2> QED BY <1>10, <2>2, <2>3, <2>4 DEF Take, busVars
<1>11. CASE ExecuteTest
  <2>1. executing' \in {executing, NoTask} BY <1>11 DEF ExecuteTest
  <2>2. executing' \in FollowUp \cup {NoTask} /\ (executing # NoTask => Exists(executing))'
    BY <2>1, <1>a
  <2>3. lapsed' \in BOOLEAN
    BY <1>11 DEF ExecuteTest
  <2> QED BY <1>11, <2>2, <2>3 DEF ExecuteTest, busVars
<1>12. ASSUME NEW x \in FollowUp, TestWrite(x) PROVE EngineTypes'
  BY <1>12, <1>a DEF TestWrite, busVars, engineVars, historyVars
<1>13. CASE Exit
  <2>1. Nothing \in Message /\ Nothing.looks < Attempts BY DEF Message, Nothing
  <2> QED BY <1>13, <2>1 DEF Exit
<1>14. CASE UNCHANGED workflowVars
  BY <1>14, <1>a DEF workflowVars, busVars, engineVars, historyVars
<1> QED BY <1>1, <1>2, <1>3, <1>4, <1>5, <1>6, <1>7, <1>8, <1>9, <1>10, <1>11, <1>12, <1>13,
        <1>14
        DEF WorkflowNext

(* Only the plan, the dispatcher and an exit move the channel of Tests.    *)
LEMMA IngressMoves ==
  ASSUME WorkflowInv, [WorkflowNext]_workflowVars
  PROVE  Plan \/ Take \/ ingress' = << >> \/ UNCHANGED ingress
BY DEF WorkflowNext, Order, Answer, WriteAndTell, CodingWrite, CollectKey, ApplyBusTerminal,
   Receive, LookAgain, ExecuteTest, TestWrite, Exit, engineVars, workflowVars

(* Ids on their way stay new, and only a plan uses one more.               *)
LEMMA NewIdsStay ==
  ASSUME WorkflowInv, [WorkflowNext]_workflowVars
  PROVE  /\ NewIds'
         /\ Used' \subseteq Used \/ (Plan /\ \E x \in FollowUp : Used' \subseteq Used \cup {x})
<1> USE DEF WorkflowInv
<1>a. ingress \in Seq(TestRequest) /\ DOMAIN ingress = 1..Len(ingress) /\ Len(ingress) \in Nat
  BY DEF EngineTypes
<1>b. \A i \in DOMAIN ingress : ingress[i].id \in FollowUp /\ ~Exists(ingress[i].id)
  BY <1>a DEF TestRequest, NewIds
<1>c. Used = {x \in FollowUp : Exists(x) \/ \E i \in DOMAIN ingress : ingress[i].id = x}
  BY DEF Used, Unused
<1>d. Grows BY StoreStays
<1>1. CASE Plan
  <2>1. PICK x \in FollowUp, c \in Coding :
          /\ ~Exists(x) /\ \A i \in DOMAIN ingress : ingress[i].id # x
          /\ TestOf(c, x) \in TestRequest /\ TestOf(c, x).id = x
          /\ ingress' = Append(ingress, TestOf(c, x))
    BY <1>1, PlanAdds
  <2>2. rows' = rows BY <1>1 DEF Plan, storeVars
  <2>3. /\ DOMAIN ingress' = 1..(Len(ingress) + 1)
        /\ \A i \in DOMAIN ingress : ingress'[i] = ingress[i]
        /\ ingress'[Len(ingress) + 1].id = x
    BY <1>a, <2>1
  <2>4. \A i \in DOMAIN ingress' : i \in DOMAIN ingress \/ i = Len(ingress) + 1
    BY <1>a, <2>3
  <2>5. NewIds'
    <3>1. \A i \in DOMAIN ingress' : rows'[ingress'[i].id].status = "ABSENT"
      BY <1>b, <2>1, <2>2, <2>3, <2>4 DEF Exists
    <3>2. \A i, j \in DOMAIN ingress' : ingress'[i].id = ingress'[j].id => i = j
      BY <2>1, <2>3, <2>4 DEF NewIds
    <3> QED BY <3>1, <3>2 DEF NewIds, Exists
  <2>6. Used' \subseteq Used \cup {x}
    BY <1>c, <2>2, <2>3, <2>4 DEF Used, Unused, Exists
  <2> QED BY <1>1, <2>5, <2>6
<1>2. CASE Take
  <2>1. /\ ingress' = Tail(ingress) /\ ingress # << >> BY <1>2 DEF Take
  <2>2. /\ DOMAIN ingress' = 1..(Len(ingress) - 1) /\ Len(ingress) > 0
        /\ \A i \in DOMAIN ingress' : i + 1 \in DOMAIN ingress /\ ingress'[i] = ingress[i + 1]
        /\ Head(ingress) = ingress[1] /\ 1 \in DOMAIN ingress
    BY <1>a, <2>1
  <2>3. \A i \in DOMAIN ingress' : i # 0 /\ i \in Nat /\ i + 1 # 1 BY <1>a, <2>2
  <2>4. NewIds'
    <3>1. \A i \in DOMAIN ingress' : rows'[ingress'[i].id].status = "ABSENT"
      <4> SUFFICES ASSUME NEW i \in DOMAIN ingress' PROVE rows'[ingress'[i].id].status = "ABSENT"
        OBVIOUS
      <4>1. PICK x \in FollowUp : x = ingress'[i].id BY <1>b, <2>2
      <4>2. ~Exists(x) /\ x # Head(ingress).id BY <1>b, <2>2, <2>3, <4>1 DEF NewIds
      <4>3. ~Exists(x)' BY <1>d, <4>2 DEF Grows
      <4> QED BY <4>1, <4>3 DEF Exists
    <3>2. \A i, j \in DOMAIN ingress' : ingress'[i].id = ingress'[j].id => i = j
      <4> SUFFICES ASSUME NEW i \in DOMAIN ingress', NEW j \in DOMAIN ingress',
                          ingress'[i].id = ingress'[j].id PROVE i = j
        OBVIOUS
      <4>1. i + 1 = j + 1 BY <2>2 DEF NewIds
      <4> QED BY <2>3, <4>1
    <3> QED BY <3>1, <3>2 DEF NewIds, Exists
  <2>5. Used' \subseteq Used
    <3> SUFFICES ASSUME NEW x \in FollowUp,
                        Exists(x)' \/ \E i \in DOMAIN ingress' : ingress'[i].id = x
                 PROVE  Exists(x) \/ \E i \in DOMAIN ingress : ingress[i].id = x
      BY <1>c DEF Used, Unused
    <3>1. Exists(x)' => Exists(x) \/ x = ingress[1].id BY <1>d, <2>2 DEF Grows
    <3> QED BY <2>2, <3>1
  <2> QED BY <2>4, <2>5
<1>e. ASSUME UNCHANGED ingress \/ ingress' = << >>
      PROVE  \A x \in FollowUp : Exists(x)' => Exists(x) \/ x \in Used
  BY <1>e, <1>d, <1>a, <1>c DEF Grows, TakesIn
<1>3. CASE ingress' = << >>
  <2>1. DOMAIN ingress' = {} BY <1>3
  <2>2. NewIds' BY <2>1 DEF NewIds
  <2>3. Used' = {x \in FollowUp : Exists(x)'} BY <2>1 DEF Used, Unused
  <2> QED BY <1>c, <1>e, <1>3, <2>2, <2>3
<1>4. CASE UNCHANGED ingress
  <2>1. ~TakesIn
    <3> SUFFICES ASSUME TakesIn PROVE FALSE OBVIOUS
    <3>1. Len(Tail(ingress)) = Len(ingress) - 1 BY <1>a DEF TakesIn
    <3> QED BY <1>a, <1>4, <3>1 DEF TakesIn
  <2>2. \A x \in FollowUp : Exists(x)' => Exists(x) BY <1>d, <2>1 DEF Grows
  <2>3. NewIds' BY <1>4, <1>b, <2>2 DEF NewIds, Exists
  <2>4. Used' \subseteq Used BY <1>c, <1>4, <2>2 DEF Used, Unused
  <2> QED BY <2>3, <2>4
<1> QED BY <1>1, <1>2, <1>3, <1>4, IngressMoves

(* Every message told may use one id, and there is one for each.           *)
LEMMA RoomStays ==
  ASSUME WorkflowInv, [WorkflowNext]_workflowVars
  PROVE  RoomLeft'
<1> USE DEF WorkflowInv
<1>a. /\ completed \in Seq(Coding) /\ Len(completed) \in Nat /\ answers \in Nat
      /\ Cardinality(Used) + Len(completed) + AtWork <= answers
      /\ AtWork \in {0, 1} /\ Cardinality(Used) \in Nat
  BY UsedCount DEF EngineTypes, RoomLeft, AtWork
<1>b. EngineTypes' BY EngineStays
<1>c. /\ Len(completed)' \in Nat /\ answers' \in Nat /\ AtWork' \in {0, 1}
      /\ completed' \in Seq(Coding)
  BY <1>b DEF EngineTypes, AtWork
<1>d. Cardinality(Used)' \in Nat
  <2>1. IsFiniteSet(Used') BY FS_Subset DEF Used
  <2> QED BY <2>1, FS_CardinalityType
<1>1. CASE Plan
  <2>1. Cardinality(Used)' <= Cardinality(Used) + 1 BY UsedCount, NewIdsStay, <1>a, <1>d
  <2>2. AtWork = 1 /\ AtWork' = 0 BY <1>1 DEF Plan, AtWork
  <2>3. UNCHANGED <<completed, answers>> BY <1>1 DEF Plan, busVars
  <2> QED BY <1>a, <1>d, <2>1, <2>2, <2>3 DEF RoomLeft
<1>e. ~Plan => Cardinality(Used)' <= Cardinality(Used) BY UsedCount, NewIdsStay
<1>2. CASE Receive
  <2>1. ~Plan BY <1>2 DEF Receive, Plan
  <2>2. /\ AtWork = 0 /\ AtWork' \in {0, 1}
        /\ Len(completed)' = Len(completed) - 1 /\ answers' = answers
    BY <1>2, <1>a, <1>c DEF Receive, AtWork
  <2> QED BY <1>a, <1>c, <1>d, <1>e, <2>1, <2>2 DEF RoomLeft
<1>3. ASSUME NEW c \in Coding, Answer(c) \/ WriteAndTell(c) PROVE RoomLeft'
  <2>1. /\ answers' = answers + 1 /\ looking' = looking
        /\ completed' = completed \/ completed' = Append(completed, c)
    BY <1>3 DEF Answer, WriteAndTell, Heard, engineVars
  <2>2. Len(completed)' <= Len(completed) + 1 BY <1>a, <1>c, <2>1, AppendAdds
  <2>3. ~Plan BY <2>1 DEF Plan
  <2>4. AtWork' = AtWork BY <2>1 DEF AtWork
  <2> QED BY <1>a, <1>c, <1>d, <1>e, <2>1, <2>2, <2>3, <2>4 DEF RoomLeft
<1>4. CASE LookAgain
  <2>1. /\ ~Plan /\ AtWork = 1 /\ UNCHANGED <<completed, answers>>
    BY <1>4 DEF LookAgain, Plan, HasStatus, AtWork, busVars
  <2> QED BY <1>a, <1>c, <1>d, <1>e, <2>1 DEF RoomLeft
<1>5. CASE Exit
  <2>1. looking' = Nothing /\ completed' = << >> /\ answers' = answers BY <1>5 DEF Exit
  <2>2. ingress' = << >> BY <1>5 DEF Exit
  <2>3. ~Plan
    <3> SUFFICES ASSUME Plan PROVE FALSE OBVIOUS
    <3>1. PICK r \in TestRequest : ingress' = Append(ingress, r) BY PlanAdds
    <3>2. ingress \in Seq(TestRequest) /\ Len(ingress) \in Nat BY DEF EngineTypes
    <3>3. Len(ingress') = Len(ingress) + 1 BY <3>1, <3>2, AppendAdds
    <3> QED BY <3>2, <3>3, <2>2
  <2>4. Len(completed)' = 0 /\ AtWork' = 0 BY <2>1 DEF AtWork
  <2> QED BY <1>a, <1>c, <1>d, <1>e, <2>1, <2>3, <2>4 DEF RoomLeft
<1>6. CASE UNCHANGED <<looking, completed, answers>> /\ ~Plan
  BY <1>6, <1>a, <1>c, <1>d, <1>e DEF RoomLeft, AtWork
<1>7. ASSUME NEW r \in CodingRequests, Order(r) PROVE UNCHANGED <<looking, completed, answers>>
  BY <1>7 DEF Order, busVars, engineVars
<1>8. ASSUME NEW c \in Coding, CodingWrite(c) \/ CollectKey(c)
      PROVE  UNCHANGED <<looking, completed, answers>>
  BY <1>8 DEF CodingWrite, CollectKey, busVars, engineVars
<1>9. CASE ApplyBusTerminal \/ Take \/ ExecuteTest
  BY <1>9, <1>6 DEF ApplyBusTerminal, Take, ExecuteTest, busVars, engineVars, Plan
<1>10. ASSUME NEW x \in FollowUp, TestWrite(x) PROVE UNCHANGED <<looking, completed, answers>>
  BY <1>10 DEF TestWrite, busVars, engineVars
<1>11. UNCHANGED workflowVars => UNCHANGED <<looking, completed, answers>>
  BY DEF workflowVars, busVars, engineVars
<1>12. Plan => looking' # looking BY DEF Plan
<1> QED BY <1>1, <1>2, <1>3, <1>4, <1>5, <1>6, <1>7, <1>8, <1>9, <1>10, <1>11, <1>12
        DEF WorkflowNext

-----------------------------------------------------------------------------
(* What is owed moves on, and is forgotten only with its reason.           *)
LEMMA OwedStays ==
  ASSUME WorkflowInv, [WorkflowNext]_workflowVars
  PROVE  OwedCovered'
<1> USE DEF WorkflowInv
<1>a. /\ Grows /\ owed \subseteq Coding /\ ingress \in Seq(TestRequest)
      /\ DOMAIN ingress = 1..Len(ingress) /\ Len(ingress) \in Nat
  BY StoreStays DEF EngineTypes
<1>b. ASSUME NEW c \in owed, looking' = looking \/ looking.task # c, UNCHANGED ingress
      PROVE  Covered(c)'
  <2>1. Covered(c) /\ TestsOf(c) \subseteq TestsOf(c)' BY <1>a, <1>b DEF OwedCovered, Grows
  <2>2. OnItsWay(c) => OnItsWay(c)' BY <1>b DEF OnItsWay
  <2> QED BY <1>b, <2>1, <2>2 DEF Covered
<1>1. CASE UNCHANGED <<owed, looking, ingress>>
  BY <1>1, <1>b DEF OwedCovered
<1>2. CASE Receive
  <2>1. PICK c : c = Head(completed) OBVIOUS
  <2>2. /\ looking'.task = c /\ owed' = owed \cup {c} /\ UNCHANGED ingress
        /\ looking = Nothing
    BY <1>2, <2>1 DEF Receive
  <2>3. Covered(c)' BY <2>2 DEF Covered
  <2>4. \A d \in owed : looking.task # d BY <1>a, <2>2, WorkflowIds DEF Nothing
  <2> QED BY <1>b, <2>2, <2>3, <2>4 DEF OwedCovered
<1>3. CASE LookAgain
  <2>1. UNCHANGED ingress BY <1>3 DEF LookAgain
  <2>2. looking.looks \in Nat /\ looking.looks < Attempts /\ looking \in Message
    BY DEF EngineTypes, Message
  <2>3. CASE MayRetry
    <3>1. looking' = [looking EXCEPT !.looks = @ + 1] /\ owed' = owed
      BY <1>3, <2>2, <2>3 DEF LookAgain, MayRetry
    <3>2. looking'.task = looking.task BY <2>2, <3>1 DEF Message
    <3>3. \A c \in owed : Covered(c)'
      BY <1>a, <2>1, <3>1, <3>2 DEF OwedCovered, Covered, OnItsWay, Grows
    <3> QED BY <3>1, <3>3 DEF OwedCovered
  <2>4. CASE ~MayRetry
    <3>1. owed' = owed \ {looking.task}
      BY <1>3, <2>2, <2>4 DEF LookAgain, MayRetry
    <3> QED BY <1>b, <2>1, <3>1 DEF OwedCovered
  <2> QED BY <2>3, <2>4
<1>4. CASE Plan
  <2>1. PICK x \in FollowUp, d \in Coding :
          /\ d = looking.task /\ TestOf(d, x) \in TestRequest /\ TestOf(d, x).parent = d
          /\ ingress' = Append(ingress, TestOf(d, x))
    BY <1>4, PlanAdds
  <2>2. /\ DOMAIN ingress' = 1..(Len(ingress) + 1)
        /\ \A i \in DOMAIN ingress : i \in DOMAIN ingress' /\ ingress'[i] = ingress[i]
        /\ Len(ingress) + 1 \in DOMAIN ingress' /\ ingress'[Len(ingress) + 1].parent = d
    BY <1>a, <2>1
  <2>3. \A c \in owed : OnItsWay(c) \/ c = d => OnItsWay(c)'
    BY <2>2 DEF OnItsWay
  <2>4. \A c \in owed : Covered(c)'
    BY <1>a, <2>1, <2>3 DEF OwedCovered, Covered, Grows
  <2>5. owed' = owed BY <1>4 DEF Plan, historyVars
  <2> QED BY <2>4, <2>5 DEF OwedCovered
<1>5. CASE Take
  <2>1. PICK r : r = Head(ingress) OBVIOUS
  <2>2. /\ ingress' = Tail(ingress) /\ ingress # << >> /\ looking' = looking
        /\ r \in TestRequest /\ r = ingress[1] /\ owed' \subseteq owed
    BY <1>5, <1>a, <2>1 DEF Take
  <2>3. /\ DOMAIN ingress' = 1..(Len(ingress) - 1)
        /\ \A i \in DOMAIN ingress :
             i # 1 => i - 1 \in DOMAIN ingress' /\ ingress'[i - 1] = ingress[i]
    BY <1>a, <2>2
  <2>4. ASSUME NEW c \in owed, c # r.parent PROVE Covered(c)'
    <3>1. OnItsWay(c) => OnItsWay(c)' BY <2>2, <2>3, <2>4 DEF OnItsWay
    <3> QED BY <1>a, <2>2, <3>1 DEF OwedCovered, Covered, Grows
  <2>5. r.parent \in owed' => Covered(r.parent)
    BY <2>2 DEF OwedCovered
  <2>6. CASE r.parent \in owed'
    <3>1. PICK c \in Coding : c = r.parent BY <2>2 DEF TestRequest
    <3>2. /\ r \in Request /\ r.id \in FollowUp /\ r.key = TestKey[c] /\ r.id \in Task
          /\ r.key # NoKey /\ r.key \in Key
      BY <2>2, <3>1, WorkflowIds DEF TestRequest
    <3>3. Admit(r) /\ LineageOK(r) BY <1>5, <2>1, <2>6 DEF Take
    <3>4. ~Exists(r.id)
      <4>1. 1 \in DOMAIN ingress BY <1>a, <2>2
      <4> QED BY <2>2, <4>1 DEF NewIds
    <3>5. CASE Accept(r)
      <4>1. TakesIn BY <2>1, <2>2, <3>5 DEF TakesIn
      <4>2. rows'[r.id].parent = r.parent BY <2>1, <4>1, TakenStays
      <4>3. r.id \in TestsOf(c)' BY <3>1, <3>2, <4>2 DEF TestsOf
      <4> QED BY <2>4, <2>2, <3>1, <4>3 DEF OwedCovered, Covered
    <3>6. CASE IsReplay(r) /\ UNCHANGED storeVars
      <4>1. PICK t \in Task : t = keys[r.key]
        BY <3>2, <3>6 DEF IsReplay, IInv, TypeOK
      <4>2. Exists(t) /\ rows[t].key = TestKey[c]
        BY <3>2, <3>6, <4>1 DEF IsReplay, IInv, KeyHolder
      <4>3. t \in FollowUp /\ rows[t].parent \in Coding /\ TestKey[rows[t].parent] = TestKey[c]
        BY <4>2 DEF RowsKnown
      <4>4. rows[t].parent = c BY <4>3
      <4>5. t \in TestsOf(c)' BY <3>6, <4>3, <4>4 DEF TestsOf, storeVars
      <4> QED BY <2>4, <2>2, <3>1, <4>5 DEF OwedCovered, Covered
    <3> QED BY <3>3, <3>4, <3>5, <3>6 DEF Admit, IsAccepted
  <2> QED BY <2>2, <2>4, <2>6 DEF OwedCovered
<1>6. CASE Exit
  BY <1>6 DEF Exit, OwedCovered
<1>7. ASSUME NEW r \in CodingRequests, Order(r) PROVE UNCHANGED <<owed, looking, ingress>>
  BY <1>7 DEF Order, historyVars, engineVars
<1>8. ASSUME NEW c \in Coding, Answer(c) \/ WriteAndTell(c) \/ CodingWrite(c) \/ CollectKey(c)
      PROVE  UNCHANGED <<owed, looking, ingress>>
  BY <1>8 DEF Answer, WriteAndTell, CodingWrite, CollectKey, historyVars, engineVars
<1>9. CASE ApplyBusTerminal \/ ExecuteTest
  BY <1>9, <1>1 DEF ApplyBusTerminal, ExecuteTest, historyVars, engineVars
<1>10. ASSUME NEW x \in FollowUp, TestWrite(x) PROVE UNCHANGED <<owed, looking, ingress>>
  BY <1>10 DEF TestWrite, historyVars, engineVars
<1>11. UNCHANGED workflowVars => UNCHANGED <<owed, looking, ingress>>
  BY DEF workflowVars, historyVars, engineVars
<1> QED BY <1>1, <1>2, <1>3, <1>4, <1>5, <1>6, <1>7, <1>8, <1>9, <1>10, <1>11 DEF WorkflowNext

-----------------------------------------------------------------------------
(* The invariant holds at the start.                                       *)
LEMMA WorkflowInitInv == WorkflowInit => WorkflowInv
<1> SUFFICES ASSUME WorkflowInit PROVE WorkflowInv
  OBVIOUS
<1> USE DEF WorkflowInit
<1>1. IInv BY InitIInv
<1>2. \A t \in Task : ~Exists(t) BY DEF StoreInit, Exists, AbsentRow
<1>3. MaxAnswers \in Nat
  <2>1. Cardinality(FollowUp) \in Nat BY FS_CardinalityType
  <2> QED BY <2>1
<1>4. EngineTypes
  <2>1. Nothing \in Message /\ Nothing.looks < Attempts BY DEF Message, Nothing
  <2>2. << >> \in Seq(Coding) /\ << >> \in Seq(TestRequest) OBVIOUS
  <2>3. 0 \in 0..MaxAnswers BY <1>3
  <2> QED BY <2>1, <2>2, <2>3, Zenon DEF EngineTypes
<1>5. RowsKnown BY <1>2 DEF RowsKnown
<1>6. DOMAIN ingress = {} OBVIOUS
<1>7. NewIds BY <1>6 DEF NewIds
<1>8. RoomLeft
  <2>1. Used = {} BY <1>2, <1>6, WorkflowIds DEF Used, Unused
  <2> QED BY <2>1, FS_EmptySet DEF RoomLeft, AtWork
<1>9. KeysHeld /\ OwedCovered BY <1>2, WorkflowIds DEF KeysHeld, OwedCovered
<1> QED BY <1>1, <1>4, <1>5, <1>7, <1>8, <1>9 DEF WorkflowInv

(* The invariant holds in every reachable state.                           *)
LEMMA WorkflowInvHolds == WorkflowSpec => []WorkflowInv
<1>1. WorkflowInv /\ [WorkflowNext]_workflowVars => WorkflowInv'
  BY StoreStays, KeysHeldStays, EngineStays, NewIdsStay, RoomStays, OwedStays DEF WorkflowInv
<1> QED BY <1>1, WorkflowInitInv, PTL DEF WorkflowSpec

(* The tables stay what the store promises, under the requests the engine  *)
(* builds itself as well as under the clients': each key names a task      *)
(* admitted under it, and each Test hangs below the coding task it tests.  *)
THEOREM WorkflowKeepsStore ==
  WorkflowSpec => [](TypeOK /\ KeyHolder /\ LineageSound /\ MustDeliverNeverExpired)
<1>1. WorkflowInv => TypeOK /\ KeyHolder /\ LineageSound /\ MustDeliverNeverExpired
  BY DEF WorkflowInv, IInv
<1> QED BY <1>1, WorkflowInvHolds, PTL

(* However often a completion is told, and whatever becomes of the Tests,  *)
(* a coding task has no two open Tests, unless one has lost its key.       *)
THEOREM OneTestAtATime == WorkflowSpec => []OneOpenTest
<1>1. WorkflowInv => OneOpenTest
  <2> SUFFICES ASSUME WorkflowInv, ~lapsed, NEW c \in Coding
               PROVE  Cardinality({x \in TestsOf(c) : HasStatus(x, Incomplete)}) <= 1
    BY DEF OneOpenTest
  <2> DEFINE open == {x \in TestsOf(c) : HasStatus(x, Incomplete)}
  <2>1. "ABSENT" \notin Incomplete /\ Incomplete \cap Closed = {}
    BY DEF Incomplete, Backgroundable, Silenceable, Closed, Terminal
  <2>2. \A x \in open : keys[TestKey[c]] = x
    BY <2>1 DEF WorkflowInv, KeysHeld, Holds, TestsOf, HasStatus, Exists
  <2>3. PICK x : x = keys[TestKey[c]] OBVIOUS
  <2>4. open = {} \/ open = {x} BY <2>2, <2>3
  <2> HIDE DEF open
  <2>5. Cardinality(open) = 0 \/ Cardinality(open) = 1
    <3>1. Cardinality({}) = 0 /\ Cardinality({x}) = 1 BY FS_EmptySet, FS_Singleton, Zenon
    <3> QED BY <2>4, <3>1
  <2> QED BY <2>5 DEF open
<1> QED BY <1>1, WorkflowInvHolds, PTL

(* Every completion the engine has heard of and has not been excused from  *)
(* has its Test, when nothing is on its way any more.                      *)
THEOREM CompletionsFollowed == WorkflowSpec => []FollowedUp
<1>1. WorkflowInv => FollowedUp
  <2> SUFFICES ASSUME WorkflowInv, looking = Nothing, ingress = <<>>, NEW c \in owed
               PROVE  TestsOf(c) # {}
    BY DEF FollowedUp
  <2>1. c # NoTask /\ looking.task = NoTask
    BY WorkflowIds DEF WorkflowInv, EngineTypes, Nothing
  <2>2. ~OnItsWay(c) BY DEF OnItsWay
  <2> QED BY <2>1, <2>2 DEF WorkflowInv, OwedCovered, Covered
<1> QED BY <1>1, WorkflowInvHolds, PTL

-----------------------------------------------------------------------------
(* A step admits a request of a client or of the engine, or leaves every   *)
(* task the one it was.                                                    *)
LEMMA AdmitsOrKeeps ==
  ASSUME WorkflowInv, [WorkflowNext]_workflowVars
  PROVE  KeepsIdentity \/ \E r \in Request : Accept(r)
<1>1. CASE UNCHANGED storeVars \/ UNCHANGED workflowVars
  BY <1>1, NoRowKeepsIdentity DEF storeVars, workflowVars, WorkflowInv, IInv
<1>2. CASE Orders
  BY <1>2, WorkflowIds DEF Orders
<1>3. CASE TakesIn
  <2>1. PICK r : r = Head(ingress) OBVIOUS
  <2>2. r \in Request BY <1>3, <2>1, TakenStays DEF TestRequest
  <2> QED BY <1>3, <2>1, <2>2 DEF TakesIn
<1>4. CASE CodingWritten \/ TestWritten \/ KeyCollected
  BY <1>4 DEF CodingWritten, TestWritten, KeyCollected, Writes
<1> QED BY <1>1, <1>2, <1>3, <1>4, WorkflowWrites

(* Tests admitted by the engine are admitted as any task is: parents       *)
(* first, one task to a key, an identity once and for ever.                *)
THEOREM WorkflowAdmitsByContract == WorkflowSpec => Admission
<1>1. WorkflowInit => Contract!ContractInit
  BY DEF WorkflowInit, StoreInit, Contract!ContractInit, Identities, Exists, AbsentRow
<1>2. WorkflowInv /\ [WorkflowNext]_workflowVars => [Contract!ContractNext]_(Contract!contractVars)
  <2> SUFFICES ASSUME WorkflowInv, [WorkflowNext]_workflowVars
               PROVE  [Contract!ContractNext]_(Contract!contractVars)
    OBVIOUS
  <2>1. IInv BY DEF WorkflowInv
  <2> QED BY <2>1, AdmitsOrKeeps, KeepsIdentityRefines, AcceptRefines
<1> QED BY <1>1, <1>2, WorkflowInvHolds, PTL
        DEF WorkflowSpec, Admission, Contract!ContractSpec

(* The engine's clients write rows over and over, and yet an outcome that  *)
(* was handed over is not expired, and its first answerer stays.           *)
THEOREM WorkflowKeepsOutcomes == WorkflowSpec => DeliveredNotExpired /\ ClaimSticks
<1>1. ASSUME WorkflowInv, [WorkflowNext]_workflowVars, NEW t \in Task
      PROVE  /\ rows[t].delivered /\ HasStatus(t, {"COMPLETED", "FAILED"})
                  => rows'[t].status # "EXPIRED"
             /\ rows[t].claimed # NoSession => rows'[t].claimed = rows[t].claimed
  <2> USE <1>1
  <2>1. CASE KeepsIdentity
    BY <2>1 DEF KeepsIdentity, SameTask, HasStatus
  <2>2. ASSUME NEW r \in Request, Accept(r)
        PROVE  rows'[t] = rows[t] \/ rows[t] = AbsentRow(t)
    BY <2>2, AcceptFacts DEF WorkflowInv, IInv, TypeOK, NoHistory
  <2>3. CASE rows[t] = AbsentRow(t)
    BY <2>3 DEF AbsentRow, HasStatus
  <2>4. CASE rows'[t] = rows[t]
    BY <2>4 DEF HasStatus
  <2> QED BY <2>1, <2>2, <2>3, <2>4, AdmitsOrKeeps
<1>2. WorkflowInv /\ [WorkflowNext]_workflowVars =>
        [\A t \in Task : rows[t].delivered /\ HasStatus(t, {"COMPLETED", "FAILED"})
           => rows'[t].status # "EXPIRED"]_storeVars
  BY <1>1
<1>3. WorkflowInv /\ [WorkflowNext]_workflowVars =>
        [\A t \in Task : rows[t].claimed # NoSession
           => rows'[t].claimed = rows[t].claimed]_storeVars
  BY <1>1
<1> QED BY <1>2, <1>3, WorkflowInvHolds, PTL
        DEF WorkflowSpec, DeliveredNotExpired, ClaimSticks
=============================================================================
