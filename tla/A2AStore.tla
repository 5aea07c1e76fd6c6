------------------------------ MODULE A2AStore ------------------------------
(***************************************************************************)
(* The A2A task store: the tables a2a_tasks, idempotency_keys and          *)
(* agent_sessions of src-tauri/src/db/a2a.rs.  Every operation of          *)
(* ExperienceStore runs under the connection mutex, so each is one action. *)
(* Next is the most general client: any caller, any operation, any order.  *)
(* The modules Dispatcher and Orchestrator call the same operations from   *)
(* their own handlers.                                                     *)
(*                                                                         *)
(* Ages are abstracted: whenever the code compares the age of a timestamp  *)
(* with a TTL, any row may be old enough.  Of last_wait_at only its order  *)
(* against result_ready_at matters (delivered); result_json and            *)
(* result_ready_at are always written together (ready).                    *)
(***************************************************************************)
EXTENDS Naturals, FiniteSets, FiniteSetsExt

CONSTANTS
  Task, NoTask,        \* task ids
  Key, NoKey,          \* idempotency keys: whole (scope, project_id, key) triples
  Session, NoSession,  \* MCP session ids
  Agent, NoAgent,      \* agent ids a task can be addressed to; no target
  AgentOf,             \* agent_sessions.agent_id of each session
  Project,             \* project ids
  Requests,            \* the tasks that clients ask for
  MaxHops,             \* LOUNGE_MAX_HOPS, clamped to 1..64
  MaxSessions          \* MAX_AGENT_SESSIONS

(* A client also sends a status, which is stored as it is; every client of  *)
(* the repository leaves it at its default, QUEUED.                        *)
Request == [id : Task, parent : Task \cup {NoTask}, project : Project,
            key : Key \cup {NoKey}, session : Session \cup {NoSession},
            target : Agent \cup {NoAgent}, must : BOOLEAN]

ASSUME StoreConstants ==
  /\ NoTask \notin Task /\ NoKey \notin Key /\ NoSession \notin Session
  /\ NoAgent \notin Agent /\ AgentOf \in [Session -> Agent]
  /\ Project # {}
  /\ Requests \subseteq Request
  /\ MaxHops \in Nat \ {0}
  /\ MaxSessions \in Nat \ {0}

VARIABLES
  rows,      \* a2a_tasks: one row per task id, never deleted
  keys,      \* idempotency_keys: the task a key is reserved for
  sessions   \* agent_sessions: row missing, live or disconnected

storeVars == <<rows, keys, sessions>>

-----------------------------------------------------------------------------
(* Statuses.  RECOVERY_PENDING and TIMEOUT are read by several queries and  *)
(* written by none.                                                         *)

Terminal == {"COMPLETED", "FAILED", "EXPIRED", "TIMEOUT", "CANCELLED", "NEEDS_HUMAN"}
Closed == Terminal \ {"NEEDS_HUMAN"}
(* Mutant of Silenceable: the scan forgets the rows still QUEUED.           *)
SilenceableStarted == {"EXECUTING", "DISPATCHED", "RECOVERY_PENDING"}
Silenceable == {"EXECUTING", "DISPATCHED", "RECOVERY_PENDING", "QUEUED"}
Yieldable == {"QUEUED", "DISPATCHED", "EXECUTING", "WAIT_TIMEOUT_REACHED"}
Backgroundable == Silenceable \cup {"PENDING_APPROVAL"}
Incomplete == Backgroundable \cup {"WAIT_TIMEOUT_REACHED"}
Status == Incomplete \cup Terminal

Row == [status : Status \cup {"ABSENT"},
        parent : Task \cup {NoTask}, root : Task \cup {NoTask}, hop : Nat,
        project : Project, key : Key \cup {NoKey},
        session : Session \cup {NoSession}, target : Agent \cup {NoAgent},
        must : BOOLEAN, claimed : Session \cup {NoSession},
        ready : BOOLEAN,      \* result_json and result_ready_at are not null
        delivered : BOOLEAN,  \* last_wait_at >= result_ready_at
        bg : BOOLEAN]         \* backgrounded_at is not null

Exists(t) == rows[t].status # "ABSENT"
HasStatus(t, S) == rows[t].status \in S

-----------------------------------------------------------------------------
(* Admission: lineage normalisation, replay lookup and the transaction that *)
(* writes the task row and the key together.                                *)

DeadParent == {"FAILED", "EXPIRED", "NEEDS_HUMAN", "TIMEOUT", "CANCELLED"}

Hop(r) == IF r.parent = NoTask THEN 0 ELSE rows[r.parent].hop + 1
Root(r) == IF r.parent = NoTask THEN r.id ELSE rows[r.parent].root

(* Mutant of LineageOK: a child may cross into another project.             *)
LineageAnyProject(r) ==
  /\ r.parent # NoTask => Exists(r.parent) /\ ~HasStatus(r.parent, DeadParent)
  /\ Hop(r) < MaxHops

LineageOK(r) ==
  /\ r.parent # NoTask => /\ Exists(r.parent)
                          /\ rows[r.parent].project = r.project
                          /\ ~HasStatus(r.parent, DeadParent)
  /\ Hop(r) < MaxHops

(* Mutant of IsReplay: the key is never looked up.                          *)
NeverReplay(r) == FALSE
IsReplay(r) == LineageOK(r) /\ r.key # NoKey /\ keys[r.key] # NoTask
IsConflict(r) == LineageOK(r) /\ ~IsReplay(r) /\ Exists(r.id)
IsAccepted(r) == LineageOK(r) /\ ~IsReplay(r) /\ ~Exists(r.id)

NewRow(r) == [status |-> "QUEUED", parent |-> r.parent, root |-> Root(r), hop |-> Hop(r),
              project |-> r.project, key |-> r.key, session |-> r.session,
              target |-> r.target, must |-> r.must, claimed |-> NoSession,
              ready |-> FALSE, delivered |-> FALSE, bg |-> FALSE]

Accept(r) ==
  /\ IsAccepted(r)
  /\ rows' = [rows EXCEPT ![r.id] = NewRow(r)]
  /\ keys' = IF r.key = NoKey THEN keys ELSE [keys EXCEPT ![r.key] = r.id]
  /\ UNCHANGED sessions

(* Mutant of Admit: a free key is reserved before the row is accepted.      *)
AdmitKeyFirst(r) ==
  \/ Accept(r)
  \/ /\ ~IsAccepted(r)
     /\ keys' = IF r.key # NoKey /\ keys[r.key] = NoTask
                THEN [keys EXCEPT ![r.key] = r.id] ELSE keys
     /\ UNCHANGED <<rows, sessions>>

(* Replay, conflict and lineage errors write nothing. *)
Admit(r) == Accept(r) \/ (~IsAccepted(r) /\ UNCHANGED storeVars)

-----------------------------------------------------------------------------
(* Row writers.  The ones without a WHERE on the status overwrite any status.*)

KeysWithout(t) == [k \in Key |-> IF keys[k] = t THEN NoTask ELSE keys[k]]
InRow(t, row) == rows' = [rows EXCEPT ![t] = row]

SetStatus(t, s) ==
  /\ IF Exists(t) THEN InRow(t, [rows[t] EXCEPT !.status = s]) ELSE UNCHANGED rows
  /\ UNCHANGED <<keys, sessions>>

ReleaseKey(t) ==
  /\ keys' = KeysWithout(t)
  /\ UNCHANGED <<rows, sessions>>

(* result_ready_at = COALESCE(result_ready_at, now): only the first result  *)
(* sets it, and a wait before it is no delivery.                            *)
WithResult(row) == [row EXCEPT !.ready = TRUE]

CompleteWithResult(t, s, hasResult, release) ==
  /\ IF ~Exists(t) THEN UNCHANGED rows
     ELSE InRow(t, [(IF hasResult THEN WithResult(rows[t]) ELSE rows[t]) EXCEPT !.status = s])
  /\ keys' = IF release THEN KeysWithout(t) ELSE keys
  /\ UNCHANGED sessions

BoundToTarget(t, s) == sessions[s] # "absent" /\ AgentOf[s] = rows[t].target
(* Mutant of MayYield: any session of the target answers, claimed or not.   *)
MayYieldUnclaimed(t, s) == HasStatus(t, Yieldable) /\ BoundToTarget(t, s)
MayYield(t, s) ==
  /\ HasStatus(t, Yieldable)
  /\ \/ rows[t].claimed = s
     \/ rows[t].claimed = NoSession /\ BoundToTarget(t, s)

YieldResult(t, s, st) ==
  /\ MayYield(t, s)
  /\ InRow(t, [WithResult(rows[t]) EXCEPT !.status = st, !.claimed = s])
  /\ keys' = IF st = "FAILED" THEN KeysWithout(t) ELSE keys
  /\ UNCHANGED sessions

MayCancel(t, s) == Exists(t) /\ rows[t].session = s /\ ~HasStatus(t, Closed)
CancelTask(t, s) ==
  /\ MayCancel(t, s)
  /\ InRow(t, [rows[t] EXCEPT !.status = "CANCELLED"])
  /\ keys' = KeysWithout(t)
  /\ UNCHANGED sessions

MayAck(t, a) == HasStatus(t, {"DISPATCHED"}) /\ rows[t].target \in {NoAgent, a}
MarkAcked(t, a) ==
  /\ MayAck(t, a)
  /\ InRow(t, [rows[t] EXCEPT !.status = "EXECUTING"])
  /\ UNCHANGED <<keys, sessions>>

(* The atomic hand-over to the background: TRUE only for the call that wins.*)
CanBackground(t) == HasStatus(t, Backgroundable)
TryMarkWaitTimeout(t) ==
  /\ CanBackground(t)
  /\ InRow(t, [rows[t] EXCEPT !.status = "WAIT_TIMEOUT_REACHED", !.bg = TRUE])
  /\ UNCHANGED <<keys, sessions>>

(* touch_last_wait and bump_a2a_empty_wait write the same timestamp. *)
TouchLastWait(t) ==
  /\ Exists(t)
  /\ InRow(t, [rows[t] EXCEPT !.delivered = rows[t].ready])
  /\ UNCHANGED <<keys, sessions>>

-----------------------------------------------------------------------------
(* Sweeps of the silence watchdog.  S is the set of rows found old enough.  *)

SetAll(S, s) ==
  rows' = [t \in Task |-> IF t \in S THEN [rows[t] EXCEPT !.status = s] ELSE rows[t]]

Silent == {t \in Task : HasStatus(t, Silenceable)}
MarkSilentNeedsHuman(S) ==
  /\ S \subseteq Silent
  /\ SetAll(S, "NEEDS_HUMAN")
  /\ UNCHANGED <<keys, sessions>>

SessionGone(t) ==
  \/ rows[t].session = NoSession
  \/ sessions[rows[t].session] \in {"absent", "disconnected"}
(* Mutant of ResultOrphans: the delivery mark is not consulted.             *)
ResultOrphansAnyWait == {t \in Task :
  rows[t].bg /\ rows[t].ready /\ HasStatus(t, {"COMPLETED", "FAILED"}) /\ ~rows[t].must}
ResultOrphans == {t \in Task :
  /\ rows[t].bg /\ rows[t].ready
  /\ HasStatus(t, {"COMPLETED", "FAILED"})
  /\ ~rows[t].must /\ ~rows[t].delivered}
(* Mutant of IncompleteOrphans: must_deliver tasks are not skipped.         *)
IncompleteOrphansAll == {t \in Task : HasStatus(t, Incomplete) /\ SessionGone(t)}
IncompleteOrphans ==
  {t \in Task : HasStatus(t, Incomplete) /\ ~rows[t].must /\ SessionGone(t)}
ExpireOrphans(S) ==
  /\ S \subseteq ResultOrphans \cup IncompleteOrphans
  /\ SetAll(S, "EXPIRED")
  /\ UNCHANGED <<keys, sessions>>

Undelivered == {t \in Task :
  /\ Exists(t) /\ rows[t].must /\ ~rows[t].delivered
  /\ ~HasStatus(t, {"FAILED", "CANCELLED", "EXPIRED", "TIMEOUT"})}
AbandonMustDeliver(S) ==
  /\ S \subseteq Undelivered
  /\ rows' = [t \in Task |->
       IF t \in S THEN [WithResult(rows[t]) EXCEPT !.status = "FAILED"] ELSE rows[t]]
  /\ UNCHANGED <<keys, sessions>>

GcKeys(K) ==
  /\ K \subseteq Key
  /\ keys' = [k \in Key |-> IF k \in K THEN NoTask ELSE keys[k]]
  /\ UNCHANGED <<rows, sessions>>

-----------------------------------------------------------------------------
(* agent_sessions.  An insert over the cap deletes the oldest other rows;   *)
(* last_seen is not kept, so any others may be the oldest.                  *)

Known == {s \in Session : sessions[s] # "absent"}
UpsertSession(s) ==
  LET others == Known \ {s}
      excess == IF Cardinality(others) + 1 > MaxSessions
                THEN Cardinality(others) + 1 - MaxSessions ELSE 0
  IN /\ \E gone \in kSubset(excess, others) :
          sessions' = [x \in Session |-> IF x = s THEN "live"
                                         ELSE IF x \in gone THEN "absent"
                                         ELSE sessions[x]]
     /\ UNCHANGED <<rows, keys>>

MarkDisconnected(s) ==
  /\ s \in Known
  /\ sessions' = [sessions EXCEPT ![s] = "disconnected"]
  /\ UNCHANGED <<rows, keys>>

-----------------------------------------------------------------------------
(* The most general client.  KernelStatus are the statuses the dispatcher   *)
(* passes to set_a2a_task_status.                                           *)

KernelStatus == {"QUEUED", "PENDING_APPROVAL", "DISPATCHED", "EXECUTING", "FAILED"}

AbsentRow(t) == [status |-> "ABSENT", parent |-> NoTask, root |-> NoTask, hop |-> 0,
                 project |-> CHOOSE p \in Project : TRUE, key |-> NoKey,
                 session |-> NoSession, target |-> NoAgent,
                 must |-> FALSE, claimed |-> NoSession,
                 ready |-> FALSE, delivered |-> FALSE, bg |-> FALSE]

StoreInit ==
  /\ rows = [t \in Task |-> AbsentRow(t)]
  /\ keys = [k \in Key |-> NoTask]
  /\ sessions = [s \in Session |-> "absent"]

TaskOp(t) ==
  \/ \E s \in KernelStatus : SetStatus(t, s)
  \/ ReleaseKey(t)
  \/ \E hasResult, release \in BOOLEAN, s \in {"COMPLETED", "FAILED"} :
       CompleteWithResult(t, s, hasResult, release)
  \/ \E s \in Session, st \in {"COMPLETED", "FAILED"} : YieldResult(t, s, st)
  \/ \E s \in Session : CancelTask(t, s)
  \/ \E a \in Agent : MarkAcked(t, a)
  \/ TryMarkWaitTimeout(t)
  \/ TouchLastWait(t)

Sweep ==
  \/ \E S \in SUBSET Silent : MarkSilentNeedsHuman(S)
  \/ \E S \in SUBSET (ResultOrphans \cup IncompleteOrphans) : ExpireOrphans(S)
  \/ \E S \in SUBSET Undelivered : AbandonMustDeliver(S)
  \/ \E K \in SUBSET Key : GcKeys(K)

SessionOp == \E s \in Session : UpsertSession(s) \/ MarkDisconnected(s)

StoreNext ==
  \/ \E r \in Requests : Admit(r)
  \/ \E t \in Task : TaskOp(t)
  \/ Sweep
  \/ SessionOp

StoreSpec == StoreInit /\ [][StoreNext]_storeVars

-----------------------------------------------------------------------------
(* Properties.                                                             *)

(* The three tables hold what their columns can hold.                      *)
TypeOK ==
  /\ rows \in [Task -> Row]
  /\ keys \in [Key -> Task \cup {NoTask}]
  /\ sessions \in [Session -> {"absent", "live", "disconnected"}]

(* A reserved key names an admitted task that was requested under that     *)
(* key, so a replay answers with the task of the same logical request.     *)
KeyHolder == \A k \in Key :
  keys[k] # NoTask => Exists(keys[k]) /\ rows[keys[k]].key = k

(* The lineage of every row is grounded: a child's parent has a row of the *)
(* same project one hop up, both share a root, the root is a row without   *)
(* parent, and no row is as deep as the hop limit (so no delegation loop). *)
Grounded(t) ==
  /\ rows[t].hop < MaxHops
  /\ rows[t].root \in Task
  /\ Exists(rows[t].root)
  /\ rows[rows[t].root].parent = NoTask
  /\ rows[rows[t].root].project = rows[t].project
  /\ IF rows[t].parent = NoTask
     THEN rows[t].root = t /\ rows[t].hop = 0
     ELSE /\ Exists(rows[t].parent)
          /\ rows[t].hop = rows[rows[t].parent].hop + 1
          /\ rows[t].root = rows[rows[t].parent].root
          /\ rows[t].project = rows[rows[t].parent].project
LineageSound == \A t \in Task : Exists(t) => Grounded(t)

(* The sweeps never expire a task whose caller asked for guaranteed        *)
(* delivery, whatever happened to its session.                             *)
MustDeliverNeverExpired ==
  \A t \in Task : rows[t].must => rows[t].status # "EXPIRED"

(* An outcome that a wait has already handed to the caller is not expired  *)
(* behind its back.                                                        *)
DeliveredNotExpired == [][\A t \in Task :
  rows[t].delivered /\ HasStatus(t, {"COMPLETED", "FAILED"})
    => rows'[t].status # "EXPIRED"]_storeVars

(* The session that answered a task first stays its only answerer.         *)
ClaimSticks == [][\A t \in Task :
  rows[t].claimed # NoSession => rows'[t].claimed = rows[t].claimed]_storeVars

(* Refinement: the store implements the admission contract.                *)
NoIdentity == [parent |-> NoTask]
Identity == [parent : Task \cup {NoTask}, root : Task, hop : 0..(MaxHops - 1), project : Project,
             key : Key \cup {NoKey}, session : Session \cup {NoSession},
             target : Agent \cup {NoAgent}, must : BOOLEAN]
IdentityOf(row) == [parent |-> row.parent, root |-> row.root, hop |-> row.hop,
                    project |-> row.project, key |-> row.key, session |-> row.session,
                    target |-> row.target, must |-> row.must]
Identities == [t \in Task |-> IF Exists(t) THEN IdentityOf(rows[t]) ELSE NoIdentity]

Contract == INSTANCE AdmissionContract WITH identity <- Identities, holder <- keys
Admission == Contract!ContractSpec
=============================================================================
