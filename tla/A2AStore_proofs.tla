--------------------------- MODULE A2AStore_proofs ---------------------------
(***************************************************************************)
(* Proofs about A2AStore, for every set of tasks, keys, sessions, agents,  *)
(* projects and requests and every hop limit.                              *)
(***************************************************************************)
EXTENDS A2AStore, TLAPS

USE StoreConstants

(* A rewrite of a row keeps the task it stands for: a missing row stays    *)
(* missing, the identity is unchanged, a claim stays, and what must be or  *)
(* was delivered is not expired.                                           *)
SameTask(row, new) ==
  /\ new \in Row
  /\ IF row.status = "ABSENT" THEN new = row ELSE new.status # "ABSENT"
  /\ IdentityOf(new) = IdentityOf(row)
  /\ row.claimed # NoSession => new.claimed = row.claimed
  /\ new.status = "EXPIRED" /\ row.status # "EXPIRED" =>
       ~row.must /\ ~(row.delivered /\ row.status \in {"COMPLETED", "FAILED"})

(* The rewrites that the operations of the store are made of.              *)
LEMMA RowRewrites ==
  ASSUME NEW row \in Row, row.status # "ABSENT", NEW s \in Status,
         s = "EXPIRED" =>
           ~row.must /\ ~(row.delivered /\ row.status \in {"COMPLETED", "FAILED"})
  PROVE  /\ SameTask(row, [row EXCEPT !.status = s])
         /\ SameTask(row, [WithResult(row) EXCEPT !.status = s])
         /\ \A c \in Session : row.claimed \in {NoSession, c} =>
              SameTask(row, [WithResult(row) EXCEPT !.status = s, !.claimed = c])
         /\ SameTask(row, [row EXCEPT !.status = s, !.bg = TRUE])
         /\ SameTask(row, [row EXCEPT !.delivered = row.ready])
<1>1. s # "ABSENT"
  BY DEF Status, Incomplete, Backgroundable, Silenceable, Terminal
<1>2. SameTask(row, [row EXCEPT !.status = s])
  BY <1>1 DEF SameTask, Row, IdentityOf
<1>3. SameTask(row, [WithResult(row) EXCEPT !.status = s])
  BY <1>1 DEF SameTask, Row, WithResult, IdentityOf
<1>4. ASSUME NEW c \in Session, row.claimed \in {NoSession, c}
      PROVE  SameTask(row, [WithResult(row) EXCEPT !.status = s, !.claimed = c])
  BY <1>1, <1>4 DEF SameTask, Row, WithResult, IdentityOf
<1>5. SameTask(row, [row EXCEPT !.status = s, !.bg = TRUE])
  BY <1>1 DEF SameTask, Row, IdentityOf
<1>6. SameTask(row, [row EXCEPT !.delivered = row.ready])
  BY <1>1 DEF SameTask, Row, IdentityOf
<1> QED BY <1>2, <1>3, <1>4, <1>5, <1>6

(* Releasing keys keeps the key table well-typed and gives no key away.    *)
LEMMA KeysWithoutFacts ==
  ASSUME TypeOK, NEW t \in Task
  PROVE  /\ KeysWithout(t) \in [Key -> Task \cup {NoTask}]
         /\ \A k \in Key : KeysWithout(t)[k] \in {keys[k], NoTask}
BY DEF TypeOK, KeysWithout

-----------------------------------------------------------------------------
(* Every step but an accepted admission keeps what was admitted: no row    *)
(* appears or goes, no identity changes, and keys are at most given back.  *)

KeepsIdentity ==
  /\ DOMAIN rows' = Task /\ rows' = [t \in Task |-> rows'[t]]
  /\ \A t \in Task : SameTask(rows[t], rows'[t])
  /\ keys' \in [Key -> Task \cup {NoTask}]
  /\ \A k \in Key : keys'[k] \in {keys[k], NoTask}

(* A rewrite to itself.                                                    *)
LEMMA SameTaskReflexive == ASSUME NEW row \in Row PROVE SameTask(row, row)
BY DEF SameTask

(* It is enough that every row is kept or rewritten to the same task.      *)
LEMMA RowwiseKeepsIdentity ==
  ASSUME TypeOK, rows' = [t \in Task |-> rows'[t]],
         \A t \in Task : rows'[t] = rows[t] \/ SameTask(rows[t], rows'[t]),
         keys' = keys \/ \E t \in Task : keys' = KeysWithout(t)
  PROVE  KeepsIdentity
<1>1. \A t \in Task : SameTask(rows[t], rows'[t])
  BY SameTaskReflexive DEF TypeOK
<1>2. /\ keys' \in [Key -> Task \cup {NoTask}]
      /\ \A k \in Key : keys'[k] \in {keys[k], NoTask}
  BY KeysWithoutFacts DEF TypeOK
<1> QED BY <1>1, <1>2 DEF KeepsIdentity

(* The writers of one existing row.                                        *)
LEMMA RewriteKeepsIdentity ==
  ASSUME TypeOK, NEW t \in Task, NEW row, InRow(t, row), SameTask(rows[t], row),
         keys' = keys \/ keys' = KeysWithout(t)
  PROVE  KeepsIdentity
<1>1. rows' = [u \in Task |-> IF u = t THEN row ELSE rows[u]]
  BY DEF InRow, TypeOK
<1>2. /\ rows' = [u \in Task |-> rows'[u]]
      /\ \A u \in Task : rows'[u] = rows[u] \/ SameTask(rows[u], rows'[u])
  BY <1>1
<1> QED BY <1>2, RowwiseKeepsIdentity

(* Steps that write no row.                                                *)
LEMMA NoRowKeepsIdentity ==
  ASSUME TypeOK, UNCHANGED rows,
         keys' = keys \/ \E t \in Task : keys' = KeysWithout(t)
  PROVE  KeepsIdentity
<1>1. rows' = [u \in Task |-> rows'[u]] BY DEF TypeOK
<1> QED BY <1>1, RowwiseKeepsIdentity

(* Every step of the store is an accepted admission or keeps identities.   *)
LEMMA StepShape ==
  ASSUME TypeOK, [StoreNext]_storeVars
  PROVE  KeepsIdentity \/ \E r \in Requests : Accept(r)
<1>a. ASSUME UNCHANGED <<rows, keys>> PROVE KeepsIdentity
  BY <1>a, NoRowKeepsIdentity
<1>b. \A t \in Task : rows[t] \in Row
  BY DEF TypeOK
<1>c. KernelStatus \cup {"COMPLETED", "FAILED", "CANCELLED", "EXECUTING",
        "WAIT_TIMEOUT_REACHED", "NEEDS_HUMAN"} \subseteq Status \ {"EXPIRED"}
      /\ "EXPIRED" \in Status
  BY DEF KernelStatus, Status, Incomplete, Backgroundable, Silenceable, Terminal
<1>1. CASE \E r \in Requests : Admit(r)
  BY <1>1, <1>a DEF Admit, storeVars
<1>2. ASSUME NEW t \in Task, TaskOp(t) PROVE KeepsIdentity
  <2> USE <1>b, <1>c
  <2>1. ASSUME NEW s \in KernelStatus, SetStatus(t, s) PROVE KeepsIdentity
    <3>1. CASE ~Exists(t) BY <2>1, <3>1, <1>a DEF SetStatus
    <3>2. CASE Exists(t)
      <4>1. InRow(t, [rows[t] EXCEPT !.status = s]) /\ keys' = keys
        BY <2>1, <3>2 DEF SetStatus
      <4> QED BY <4>1, <3>2, RowRewrites, RewriteKeepsIdentity DEF Exists, IdentityOf, Row
    <3> QED BY <3>1, <3>2
  <2>2. CASE ReleaseKey(t)
    BY <2>2, NoRowKeepsIdentity DEF ReleaseKey
  <2>3. ASSUME NEW hasResult \in BOOLEAN, NEW release \in BOOLEAN,
               NEW s \in {"COMPLETED", "FAILED"},
               CompleteWithResult(t, s, hasResult, release)
        PROVE  KeepsIdentity
    <3>1. CASE ~Exists(t) BY <2>3, <3>1, NoRowKeepsIdentity DEF CompleteWithResult
    <3>2. CASE Exists(t)
      <4>1. PICK row \in {[rows[t] EXCEPT !.status = s], [WithResult(rows[t]) EXCEPT !.status = s]} :
              InRow(t, row) /\ (keys' = keys \/ keys' = KeysWithout(t))
        BY <2>3, <3>2 DEF CompleteWithResult
      <4>2. /\ SameTask(rows[t], [rows[t] EXCEPT !.status = s])
            /\ SameTask(rows[t], [WithResult(rows[t]) EXCEPT !.status = s])
        BY <3>2, RowRewrites DEF Exists
      <4> QED BY <4>1, <4>2, RewriteKeepsIdentity
    <3> QED BY <3>1, <3>2
  <2>4. ASSUME NEW s \in Session, NEW st \in {"COMPLETED", "FAILED"}, YieldResult(t, s, st)
        PROVE  KeepsIdentity
    <3>1. InRow(t, [WithResult(rows[t]) EXCEPT !.status = st, !.claimed = s])
      BY <2>4 DEF YieldResult
    <3>2. Exists(t) BY <2>4 DEF YieldResult, MayYield, HasStatus, Yieldable, Exists
    <3>3. keys' = keys \/ keys' = KeysWithout(t) BY <2>4 DEF YieldResult
    <3>4. rows[t].claimed \in {NoSession, s} BY <2>4 DEF YieldResult, MayYield
    <3> QED BY <3>1, <3>2, <3>3, <3>4, RowRewrites, RewriteKeepsIdentity DEF Exists
  <2>5. ASSUME NEW s \in Session, CancelTask(t, s) PROVE KeepsIdentity
    BY <2>5, RowRewrites, RewriteKeepsIdentity DEF CancelTask, MayCancel, Exists
  <2>6. ASSUME NEW a \in Agent, MarkAcked(t, a) PROVE KeepsIdentity
    BY <2>6, RowRewrites, RewriteKeepsIdentity DEF MarkAcked, MayAck, HasStatus
  <2>7. CASE TryMarkWaitTimeout(t)
    BY <2>7, RowRewrites, RewriteKeepsIdentity
    DEF TryMarkWaitTimeout, CanBackground, HasStatus, Backgroundable, Silenceable
  <2>8. CASE TouchLastWait(t)
    <3>1. SameTask(rows[t], [rows[t] EXCEPT !.delivered = rows[t].ready])
      BY <2>8, RowRewrites DEF TouchLastWait, Exists
    <3> QED BY <2>8, <3>1, RewriteKeepsIdentity DEF TouchLastWait
  <2> QED BY <1>2, <2>1, <2>2, <2>3, <2>4, <2>5, <2>6, <2>7, <2>8 DEF TaskOp
<1>3. CASE Sweep
  <2> USE <1>b, <1>c
  <2>1. ASSUME NEW S \in SUBSET Silent, MarkSilentNeedsHuman(S) PROVE KeepsIdentity
    <3>1. \A t \in S : t \in Task /\ rows[t].status # "ABSENT"
      BY DEF Silent, HasStatus, Silenceable
    <3> QED BY <2>1, <3>1, RowRewrites, RowwiseKeepsIdentity DEF MarkSilentNeedsHuman, SetAll
  <2>2. ASSUME NEW S \in SUBSET (ResultOrphans \cup IncompleteOrphans), ExpireOrphans(S)
        PROVE  KeepsIdentity
    <3>1. \A t \in S :
            /\ t \in Task /\ rows[t].status # "ABSENT" /\ ~rows[t].must
            /\ ~(rows[t].delivered /\ rows[t].status \in {"COMPLETED", "FAILED"})
      BY DEF ResultOrphans, IncompleteOrphans, HasStatus, Incomplete, Backgroundable,
             Silenceable
    <3> QED BY <2>2, <3>1, RowRewrites, RowwiseKeepsIdentity DEF ExpireOrphans, SetAll
  <2>3. ASSUME NEW S \in SUBSET Undelivered, AbandonMustDeliver(S) PROVE KeepsIdentity
    <3>1. \A t \in S : t \in Task /\ rows[t].status # "ABSENT"
      BY DEF Undelivered, Exists
    <3> QED BY <2>3, <3>1, RowRewrites, RowwiseKeepsIdentity DEF AbandonMustDeliver
  <2>4. ASSUME NEW K \in SUBSET Key, GcKeys(K) PROVE KeepsIdentity
    BY <2>4, SameTaskReflexive DEF GcKeys, TypeOK, KeepsIdentity
  <2> QED BY <1>3, <2>1, <2>2, <2>3, <2>4 DEF Sweep
<1>4. CASE SessionOp
  BY <1>4, <1>a DEF SessionOp, UpsertSession, MarkDisconnected
<1>5. CASE UNCHANGED storeVars
  BY <1>5, <1>a DEF storeVars
<1> QED BY <1>1, <1>2, <1>3, <1>4, <1>5 DEF StoreNext

-----------------------------------------------------------------------------
(* The inductive invariant.                                                *)

(* A task that was never admitted has no history.                          *)
NoHistory == \A t \in Task : ~Exists(t) => rows[t] = AbsentRow(t)

IInv == TypeOK /\ NoHistory /\ KeyHolder /\ LineageSound /\ MustDeliverNeverExpired

(* An empty database satisfies the invariant. *)
LEMMA InitIInv == StoreInit => IInv
<1> SUFFICES ASSUME StoreInit PROVE IInv
  OBVIOUS
<1>1. \A t \in Task : AbsentRow(t) \in Row
  BY DEF AbsentRow, Row
<1>2. TypeOK
  BY <1>1 DEF StoreInit, TypeOK
<1>3. \A t \in Task : ~Exists(t)
  BY DEF StoreInit, Exists, AbsentRow
<1> QED BY <1>2, <1>3
        DEF StoreInit, IInv, NoHistory, KeyHolder, LineageSound, MustDeliverNeverExpired, AbsentRow

(* The session table is well-typed in every step.                          *)
LEMMA SessionsTyped ==
  ASSUME TypeOK, [StoreNext]_storeVars
  PROVE  sessions' \in [Session -> {"absent", "live", "disconnected"}]
<1>1. CASE SessionOp
  BY <1>1 DEF TypeOK, SessionOp, UpsertSession, MarkDisconnected
<1>2. CASE UNCHANGED sessions
  BY <1>2 DEF TypeOK
<1>3. ASSUME NEW t \in Task, TaskOp(t) PROVE UNCHANGED sessions
  BY <1>3 DEF TaskOp, SetStatus, ReleaseKey, CompleteWithResult, YieldResult, CancelTask,
     MarkAcked, TryMarkWaitTimeout, TouchLastWait
<1>4. CASE Sweep
  BY <1>2, <1>4 DEF Sweep, MarkSilentNeedsHuman, ExpireOrphans, AbandonMustDeliver, GcKeys
<1>5. ASSUME NEW r \in Requests, Admit(r) PROVE UNCHANGED sessions
  BY <1>5 DEF Admit, Accept, storeVars
<1> QED BY <1>1, <1>2, <1>3, <1>4, <1>5 DEF StoreNext, storeVars

(* Steps that keep identities keep the invariant.                          *)
LEMMA KeptIInv ==
  ASSUME IInv, KeepsIdentity, sessions' \in [Session -> {"absent", "live", "disconnected"}]
  PROVE  IInv'
<1> USE DEF IInv
<1>1. TypeOK'
  BY DEF KeepsIdentity, SameTask, TypeOK
<1>2. \A t \in Task :
        /\ Exists(t)' <=> Exists(t)
        /\ rows'[t].parent = rows[t].parent /\ rows'[t].root = rows[t].root
        /\ rows'[t].hop = rows[t].hop /\ rows'[t].project = rows[t].project
        /\ rows'[t].key = rows[t].key
  BY DEF KeepsIdentity, SameTask, IdentityOf, Exists
<1>3. KeyHolder'
  BY <1>2 DEF KeepsIdentity, KeyHolder, TypeOK
<1>4. LineageSound'
  BY <1>2 DEF LineageSound, Grounded, TypeOK, Row
<1>5. NoHistory'
  BY DEF KeepsIdentity, SameTask, NoHistory, Exists, AbsentRow
<1>6. MustDeliverNeverExpired'
  BY DEF KeepsIdentity, SameTask, IdentityOf, MustDeliverNeverExpired
<1> QED BY <1>1, <1>3, <1>4, <1>5, <1>6

(* A step that admits nothing and gives nobody a new parent, session or
   project keeps the invariant. *)
LEMMA KeepsIdentityIInv ==
  ASSUME IInv, [StoreNext]_storeVars, KeepsIdentity
  PROVE  IInv'
BY SessionsTyped, KeptIInv DEF IInv

(* What an accepted admission does to the rows.                            *)
LEMMA AcceptFacts ==
  ASSUME IInv, NEW r \in Request, Accept(r)
  PROVE  /\ ~Exists(r.id) /\ LineageOK(r)
         /\ NewRow(r) \in Row
         /\ rows' = [rows EXCEPT ![r.id] = NewRow(r)]
         /\ r.key # NoKey => keys[r.key] = NoTask
<1>2. ~Exists(r.id) /\ LineageOK(r) /\ rows' = [rows EXCEPT ![r.id] = NewRow(r)]
      /\ (r.key # NoKey => keys[r.key] = NoTask)
  BY DEF Accept, IsAccepted, IsReplay
<1>3. Hop(r) \in Nat /\ Root(r) \in Task \cup {NoTask}
  BY DEF IInv, TypeOK, Row, Request, Hop, Root
<1>4. NewRow(r) \in Row
  BY <1>3 DEF NewRow, Row, Request, Status, Incomplete, Backgroundable, Silenceable
<1> QED BY <1>2, <1>4

(* An admission keeps it: the new row is checked against its parent
   and reserves its key in the same transaction. *)
LEMMA AcceptIInv ==
  ASSUME IInv, NEW r \in Request, Accept(r)
  PROVE  IInv'
<1> USE DEF IInv
<1> USE AcceptFacts
<1>0. r.id \in Task /\ r.key \in Key \cup {NoKey} /\ r.parent \in Task \cup {NoTask}
  BY DEF Request
<1>1. TypeOK'
  BY <1>0 DEF TypeOK, Accept
<1>2. /\ rows'[r.id] = NewRow(r)
      /\ \A t \in Task \ {r.id} : rows'[t] = rows[t]
      /\ \A t \in Task : Exists(t) => t # r.id
  BY <1>0 DEF TypeOK
<1>3. KeyHolder'
  BY <1>0, <1>2 DEF KeyHolder, Exists, NewRow, TypeOK, Accept
<1>4. LineageSound'
  <2> SUFFICES ASSUME NEW t \in Task, Exists(t)' PROVE Grounded(t)'
    BY DEF LineageSound
  <2>1. ASSUME NEW u \in Task, Exists(u)
        PROVE  Grounded(u) /\ rows'[u] = rows[u] /\ Exists(u)'
    BY <1>2, <2>1 DEF LineageSound, Exists
  <2>2. CASE t # r.id
    <3>1. Exists(t) BY <1>2, <2>2 DEF Exists
    <3> QED BY <2>1, <3>1 DEF Grounded, TypeOK, Row
  <2>3. CASE t = r.id /\ r.parent = NoTask
    BY <1>2, <2>3 DEF Grounded, NewRow, Root, Hop, LineageOK, Exists
  <2>4. CASE t = r.id /\ r.parent # NoTask
    <3>1. /\ r.parent \in Task /\ Exists(r.parent)
          /\ rows[r.parent].project = r.project /\ Hop(r) < MaxHops
      BY <1>0, <2>4 DEF LineageOK
    <3>2. Grounded(r.parent) BY <2>1, <3>1
    <3> QED BY <1>2, <2>1, <2>4, <3>1, <3>2 DEF Grounded, NewRow, Root, Hop
  <2> QED BY <1>0, <2>2, <2>3, <2>4
<1>5. NoHistory' /\ MustDeliverNeverExpired'
  BY <1>2 DEF NoHistory, MustDeliverNeverExpired, NewRow, Exists, AbsentRow
<1> QED BY <1>1, <1>3, <1>4, <1>5

-----------------------------------------------------------------------------
(* The invariant is inductive. *)
LEMMA IInvInductive == IInv /\ [StoreNext]_storeVars => IInv'
<1> SUFFICES ASSUME IInv, [StoreNext]_storeVars PROVE IInv'
  OBVIOUS
<1> QED BY StepShape, KeepsIdentityIInv, AcceptIInv DEF IInv

(* It holds in every reachable state. *)
LEMMA IInvHolds == StoreSpec => []IInv
BY InitIInv, IInvInductive, PTL DEF StoreSpec

(* In every reachable state the tables are well-typed, a held key names a  *)
(* task admitted under it, and every lineage is grounded.                  *)
THEOREM StoreInvariant == StoreSpec => [](TypeOK /\ KeyHolder /\ LineageSound)
<1>1. IInv => TypeOK /\ KeyHolder /\ LineageSound
  BY DEF IInv
<1> QED BY IInvHolds, <1>1, PTL

(* Nothing ever expires a task whose caller asked for delivery.            *)
THEOREM MustDeliverKept == StoreSpec => []MustDeliverNeverExpired
<1>1. IInv => MustDeliverNeverExpired
  BY DEF IInv
<1> QED BY IInvHolds, <1>1, PTL

(* An outcome already handed over is not expired, and the first session to *)
(* answer a task stays its only one.                                       *)
LEMMA StepActionProperties ==
  ASSUME IInv, [StoreNext]_storeVars, NEW t \in Task
  PROVE  /\ rows[t].delivered /\ HasStatus(t, {"COMPLETED", "FAILED"})
              => rows'[t].status # "EXPIRED"
         /\ rows[t].claimed # NoSession => rows'[t].claimed = rows[t].claimed
<1>1. CASE KeepsIdentity
  BY <1>1 DEF KeepsIdentity, SameTask, HasStatus
<1>2. ASSUME NEW r \in Requests, Accept(r)
      PROVE  rows'[t] = rows[t] \/ rows[t] = AbsentRow(t)
  BY <1>2, AcceptFacts DEF IInv, TypeOK, NoHistory
<1>3. CASE rows[t] = AbsentRow(t)
  BY <1>3 DEF AbsentRow, HasStatus
<1>4. CASE rows'[t] = rows[t]
  BY <1>4 DEF HasStatus
<1> QED BY <1>1, <1>2, <1>3, <1>4, StepShape DEF IInv

(* An outcome that a wait has marked as delivered is not expired by any
   later step: the sweep of orphaned results skips rows with the mark. *)
THEOREM DeliveredKept == StoreSpec => DeliveredNotExpired
<1>1. IInv /\ [StoreNext]_storeVars =>
        [\A t \in Task : rows[t].delivered /\ HasStatus(t, {"COMPLETED", "FAILED"})
           => rows'[t].status # "EXPIRED"]_storeVars
  BY StepActionProperties
<1> QED BY IInvHolds, <1>1, PTL DEF StoreSpec, DeliveredNotExpired

(* Once a session has answered a task, no step makes another
   one its answerer: yield refuses a row that somebody else has claimed. *)
THEOREM ClaimKept == StoreSpec => ClaimSticks
<1>1. IInv /\ [StoreNext]_storeVars =>
        [\A t \in Task : rows[t].claimed # NoSession
           => rows'[t].claimed = rows[t].claimed]_storeVars
  BY StepActionProperties
<1> QED BY IInvHolds, <1>1, PTL DEF StoreSpec, ClaimSticks

-----------------------------------------------------------------------------
(* Refinement: the store implements AdmissionContract.                     *)

LEMMA InitRefines == StoreInit => Contract!ContractInit
BY DEF StoreInit, Contract!ContractInit, Identities, Exists, AbsentRow

(* A step that admits nothing is a step of the contract that frees
   keys, or a stutter. *)
LEMMA KeepsIdentityRefines ==
  ASSUME IInv, KeepsIdentity
  PROVE  [Contract!ContractNext]_(Contract!contractVars)
<1>1. UNCHANGED Identities
  BY DEF KeepsIdentity, SameTask, Identities, Exists
<1> DEFINE K == {k \in Key : keys'[k] # keys[k]}
<1>2. keys' = [k \in Key |-> IF k \in K THEN NoTask ELSE keys[k]]
  BY DEF KeepsIdentity
<1>3. Contract!Free(K)
  BY <1>1, <1>2 DEF Contract!Free
<1> QED BY <1>3 DEF Contract!ContractNext

(* An admission of the store is an admission of the contract. *)
LEMMA AcceptRefines ==
  ASSUME IInv, NEW r \in Request, Accept(r)
  PROVE  Contract!ContractNext
<1> DEFINE i == IdentityOf(NewRow(r))
<1>1. /\ r.id \in Task /\ r.parent \in Task \cup {NoTask} /\ r.key \in Key \cup {NoKey}
      /\ i.parent = r.parent /\ i.key = r.key /\ i.project = r.project /\ i.hop = Hop(r)
  BY AcceptFacts DEF Request, IdentityOf, NewRow
<1>2. /\ r.parent = NoTask => Hop(r) = 0 /\ Root(r) = r.id
      /\ r.parent # NoTask => /\ r.parent \in Task /\ Exists(r.parent)
                              /\ rows[r.parent].project = r.project
                              /\ Hop(r) = rows[r.parent].hop + 1
                              /\ Root(r) = rows[r.parent].root
                              /\ rows[r.parent].root \in Task
      /\ Hop(r) < MaxHops
  BY <1>1, AcceptFacts DEF IInv, LineageOK, Hop, Root, LineageSound, Grounded
<1>3. \A t \in Task : rows[t].hop \in Nat
  BY DEF IInv, TypeOK, Row
<1>4. Hop(r) \in 0..(MaxHops - 1) /\ Root(r) \in Task
  BY <1>1, <1>2, <1>3
<1>5. i \in Identity
  BY <1>4, AcceptFacts DEF Identity, IdentityOf, NewRow, Request
<1>6. rows' = [rows EXCEPT ![r.id] = NewRow(r)] /\ NewRow(r).status = "QUEUED"
  BY AcceptFacts DEF NewRow
<1>7. Identities' = [Identities EXCEPT ![r.id] = i]
  <2>1. \A t \in Task : rows'[t] = IF t = r.id THEN NewRow(r) ELSE rows[t]
    BY <1>1, <1>6 DEF IInv, TypeOK
  <2>2. Identities' = [t \in Task |-> IF t = r.id THEN i ELSE Identities[t]]
    BY <1>6, <2>1 DEF Identities, Exists
  <2> QED BY <1>1, <2>2 DEF Identities
<1>8. Identities'[r.id] = i
  BY <1>1, <1>7 DEF Identities
<1>9. r.id \notin Contract!Admitted
  BY AcceptFacts DEF Contract!Admitted, Identities
<1>10. r.parent # NoTask => /\ r.parent \in Contract!Admitted
                            /\ Identities[r.parent].project = r.project
                            /\ Identities[r.parent].hop < Hop(r)
  <2> SUFFICES ASSUME r.parent # NoTask
               PROVE  /\ r.parent \in Contract!Admitted
                      /\ Identities[r.parent].project = r.project
                      /\ Identities[r.parent].hop < Hop(r)
    OBVIOUS
  <2>1. Identities[r.parent] = IdentityOf(rows[r.parent])
    BY <1>2 DEF Identities
  <2>2. rows[r.parent].parent \in Task \cup {NoTask} /\ rows[r.parent].root \in Task
    BY <1>2 DEF IInv, TypeOK, Row
  <2>3. IdentityOf(rows[r.parent]) # NoIdentity
    BY DEF IdentityOf, NoIdentity
  <2> QED BY <1>2, <1>3, <2>1, <2>3 DEF Contract!Admitted, IdentityOf
<1>11. keys' = IF i.key = NoKey THEN keys ELSE [keys EXCEPT ![i.key] = r.id]
  BY <1>1 DEF Accept
<1>12. Contract!AdmitAs(r.id, i)
  BY <1>1, <1>5, <1>7, <1>9, <1>10, <1>11, AcceptFacts DEF Contract!AdmitAs
<1> QED BY <1>1, <1>8, <1>12 DEF Contract!ContractNext

(* Every behaviour of the store is one that admission promises.            *)
THEOREM StoreImplementsContract == StoreSpec => Admission
<1>1. IInv /\ [StoreNext]_storeVars => [Contract!ContractNext]_(Contract!contractVars)
  <2> SUFFICES ASSUME IInv, [StoreNext]_storeVars
               PROVE  [Contract!ContractNext]_(Contract!contractVars)
    OBVIOUS
  <2> QED BY StepShape, KeepsIdentityRefines, AcceptRefines DEF IInv
<1> QED BY InitRefines, IInvHolds, <1>1, PTL DEF StoreSpec, Admission, Contract!ContractSpec
=============================================================================
