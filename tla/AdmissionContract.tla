-------------------------- MODULE AdmissionContract --------------------------
(***************************************************************************)
(* What admission promises to every caller of the A2A store, apart from    *)
(* how a task then fares: a task id is admitted at most once and keeps for *)
(* ever the identity it was admitted with; an idempotency key that is held *)
(* is given to nobody else, and only to a task admitted under that key; a  *)
(* child is admitted under an admitted parent of its own project.          *)
(* A2AStore implements this contract (A2AStore!Admission).                 *)
(***************************************************************************)
EXTENDS Naturals

CONSTANTS Task, NoTask, Key, NoKey, Identity, NoIdentity

VARIABLES
  identity,  \* the identity each task was admitted with
  holder     \* the task that holds each key

contractVars == <<identity, holder>>

Admitted == {t \in Task : identity[t] # NoIdentity}

ContractInit ==
  /\ identity = [t \in Task |-> NoIdentity]
  /\ holder = [k \in Key |-> NoTask]

(* The identity is the requester's choice, bounded by what is known so far. *)
AdmitAs(t, i) ==
  /\ t \notin Admitted
  /\ i \in Identity
  /\ i.parent # NoTask => /\ i.parent \in Admitted
                          /\ identity[i.parent].project = i.project
                          /\ identity[i.parent].hop < i.hop
  /\ i.key # NoKey => holder[i.key] = NoTask
  /\ identity' = [identity EXCEPT ![t] = i]
  /\ holder' = IF i.key = NoKey THEN holder ELSE [holder EXCEPT ![i.key] = t]

(* Failure, cancellation and garbage collection give keys back.             *)
Free(K) ==
  /\ holder' = [k \in Key |-> IF k \in K THEN NoTask ELSE holder[k]]
  /\ UNCHANGED identity

ContractNext ==
  \/ \E t \in Task : AdmitAs(t, identity'[t])
  \/ \E K \in SUBSET Key : Free(K)

ContractSpec == ContractInit /\ [][ContractNext]_contractVars
=============================================================================
