------------------------------ MODULE MCA2AStore ------------------------------
(***************************************************************************)
(* The store under its most general client, or under the workflow engine: *)
(* a behaviour is of one of the two, the focus.                            *)
(*                                                                         *)
(* Store: two tasks under one idempotency key: the first must be delivered,*)
(* the second is a child of the first, of its own project or of another    *)
(* one; the calling session and another one, both of the agent that is     *)
(* asked, so either may answer; room for one session row, so the           *)
(* registration of one prunes the other.                                   *)
(*                                                                         *)
(* Workflow: the first task is a coding task, told to be completed twice,  *)
(* the others are the Tests that may follow.                               *)
(***************************************************************************)
EXTENDS WorkflowEngine

CONSTANTS t1, t2, t3, k1, caller, worker, lead, bot, p1, p2

MCTask == {t1, t2, t3}
MCKey == {k1}
MCSession == {caller, worker}
MCAgent == {lead, bot}
MCAgentOf == [s \in MCSession |-> bot]
MCProject == {p1, p2}

Ask(id, parent, project, key, must) ==
  [id |-> id, parent |-> parent, project |-> project, key |-> key,
   session |-> caller, target |-> bot, must |-> must]
MCRequests == {Ask(t1, NoTask, p1, k1, TRUE)} \cup {Ask(t2, t1, p, k1, FALSE) : p \in MCProject}
MCCodingRequests == {Ask(t1, NoTask, p1, NoKey, TRUE)}
MCTestKey == [c \in {t1} |-> k1]

VARIABLE focus

MCInit == focus \in {"store", "workflow"} /\ WorkflowInit
MCNext ==
  /\ UNCHANGED focus
  /\ \/ focus = "store" /\ StoreNext /\ UNCHANGED <<busVars, engineVars, exits, historyVars>>
     \/ focus = "workflow" /\ WorkflowNext
MCSpec == MCInit /\ [][MCNext]_<<focus, workflowVars>>
=============================================================================
