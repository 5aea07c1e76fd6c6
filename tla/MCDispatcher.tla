----------------------------- MODULE MCDispatcher -----------------------------
(***************************************************************************)
(* The constants of the dispatcher's runs: one task t1, addressed to the   *)
(* worker bot.                                                             *)
(*   DeskOrders  two orders of a program on the bus, whose session Lounge  *)
(*               does not know, under a key and without;                   *)
(*   McpCall     lounge_call_agent without a key;                          *)
(*   KeyedCall   lounge_call_agent under an idempotency key.               *)
(* The MCP client is of agent lmr, or of agent bot (BotAgentOf): it may    *)
(* then yield the result of its own call.                                  *)
(***************************************************************************)
EXTENDS Dispatcher, TLC

CONSTANTS t1, k1, e1, e2, caller, orch, worker, kernel, lmr, bot, p1

MCKey == {k1}
MCAgent == {kernel, lmr, bot}
MCAgentOf == [s \in Session |-> IF s = caller THEN lmr ELSE bot]
BotAgentOf == [s \in Session |-> bot]
MCProject == {p1}
MCWorkers == {bot}
MCOrchestratedBy == [w \in MCWorkers |-> orch]

Order(id, key, session, must) ==
  [id |-> id, parent |-> NoTask, project |-> p1, key |-> key,
   session |-> session, target |-> bot, must |-> must]
Twins == Permutations(Executor)
From(agent, requests) == [r \in requests |-> agent]

DeskOrders == {Order(t1, key, caller, FALSE) : key \in {k1, NoKey}}
DeskSource == From(kernel, DeskOrders)

McpCall == {Order(t1, NoKey, caller, FALSE)}
McpSource == From(kernel, McpCall)

KeyedCall == {Order(t1, k1, caller, FALSE)}
KeyedSource == From(kernel, KeyedCall)
=============================================================================
