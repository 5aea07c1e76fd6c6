---------------------------- MODULE MCOrchestrator ----------------------------
(* A guaranteed call and a plain call under the same key of one session, and *)
(* a wait of the same or of another session that presents the token.         *)
EXTENDS Orchestrator

CONSTANTS t1, t2, k1, alice, bob, lead, bot, proj, first, again, wait

MCCall == {first, again, wait}
MCSession == {alice, bob}
MCSessionOf == [c \in MCCall |-> IF c = wait THEN bob ELSE alice]
MCAgentOf == [s \in MCSession |-> IF s = alice THEN lead ELSE bot]

Ask(id, must) == [id |-> id, parent |-> NoTask, project |-> proj, key |-> k1,
                  session |-> alice, target |-> bot, must |-> must]
MCRequests == {Ask(t1, TRUE), Ask(t2, FALSE)}
MCWants == [c \in MCCall |->
  IF c = wait THEN [kind |-> "wait", token |-> TRUE]
  ELSE [kind |-> "call", ask |-> IF c = first THEN Ask(t1, TRUE) ELSE Ask(t2, FALSE),
        wait |-> TRUE, long |-> FALSE]]
MCTogether == {{first, again}, {first, wait}}
=============================================================================
