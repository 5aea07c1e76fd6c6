--------------------------- MODULE WorkerRegistry ---------------------------
(***************************************************************************)
(* The registry of NATS workers (src-tauri/src/kernel/worker_registry.rs,  *)
(* workers/bot_template.py) and the connected_tools rows that show them.   *)
(* Workers register, send heartbeats and leave or die; the three subjects  *)
(* are read by three threads, so messages overtake each other; every       *)
(* change is written to the database by a task of its own.                 *)
(***************************************************************************)
EXTENDS Naturals

CONSTANTS
  Worker,
  MaxWrites,    \* bound: unfinished writes of a kind and worker
  MaxMishaps    \* bound: losses, deaths, late heartbeats, selections, restarts

VARIABLES
  proc,     \* "up" or "down", per worker process
  mail,     \* messages on the way, [from, action]
  live,     \* WorkerRegistry.inner: known, online, last_seen beyond the TTL
  writes,   \* unfinished writes per worker: online upserts, offline upserts,
            \* and deactivations
  tool,     \* the worker's row in connected_tools: is_active, available
  mishaps

registryVars == <<proc, mail, live, writes, tool, mishaps>>

Unknown == [known |-> FALSE, online |-> FALSE, stale |-> FALSE]
NoWrites == [online |-> 0, offline |-> 0, deactivate |-> 0]

RegistryInit ==
  /\ proc = [w \in Worker |-> "down"]
  /\ mail = {}
  /\ live = [w \in Worker |-> Unknown]
  /\ writes = [w \in Worker |-> NoWrites]
  /\ tool \in [Worker -> [active : {FALSE}, available : BOOLEAN]]
  /\ mishaps = 0

Mishap == mishaps < MaxMishaps /\ mishaps' = mishaps + 1

-----------------------------------------------------------------------------
(* The worker processes.  A message is sent again only once the last one    *)
(* of its kind has arrived.                                                *)

Send(w, action) == mail' = mail \cup {[from |-> w, action |-> action]}

(* Also the way back after a lost connection.                              *)
Register(w) ==
  /\ proc[w] = "up" => Mishap
  /\ proc[w] = "down" => UNCHANGED mishaps
  /\ proc' = [proc EXCEPT ![w] = "up"]
  /\ Send(w, "register")
  /\ UNCHANGED <<live, writes, tool>>
Heartbeat(w) ==
  /\ proc[w] = "up" /\ [from |-> w, action |-> "heartbeat"] \notin mail
  /\ Send(w, "heartbeat")
  /\ UNCHANGED <<proc, live, writes, tool, mishaps>>

(* A worker leaves with a message, or dies without one.                    *)
Unregister(w) ==
  /\ proc[w] = "up" /\ Mishap
  /\ proc' = [proc EXCEPT ![w] = "down"]
  /\ Send(w, "unregister") \/ UNCHANGED mail
  /\ UNCHANGED <<live, writes, tool>>
Lose == Mishap /\ \E m \in mail : mail' = mail \ {m} /\ UNCHANGED <<proc, live, writes, tool>>

-----------------------------------------------------------------------------
(* The registry.                                                           *)

Room(w) == \A k \in DOMAIN writes[w] : writes[w][k] < MaxWrites
Persist(w, online) == [writes[w] EXCEPT ![IF online THEN "online" ELSE "offline"] = @ + 1]

(* Mutant: what a registration changes, a heartbeat only keeps alive.       *)
PersistOnRegister(w, action) == IF action = "heartbeat" THEN writes[w] ELSE Persist(w, action # "unregister")
PersistMessage(w, action) == Persist(w, action # "unregister")

(* apply_registration.                                                     *)
ApplyRegistration(m) ==
  /\ m \in mail /\ Room(m.from)
  /\ mail' = mail \ {m}
  /\ live' = [live EXCEPT ![m.from] =
       IF m.action = "unregister" THEN [@ EXCEPT !.online = FALSE]
       ELSE [known |-> TRUE, online |-> TRUE, stale |-> FALSE]]
  /\ writes' = [writes EXCEPT ![m.from] = PersistMessage(m.from, m.action)]
  /\ UNCHANGED <<proc, tool, mishaps>>

(* 45 seconds without a heartbeat.                                         *)
Expire(w) ==
  /\ live[w].online /\ ~live[w].stale
  /\ proc[w] = "up" => Mishap
  /\ proc[w] = "down" => UNCHANGED mishaps
  /\ live' = [live EXCEPT ![w].stale = TRUE]
  /\ UNCHANGED <<proc, mail, writes, tool>>

Lapsed(w) == live[w].online /\ live[w].stale
Sweep ==
  /\ \E w \in Worker : Lapsed(w)
  /\ \A w \in Worker : Lapsed(w) => Room(w)
  /\ live' = [w \in Worker |-> IF Lapsed(w) THEN [live[w] EXCEPT !.online = FALSE] ELSE live[w]]
  /\ writes' = [w \in Worker |-> IF Lapsed(w) THEN Persist(w, FALSE) ELSE writes[w]]
  /\ UNCHANGED <<proc, mail, tool, mishaps>>

(* The dispatcher asks before it routes: the row in the database stays.     *)
IsOnline(w) ==
  /\ Lapsed(w)
  /\ live' = [live EXCEPT ![w].online = FALSE]
  /\ UNCHANGED <<proc, mail, writes, tool, mishaps>>

-----------------------------------------------------------------------------
(* connected_tools.                                                        *)

UpsertConnectedTool(w, kind, available) ==
  /\ writes[w][kind] > 0
  /\ tool' = [tool EXCEPT ![w] = [active |-> TRUE, available |-> available]]
  /\ writes' = [writes EXCEPT ![w][kind] = @ - 1,
                              ![w].deactivate = IF kind = "offline" THEN @ + 1 ELSE @]
  /\ UNCHANGED <<proc, mail, live, mishaps>>
DeactivateConnectedTool(w) ==
  /\ writes[w].deactivate > 0
  /\ tool' = [tool EXCEPT ![w] = [active |-> FALSE, available |-> FALSE]]
  /\ writes' = [writes EXCEPT ![w].deactivate = @ - 1]
  /\ UNCHANGED <<proc, mail, live, mishaps>>
WriteTool(w) ==
  \/ UpsertConnectedTool(w, "online", TRUE)
  \/ UpsertConnectedTool(w, "offline", FALSE)
  \/ DeactivateConnectedTool(w)

(* The user chooses tools: the rows of the others are switched off.        *)
SaveSelectedTools(chosen) ==
  /\ Mishap
  /\ tool' = [w \in Worker |-> [tool[w] EXCEPT !.active = w \in chosen]]
  /\ UNCHANGED <<proc, mail, live, writes>>

Restart ==
  /\ Mishap
  /\ live' = [w \in Worker |-> Unknown] /\ writes' = [w \in Worker |-> NoWrites]
  /\ mail' = {}
  /\ UNCHANGED <<proc, tool>>

RegistryNext ==
  \/ \E w \in Worker : \/ Register(w) \/ Heartbeat(w) \/ Unregister(w)
                       \/ Expire(w) \/ IsOnline(w) \/ WriteTool(w)
  \/ \E m \in mail : ApplyRegistration(m)
  \/ \E chosen \in SUBSET Worker : SaveSelectedTools(chosen)
  \/ Lose \/ Sweep \/ Restart

-----------------------------------------------------------------------------
RegistryTypeOK ==
  /\ proc \in [Worker -> {"up", "down"}]
  /\ mail \subseteq [from : Worker, action : {"register", "heartbeat", "unregister"}]
  /\ live \in [Worker -> [known : BOOLEAN, online : BOOLEAN, stale : BOOLEAN]]
  /\ \A w \in Worker : live[w].online => live[w].known
  /\ writes \in [Worker -> [online : 0..MaxWrites, offline : 0..MaxWrites, deactivate : 0..2*MaxWrites]]
  /\ tool \in [Worker -> [active : BOOLEAN, available : BOOLEAN]]

(* A worker that stays is shown again and again as online and available,    *)
(* whatever overtook what: its heartbeats rewrite what a late unregister,   *)
(* a late deactivation or the user's choice switched off; and one that is   *)
(* gone for good is not routed to for ever.                                *)
LiveShown == \A w \in Worker :
  /\ <>[](proc[w] = "up") => []<>(live[w].online /\ tool[w].active /\ tool[w].available)
  /\ <>[](proc[w] = "down") => <>[](~live[w].online)
=============================================================================
