------------------------------- MODULE McpHttp -------------------------------
(***************************************************************************)
(* The MCP HTTP transport (src-tauri/src/bridge/mcp_http.rs): the session  *)
(* table with its LRU list, the POST handler, which copies a session out,  *)
(* works without a lock and writes the session back, and DELETE.  A POST   *)
(* carries a tools/call, which registers in flight, a cancel notification  *)
(* or another request.  What a call does while it runs is in Orchestrator. *)
(*                                                                         *)
(* Every element of Call is one POST.  Of a ClientCtx only its presence in *)
(* the table is kept.  When the client closes the connection, axum drops   *)
(* the handler: nothing after that await runs.                             *)
(***************************************************************************)
EXTENDS InFlight

CONSTANT MaxMcpSessions  \* MAX_MCP_SESSIONS

ASSUME HttpConstants == MaxMcpSessions \in Nat \ {0}

VARIABLES
  table,     \* Hub.sessions: the sessions that have an entry
  lru,       \* Hub.session_order
  deleting,  \* sessions whose DELETE has removed the entry
  pc         \* where each POST is

httpVars == <<table, lru, deleting, pc>>
vars == <<inFlightVars, httpVars>>

HttpInit ==
  /\ InFlightInit
  /\ table = {}
  /\ lru = << >>
  /\ deleting = {}
  /\ pc = [r \in Call |-> "new"]

Goto(r, l) == pc' = [pc EXCEPT ![r] = l]

-----------------------------------------------------------------------------
(* The table.  Eviction runs only for a session without an entry.           *)

Touched(seq, s) == Append(Without(seq, {s}), s)

Oldest(n) == {lru[i] : i \in 1..n}
Evicted(s) ==
  IF s \in table THEN {}
  ELSE Oldest(Min({n \in 0..Len(lru) :
         n = Len(lru) \/ Cardinality(table \ Oldest(n)) < MaxMcpSessions}))

Arrive(r) ==
  LET s == SessionOf[r]
  IN /\ pc[r] = "new"
     /\ table' = (table \ Evicted(s)) \cup {s}
     /\ lru' = Touched(Without(lru, Evicted(s)), s)
     /\ Goto(r, "handling")
     /\ UNCHANGED <<inFlightVars, deleting>>

WriteBack(r) ==
  /\ pc[r] = "write"
  /\ table' = table \cup {SessionOf[r]}
  /\ lru' = Touched(lru, SessionOf[r])
  /\ Goto(r, "done")
  /\ UNCHANGED <<inFlightVars, deleting>>

-----------------------------------------------------------------------------
(* handle_line_for: a tools/call, a cancel of another call, anything else.  *)

HandleCall(r) ==
  /\ pc[r] = "handling"
  /\ Register(r)
  /\ Goto(r, "running")
  /\ UNCHANGED <<table, lru, deleting>>

HandleCancel(r) ==
  /\ pc[r] = "handling"
  /\ Goto(r, "write")
  /\ \E c \in OfSession(SessionOf[r], Call), kind \in ClientReason : Cancelled(c, kind)
  /\ UNCHANGED <<table, lru, deleting>>

HandleOther(r) ==
  /\ pc[r] = "handling"
  /\ Goto(r, "write")
  /\ UNCHANGED <<inFlightVars, table, lru, deleting>>

Finish(r) ==
  /\ pc[r] = "running"
  /\ Goto(r, "clearing")
  /\ ClearMap(r)
  /\ UNCHANGED <<table, lru, deleting>>

Unlist(r) ==
  /\ pc[r] = "clearing"
  /\ Goto(r, "write")
  /\ ClearOrder(r)
  /\ UNCHANGED <<table, lru, deleting>>

(* The connection closes: the entry of a running call stays registered.     *)
ConnectionLost(r) ==
  /\ pc[r] \in {"handling", "running", "clearing", "write"}
  /\ Goto(r, "dropped")
  /\ UNCHANGED <<inFlightVars, table, lru, deleting>>

(* DELETE /mcp.                                                             *)
Delete(s) ==
  /\ s \notin deleting /\ leaving[s].phase = "no"
  /\ table' = table \ {s}
  /\ lru' = Without(lru, {s})
  /\ deleting' = deleting \cup {s}
  /\ UNCHANGED <<inFlightVars, pc>>

StartDisconnect(s) ==
  /\ s \in deleting
  /\ CollectKeys(s)
  /\ deleting' = deleting \ {s}
  /\ UNCHANGED <<table, lru, pc>>

HttpNext ==
  \/ \E r \in Call : Arrive(r) \/ HandleCall(r) \/ HandleCancel(r) \/ HandleOther(r)
                     \/ Finish(r) \/ Unlist(r) \/ WriteBack(r) \/ ConnectionLost(r)
  \/ \E s \in Caller : Delete(s) \/ StartDisconnect(s)
                       \/ ((SignalKeys(s) \/ Left(s)) /\ UNCHANGED httpVars)

HttpSpec == HttpInit /\ [][HttpNext]_vars

-----------------------------------------------------------------------------
TypeOK ==
  /\ InFlightTypeOK
  /\ table \subseteq Caller
  /\ lru \in Seq(Caller)
  /\ deleting \subseteq Caller
  /\ pc \in [Call -> {"new", "handling", "running", "clearing", "write", "done", "dropped"}]

(* The in-flight registry keeps to its limits and whatever it has can be    *)
(* evicted; a call that ended on its own leaves nothing in it (only a       *)
(* dropped connection leaks an entry).  Every session can be evicted, too:  *)
(* the LRU list is a permutation of the table, also after a late POST wrote *)
(* back an entry that was evicted or deleted meanwhile.                    *)
TablesBounded ==
  /\ Bounded
  /\ \A r \in Call : pc[r] \in {"new", "write", "done"} => r \notin inFlight \cup Listed
  /\ {lru[i] : i \in DOMAIN lru} = table /\ Len(lru) = Cardinality(table)

(* Refinement: whatever the interleaving of calls, cancels, disconnects and *)
(* evictions, the registry keeps the promise about cancelling; so a user's  *)
(* stop is not turned into the milder disconnect that backgrounds a         *)
(* guaranteed task, and a session that leaves stops nobody else's call.     *)
Channels == ChannelsSpec
=============================================================================
