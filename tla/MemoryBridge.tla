----------------------------- MODULE MemoryBridge -----------------------------
(***************************************************************************)
(* Calls of codebase-memory-mcp's tools (src-tauri/src/services/           *)
(* memory_bridge.rs): over HTTP where the port is held by the server       *)
(* Lounge started itself and the server answers, else by a process of the  *)
(* command line.  An indexing call must run once, so it falls back from    *)
(* the first to the second only where nothing was delivered; a reading one *)
(* always may.  list_projects keeps its rows for a while.  The server      *)
(* comes and goes between any two awaits, and others may take its port.    *)
(***************************************************************************)
EXTENDS Naturals

CONSTANTS
  ToolCaller,  \* the tasks that call tools
  MaxCalls     \* bound on the calls of them all

ASSUME BridgeConstants == MaxCalls \in Nat

VARIABLES
  transport,   \* TransportMode
  ui,          \* who listens on the port: "none", "ours" or "other"
  listCache,   \* list_cache: unset, or the rows and whether they are within the time
  indexed,     \* what the last finished indexing left to be listed
  toolCall,    \* each caller's call: its step, whether it indexes, how often the tool
               \* ran for it, whether the connection broke inside the answer
  calls        \* calls made

bridgeVars == <<transport, ui, listCache, indexed, toolCall, calls>>

NoCache == [set |-> FALSE, rows |-> 0]
NoTool == [step |-> "idle", indexes |-> FALSE, ran |-> 0, broke |-> FALSE, rows |-> 0]

BridgeInit ==
  /\ transport \in {"auto", "cli"} /\ ui \in {"none", "ours"}
  /\ listCache = NoCache /\ indexed = 0
  /\ toolCall = [c \in ToolCaller |-> NoTool] /\ calls = 0

Goes(c, step) == toolCall' = [toolCall EXCEPT ![c].step = step]

\* The tool runs for c: an indexing changes what there is to list, a listing reads it.
\* A killed or a failed run may have left it unchanged.
RunsTool(c, step) ==
  /\ toolCall' = [toolCall EXCEPT ![c].step = step, ![c].ran = @ + 1, ![c].rows = indexed]
  /\ indexed' \in IF toolCall[c].indexes THEN {indexed, calls} ELSE {indexed}

-----------------------------------------------------------------------------
(* The two calls.                                                          *)

IndexWorkspace(c) ==
  /\ toolCall[c].step = "idle" /\ calls < MaxCalls /\ calls' = calls + 1
  /\ toolCall' = [toolCall EXCEPT ![c] = [NoTool EXCEPT !.step = "select", !.indexes = TRUE]]
  /\ UNCHANGED <<transport, ui, listCache, indexed>>

\* Rows within the time are served; otherwise the lock is given up during the fetch.
ListProjects(c) ==
  /\ toolCall[c].step = "idle" /\ calls < MaxCalls /\ calls' = calls + 1
  /\ toolCall' = [toolCall EXCEPT ![c] =
       IF listCache.set THEN [NoTool EXCEPT !.rows = listCache.rows]
       ELSE [NoTool EXCEPT !.step = "select"]]
  /\ UNCHANGED <<transport, ui, listCache, indexed>>

\* What follows a tool that answered.
AfterTool(c) ==
  /\ toolCall[c].step = "ok" /\ Goes(c, "idle")
  /\ listCache' = IF toolCall[c].indexes THEN NoCache ELSE [set |-> TRUE, rows |-> toolCall[c].rows]
  /\ UNCHANGED <<transport, ui, indexed, calls>>

CacheLapses ==
  /\ listCache.set /\ listCache' = NoCache
  /\ UNCHANGED <<transport, ui, indexed, toolCall, calls>>

-----------------------------------------------------------------------------
(* One run of a tool.                                                      *)

\* Ownership of the port and the probe; either may miss a server that is there.
SelectTransport(c) ==
  /\ toolCall[c].step = "select"
  /\ \/ transport = "auto" /\ ui = "ours" /\ Goes(c, "post")
     \/ Goes(c, "cli")
  /\ UNCHANGED <<transport, ui, listCache, indexed, calls>>

\* Mutant: any failure of the HTTP call falls back.
FallsBackAlways(indexes, err) == TRUE

\* is_connection_refused_or_unreachable looks through the causes of the error: only the one
\* met while the answer is read still names a reset; earlier ones are flattened to a message.
ShouldFallBack(indexes, err) == ~indexes \/ err \in {"refused", "reset"}

Fails(c, err) == IF ShouldFallBack(toolCall[c].indexes, err) THEN "cli" ELSE "error"

Refused(c) ==
  /\ toolCall[c].step = "post" /\ ui = "none" /\ Goes(c, Fails(c, "refused"))
  /\ UNCHANGED <<transport, ui, listCache, indexed, calls>>

\* Whoever holds the port by now gets the call.
Delivered(c) ==
  /\ toolCall[c].step = "post" /\ ui # "none"
  /\ RunsTool(c, "answer")
  /\ UNCHANGED <<transport, ui, listCache, calls>>

Answered(c) ==
  /\ toolCall[c].step = "answer" /\ ui # "none" /\ Goes(c, "ok")
  /\ UNCHANGED <<transport, ui, listCache, indexed, calls>>

\* A timeout, a status that is no success, an unreadable answer, a connection that closes
\* before the answer, or one that is reset inside it.
Unanswered(c, err) ==
  /\ toolCall[c].step = "answer"
  /\ toolCall' = [toolCall EXCEPT ![c].step = Fails(c, err), ![c].broke = (err = "reset")]
  /\ UNCHANGED <<transport, ui, listCache, indexed, calls>>

RunCli(c) ==
  /\ toolCall[c].step \in {"cli", "late"}
  /\ RunsTool(c, IF toolCall[c].step = "cli" THEN "child" ELSE "error")
  /\ UNCHANGED <<transport, ui, listCache, calls>>

\* The timeout: a child that runs is killed; one the blocking pool has not started yet
\* cannot be, and is started all the same, for nobody.
CliTimesOut(c) ==
  /\ \/ toolCall[c].step = "child" /\ Goes(c, "error")
     \/ toolCall[c].step = "cli" /\ Goes(c, "late")
  /\ UNCHANGED <<transport, ui, listCache, indexed, calls>>

\* No binary, the command gate, or the system refuses the child.
NoChildStarts(c) ==
  /\ toolCall[c].step = "cli" /\ Goes(c, "error")
  /\ UNCHANGED <<transport, ui, listCache, indexed, calls>>

CliAnswers(c) ==
  /\ toolCall[c].step = "child" /\ \E s \in {"ok", "error"} : Goes(c, s)
  /\ UNCHANGED <<transport, ui, listCache, indexed, calls>>

ToolFailed(c) ==
  /\ toolCall[c].step = "error" /\ Goes(c, "idle")
  /\ UNCHANGED <<transport, ui, listCache, indexed, calls>>

\* The server starts, stops, or loses its port to another program.
UiChanges(who) ==
  /\ who # ui /\ ui' = who
  /\ UNCHANGED <<transport, listCache, indexed, toolCall, calls>>

BridgeNext ==
  \/ CacheLapses
  \/ \E who \in {"none", "ours", "other"} : UiChanges(who)
  \/ \E c \in ToolCaller :
       \/ IndexWorkspace(c) \/ ListProjects(c) \/ AfterTool(c) \/ SelectTransport(c)
       \/ Refused(c) \/ Delivered(c) \/ Answered(c)
       \/ \E err \in {"timeout", "status", "unreadable", "closed", "reset"} : Unanswered(c, err)
       \/ RunCli(c) \/ NoChildStarts(c) \/ CliTimesOut(c) \/ CliAnswers(c) \/ ToolFailed(c)

BridgeSpec == BridgeInit /\ [][BridgeNext]_bridgeVars

-----------------------------------------------------------------------------
ToolState ==
  [step : {"idle", "select", "post", "answer", "cli", "late", "child", "ok", "error"},
   indexes : BOOLEAN, ran : 0..2, broke : BOOLEAN, rows : 0..MaxCalls]

\* Every variable of the memory bridge has its type.
BridgeTypeOK ==
  /\ transport \in {"auto", "cli"} /\ ui \in {"none", "ours", "other"}
  /\ listCache \in [set : BOOLEAN, rows : 0..MaxCalls] /\ indexed \in 0..MaxCalls
  /\ toolCall \in [ToolCaller -> ToolState]
  /\ calls \in 0..MaxCalls

\* A mutating tool runs at most once for one call (memory_bridge.rs:772-773), whatever becomes
\* of the server, except where the connection is reset inside the answer.
MutatingOnce == \A c \in ToolCaller : toolCall[c].indexes /\ ~toolCall[c].broke => toolCall[c].ran <= 1
=============================================================================
