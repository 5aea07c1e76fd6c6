--------------------------- MODULE Boundary_proofs ---------------------------
(***************************************************************************)
(* Proofs about what comes in and goes out: the calls of tools             *)
(* (MemoryBridge), the graph window's server (GraphUi), the file of window *)
(* places (GeometrySession), the commands and approvals that wait for the  *)
(* user (DestructiveConfirm), the calls and sessions of the MCP transport  *)
(* (McpHttp), and where windows are opened (WindowPlacement); for every    *)
(* set of callers, commands, ports, windows, places, calls, sessions and   *)
(* monitors and whatever the bounds.                                       *)
(***************************************************************************)
EXTENDS McpHttp, MemoryBridge, DestructiveConfirm, GraphUi, GeometrySession,
        WindowPlacement, SeqFilter_proofs

-----------------------------------------------------------------------------
(* MemoryBridge.  A tool that may run has not run before, unless the call   *)
(* only reads or the connection broke inside an answer.                    *)

RunsLeft(t) ==
  /\ t.step \in {"select", "post"} => t.ran = 0
  /\ t.step = "answer" => t.ran = 1
  /\ t.step \in {"cli", "late"} => t.ran <= 1
  /\ t.indexes /\ ~t.broke => t.ran <= 1 /\ (t.step \in {"cli", "late"} => t.ran = 0)

BridgeInv == BridgeTypeOK /\ \A c \in ToolCaller : RunsLeft(toolCall[c])

(* Before any call nothing has run. *)
LEMMA BridgeInitInv == BridgeInit => BridgeInv
BY BridgeConstants DEF BridgeInit, BridgeInv, BridgeTypeOK, NoCache, NoTool, ToolState, RunsLeft

(* A step of one call is right for all if it is for that call.              *)
LEMMA CallMoves ==
  ASSUME BridgeInv, NEW c \in ToolCaller, NEW t \in ToolState, RunsLeft(t),
         toolCall' = [toolCall EXCEPT ![c] = t]
  PROVE toolCall' \in [ToolCaller -> ToolState] /\ \A d \in ToolCaller : RunsLeft(toolCall'[d])
BY DEF BridgeInv, BridgeTypeOK

(* A call that goes on without running the tool keeps its budget of runs. *)
LEMMA CallGoes ==
  ASSUME BridgeInv, NEW c \in ToolCaller, NEW s, Goes(c, s),
         s \in {"idle", "ok", "error", "child"} \/ (s = "late" /\ toolCall[c].step = "cli")
         \/ (s \in {"post", "cli"} /\ toolCall[c].ran = 0)
         \/ (s = "cli" /\ ~toolCall[c].indexes /\ toolCall[c].ran <= 1)
  PROVE toolCall' \in [ToolCaller -> ToolState] /\ \A d \in ToolCaller : RunsLeft(toolCall'[d])
<1> DEFINE t == [toolCall[c] EXCEPT !.step = s]
<1>1. toolCall[c] \in ToolState /\ RunsLeft(toolCall[c]) BY DEF BridgeInv, BridgeTypeOK
<1>2. t \in ToolState /\ RunsLeft(t) BY <1>1 DEF ToolState, RunsLeft
<1>3. toolCall' = [toolCall EXCEPT ![c] = t] BY DEF Goes
<1> QED BY <1>2, <1>3, CallMoves

(* A run of the tool uses up the budget of a mutating call. *)
LEMMA CallRuns ==
  ASSUME BridgeInv, NEW c \in ToolCaller, NEW s, RunsTool(c, s),
         \/ toolCall[c].step = "post" /\ s = "answer"
         \/ toolCall[c].step \in {"cli", "late"} /\ s \in {"child", "error"}
  PROVE /\ toolCall' \in [ToolCaller -> ToolState] /\ \A d \in ToolCaller : RunsLeft(toolCall'[d])
        /\ indexed' \in 0..MaxCalls
<1> DEFINE t == [toolCall[c] EXCEPT !.step = s, !.ran = @ + 1, !.rows = indexed]
<1>1. toolCall[c] \in ToolState /\ RunsLeft(toolCall[c]) /\ indexed \in 0..MaxCalls /\ calls \in 0..MaxCalls
  BY DEF BridgeInv, BridgeTypeOK
<1>2. toolCall[c].ran \in 0..2 /\ toolCall[c].ran <= 1 BY <1>1 DEF ToolState, RunsLeft
<1>3. toolCall[c].ran + 1 \in 0..2 BY <1>2
<1>4. t \in ToolState BY <1>1, <1>3 DEF ToolState
<1>5. RunsLeft(t)
  <2>1. t.step = s /\ t.indexes = toolCall[c].indexes /\ t.ran = toolCall[c].ran + 1
        /\ t.broke = toolCall[c].broke
    BY <1>1 DEF ToolState
  <2> QED BY <1>1, <1>2, <2>1 DEF RunsLeft
<1>6. toolCall' = [toolCall EXCEPT ![c] = t] BY DEF RunsTool
<1>7. indexed' \in 0..MaxCalls BY <1>1 DEF RunsTool
<1> QED BY <1>4, <1>5, <1>6, <1>7, CallMoves

(* The states a call starts in, and the idle ones with a cached list, are typed. *)
LEMMA FreshCall ==
  /\ [NoTool EXCEPT !.step = "select", !.indexes = TRUE] \in ToolState
  /\ RunsLeft([NoTool EXCEPT !.step = "select", !.indexes = TRUE])
  /\ [NoTool EXCEPT !.step = "select"] \in ToolState /\ RunsLeft([NoTool EXCEPT !.step = "select"])
  /\ \A n \in 0..MaxCalls : [NoTool EXCEPT !.rows = n] \in ToolState /\ RunsLeft([NoTool EXCEPT !.rows = n])
<1> DEFINE index == [NoTool EXCEPT !.step = "select", !.indexes = TRUE]
           list == [NoTool EXCEPT !.step = "select"]
           cached(n) == [NoTool EXCEPT !.rows = n]
<1>1. NoTool \in ToolState BY BridgeConstants DEF NoTool, ToolState
<1>2. NoTool.ran = 0 /\ NoTool.step = "idle" BY DEF NoTool
<1>3. ASSUME NEW t \in ToolState, t.ran = 0, t.step \in {"idle", "select"} PROVE RunsLeft(t)
  BY <1>3 DEF RunsLeft
<1>4. index \in ToolState BY <1>1 DEF ToolState
<1>5. index.ran = 0 /\ index.step = "select" BY <1>1, <1>2 DEF ToolState
<1>6. list \in ToolState BY <1>1 DEF ToolState
<1>7. list.ran = 0 /\ list.step = "select" BY <1>1, <1>2 DEF ToolState
<1>8. \A n \in 0..MaxCalls : cached(n) \in ToolState BY <1>1 DEF ToolState
<1>9. \A n : cached(n).ran = 0 /\ cached(n).step = "idle" BY <1>1, <1>2 DEF ToolState
<1> HIDE DEF index, list, cached
<1>10. RunsLeft(index) /\ RunsLeft(list) /\ \A n \in 0..MaxCalls : RunsLeft(cached(n))
  BY <1>3, <1>4, <1>5, <1>6, <1>7, <1>8, <1>9
<1> QED BY <1>4, <1>6, <1>8, <1>10 DEF index, list, cached

(* Every step of the bridge keeps the invariant. *)
LEMMA BridgeStepInv == BridgeInv /\ [BridgeNext]_bridgeVars => BridgeInv'
<1> SUFFICES ASSUME BridgeInv, [BridgeNext]_bridgeVars PROVE BridgeInv'
  OBVIOUS
<1>t. BridgeTypeOK BY DEF BridgeInv
<1>1. CASE CacheLapses BY <1>1, BridgeConstants
                       DEF CacheLapses, NoCache, BridgeInv, BridgeTypeOK
<1>2. ASSUME NEW who \in {"none", "ours", "other"}, UiChanges(who) PROVE BridgeInv'
  BY <1>2 DEF UiChanges, BridgeInv, BridgeTypeOK
<1>3. CASE UNCHANGED bridgeVars BY <1>3 DEF bridgeVars, BridgeInv, BridgeTypeOK
<1>4. ASSUME NEW c \in ToolCaller,
             \/ IndexWorkspace(c) \/ ListProjects(c) \/ AfterTool(c) \/ SelectTransport(c)
             \/ Refused(c) \/ Delivered(c) \/ Answered(c)
             \/ \E err \in {"timeout", "status", "unreadable", "closed", "reset"} : Unanswered(c, err)
             \/ RunCli(c) \/ NoChildStarts(c) \/ CliTimesOut(c) \/ CliAnswers(c) \/ ToolFailed(c)
      PROVE BridgeInv'
  <2>a. toolCall[c] \in ToolState /\ RunsLeft(toolCall[c]) /\ listCache \in [set : BOOLEAN, rows : 0..MaxCalls]
    BY DEF BridgeInv, BridgeTypeOK
  <2> USE DEF BridgeTypeOK
  <2>1. CASE IndexWorkspace(c)
    <3> DEFINE t == [NoTool EXCEPT !.step = "select", !.indexes = TRUE]
    <3>2. t \in ToolState /\ RunsLeft(t) BY FreshCall
    <3>3. toolCall' \in [ToolCaller -> ToolState] /\ \A d \in ToolCaller : RunsLeft(toolCall'[d])
      BY <2>1, <3>2, CallMoves DEF IndexWorkspace
    <3>4. calls' \in 0..MaxCalls BY <2>1, <1>t, BridgeConstants DEF IndexWorkspace
    <3> QED BY <2>1, <1>t, <3>3, <3>4 DEF IndexWorkspace, BridgeInv
  <2>2. CASE ListProjects(c)
    <3> DEFINE t == IF listCache.set THEN [NoTool EXCEPT !.rows = listCache.rows]
                    ELSE [NoTool EXCEPT !.step = "select"]
    <3>1. t \in ToolState /\ RunsLeft(t) BY <2>a, FreshCall
    <3>2. toolCall' \in [ToolCaller -> ToolState] /\ \A d \in ToolCaller : RunsLeft(toolCall'[d])
      BY <2>2, <3>1, CallMoves DEF ListProjects
    <3>3. calls' \in 0..MaxCalls BY <2>2, <1>t, BridgeConstants DEF ListProjects
    <3> QED BY <2>2, <1>t, <3>2, <3>3 DEF ListProjects, BridgeInv
  <2>3. CASE AfterTool(c)
    <3>1. toolCall' \in [ToolCaller -> ToolState] /\ \A d \in ToolCaller : RunsLeft(toolCall'[d])
      BY <2>3, CallGoes DEF AfterTool
    <3>2. listCache' \in [set : BOOLEAN, rows : 0..MaxCalls]
      BY <2>3, <2>a, BridgeConstants DEF AfterTool, NoCache, ToolState
    <3> QED BY <2>3, <1>t, <3>1, <3>2 DEF AfterTool, BridgeInv
  <2>4. CASE SelectTransport(c)
    <3>1. toolCall[c].ran = 0 BY <2>4, <2>a DEF SelectTransport, RunsLeft
    <3> QED BY <2>4, <1>t, <3>1, CallGoes DEF SelectTransport, BridgeInv
  <2>5. CASE Refused(c)
    <3>1. toolCall[c].ran = 0 BY <2>5, <2>a DEF Refused, RunsLeft
    <3> QED BY <2>5, <1>t, <3>1, CallGoes DEF Refused, Fails, BridgeInv
  <2>6. CASE Delivered(c) BY <2>6, <1>t, CallRuns DEF Delivered, BridgeInv
  <2>7. CASE Answered(c) BY <2>7, <1>t, CallGoes DEF Answered, BridgeInv
  <2>8. ASSUME NEW err \in {"timeout", "status", "unreadable", "closed", "reset"}, Unanswered(c, err)
        PROVE BridgeInv'
    <3> DEFINE t == [toolCall[c] EXCEPT !.step = Fails(c, err), !.broke = (err = "reset")]
    <3>1. toolCall[c].ran = 1 BY <2>8, <2>a DEF Unanswered, RunsLeft
    <3>2. \/ Fails(c, err) = "cli" /\ (toolCall[c].indexes => err = "reset")
          \/ Fails(c, err) = "error"
      BY <2>8 DEF Fails, ShouldFallBack
    <3>3. t \in ToolState BY <2>a, <3>2 DEF ToolState
    <3>4. /\ t.ran = 1 /\ t.step = Fails(c, err) /\ t.indexes = toolCall[c].indexes
          /\ err = "reset" => t.broke
      BY <2>a, <3>1 DEF ToolState
    <3>5. RunsLeft(t) BY <3>2, <3>4 DEF RunsLeft
    <3>6. toolCall' = [toolCall EXCEPT ![c] = t] BY <2>8 DEF Unanswered
    <3> QED BY <2>8, <1>t, <3>3, <3>5, <3>6, CallMoves DEF Unanswered, BridgeInv
  <2>9. CASE RunCli(c) BY <2>9, <1>t, CallRuns DEF RunCli, BridgeInv
  <2>10. CASE NoChildStarts(c) BY <2>10, <1>t, CallGoes DEF NoChildStarts, BridgeInv
  <2>11. CASE CliTimesOut(c) BY <2>11, <1>t, CallGoes DEF CliTimesOut, BridgeInv
  <2>12. CASE CliAnswers(c) BY <2>12, <1>t, CallGoes DEF CliAnswers, BridgeInv
  <2>13. CASE ToolFailed(c) BY <2>13, <1>t, CallGoes DEF ToolFailed, BridgeInv
  <2> QED BY <1>4, <2>1, <2>2, <2>3, <2>4, <2>5, <2>6, <2>7, <2>8, <2>9, <2>10, <2>11, <2>12,
          <2>13
<1> QED BY <1>1, <1>2, <1>3, <1>4 DEF BridgeNext

(* A mutating tool runs once at most for one call, over HTTP and on the     *)
(* command line together, whatever becomes of the server, of the port and  *)
(* of the time; unless the connection is reset inside the answer.          *)
THEOREM IndexesOnce == BridgeSpec => [](BridgeTypeOK /\ MutatingOnce)
<1>1. BridgeInv => BridgeTypeOK /\ MutatingOnce BY DEF BridgeInv, MutatingOnce, RunsLeft
<1> QED BY BridgeInitInv, BridgeStepInv, <1>1, PTL DEF BridgeSpec

-----------------------------------------------------------------------------
(* GraphUi.  Where a footprint shows and the file is promised to somebody,  *)
(* a copy that takes the footprint away is where the next step looks for    *)
(* it: in memory while the server is awaited, in the settings while Lounge  *)
(* is down, with the startup task while that repairs the file.              *)

Snapped == {"spawn", "wait", "own"}

OverIsNow == (over => daemon) /\ (step \in Snapped \cup {"snapshot"} => ~over)
CallHasPort == step \in Snapped \cup {"recheck", "snapshot", "forget", "undo"} => call.sel # 0
SnapshotHeld ==
  /\ step \in Snapped /\ snap.port # 0 => snap.port = call.sel
  /\ step \notin Snapped => snap = NoSnap
ChildHasPort == uiChild.stage # "none" => uiChild.port # 0
ChildIsAwaited ==
  uiChild.stage \in {"new", "wrote"} => step \in {"wait", "own"} /\ uiChild.port = call.sel
DownIsDown == step = "down" => startup = "load" /\ uiChild.stage = "none"

Legit(f) == (f.port # 0 => f.kind = "legible" /\ f.ver = 0) /\ (f.kind = "absent" => f.ver = 0)
Legitimate(s) == Legit(s.was) /\ s.was.kind # "broken"
CopiesLegitimate == Legit(file) /\ Legitimate(kept) /\ Legitimate(snap) /\ Legitimate(loaded)

Owed(s) == s.was.port = 0 /\ s.was.ver = promised
Vouches(s) ==
  IF s.port # 0 THEN Owed(s) /\ (marker => s.port = file.port) ELSE ~marker /\ promised = 0
Unwritten == step = "spawn" \/ uiChild.stage = "new"

\* Nothing promised; or a clean file, the promised one; or a footprint and its copy.
Clean == file.port = 0 => file.ver = promised
Copied == Unwritten => startup = "done" /\ (snap.port # 0 => Owed(snap))
Marked ==
  file.port # 0 =>
    /\ startup \notin {"mark", "clear"}
    /\ startup \in {"load", "repair"} => Vouches(kept) /\ step \notin Snapped \cup {"forget", "undo"}
    /\ startup = "repair" => Vouches(loaded)
    /\ startup = "done" => step \in {"wait", "own"} /\ snap.port = file.port /\ Owed(snap)
Promise == promised # -1 => Clean /\ Copied /\ Marked

GraphInv ==
  /\ GraphTypeOK /\ OverIsNow /\ CallHasPort /\ SnapshotHeld /\ ChildHasPort /\ ChildIsAwaited
  /\ DownIsDown /\ CopiesLegitimate /\ Promise

(* The choice of a port ends with one of the ports or with none. *)
LEMMA SelectsAPort == \A p, a : Selected(p, a) \in Port \cup {0}
<1> SUFFICES ASSUME NEW p, NEW a PROVE Selected(p, a) \in Port \cup {0} OBVIOUS
<1> DEFINE free == Port \ {foreign, a}
<1>1. free # {} => Min(free) \in free BY GraphConstants, LeastOfNaturals
<1> QED BY <1>1 DEF Selected

(* The file is as its owner or an older release left it when Lounge starts first. *)
LEMMA GraphInitInv == GraphInit => GraphInv
<1> SUFFICES ASSUME GraphInit PROVE GraphInv OBVIOUS
<1> USE GraphConstants DEF GraphInit
<1>0. 0 \in 0..MaxChanges /\ 0 \in -1..MaxChanges OBVIOUS
<1>2. \A k \in {"absent", "legible", "broken"} :
        /\ UnmarkedFile(k) \in File /\ Legit(UnmarkedFile(k)) /\ UnmarkedFile(k).kind = k
        /\ UnmarkedFile(k).port = 0 /\ UnmarkedFile(k).ver = 0
  BY <1>0 DEF UnmarkedFile, File, Legit
<1>3. file \in File /\ file.ver = 0 /\ Legit(file) /\ (file.port # 0 => ~marker)
  <2>1. \A p \in Port : Footprint(p) \in File /\ Footprint(p).ver = 0 /\ Legit(Footprint(p))
    BY <1>0 DEF File, Footprint, Legit
  <2> QED BY <1>2, <2>1
<1>4. NoSnap \in Snap /\ NoSnap.port = 0 /\ Legitimate(NoSnap)
      /\ NoSnap.was.port = 0 /\ NoSnap.was.ver = 0
  BY <1>2 DEF NoSnap, NoFile, Snap, Legitimate
<1>5. kept \in Snap /\ Legitimate(kept) /\ kept.was.port = 0 /\ kept.was.ver = 0
  <2>1. kept = NoSnap \/ \E k \in {"absent", "legible"} : kept = [port |-> file.port, was |-> UnmarkedFile(k)]
    OBVIOUS
  <2>2. CASE kept = NoSnap BY <2>2, <1>4
  <2>3. ASSUME NEW k \in {"absent", "legible"}, kept = [port |-> file.port, was |-> UnmarkedFile(k)]
        PROVE kept \in Snap /\ Legitimate(kept) /\ kept.was.port = 0 /\ kept.was.ver = 0
    <3>1. file.port \in Port \cup {0} BY <1>3 DEF File
    <3> QED BY <2>3, <3>1, <1>2 DEF Snap, Legitimate
  <2> QED BY <2>1, <2>2, <2>3
<1>6. NoChild.stage = "none" /\ NoChild.port = 0 /\ NoCall.sel = 0 BY DEF NoChild, NoCall
<1>7. GraphTypeOK BY <1>0, <1>3, <1>4, <1>5 DEF GraphTypeOK, NoChild, NoCall
<1>8. /\ OverIsNow /\ CallHasPort /\ SnapshotHeld /\ ChildHasPort /\ ChildIsAwaited /\ DownIsDown
      /\ CopiesLegitimate
  BY <1>3, <1>4, <1>5, <1>6 DEF OverIsNow, CallHasPort, SnapshotHeld, ChildHasPort, ChildIsAwaited,
     DownIsDown, CopiesLegitimate, Snapped
<1>9. Promise
  BY <1>3, <1>4, <1>5, <1>6 DEF Promise, Clean, Copied, Marked, Unwritten, Vouches, Owed, Snapped
<1> QED BY <1>7, <1>8, <1>9 DEF GraphInv

(* Enabling, restoring, edits, failures and crashes keep the invariant. *)
LEMMA GraphStepInv == GraphInv /\ [GraphNext]_graphVars => GraphInv'
<1> SUFFICES ASSUME GraphInv, [GraphNext]_graphVars PROVE GraphInv' OBVIOUS
<1> DEFINE Rest == /\ OverIsNow /\ CallHasPort /\ SnapshotHeld /\ ChildHasPort /\ ChildIsAwaited
                   /\ DownIsDown /\ CopiesLegitimate
<1>i. GraphTypeOK /\ Rest /\ Promise BY DEF GraphInv
<1>q. SUFFICES GraphTypeOK' /\ Rest' /\ Promise' BY DEF GraphInv
<1> USE GraphConstants DEF GraphTypeOK, File, Snap, NoFile, UnmarkedFile, Footprint, NoSnap, NoChild, NoCall,
          Snapped, shared, hygiene, outside, OverIsNow, CallHasPort, SnapshotHeld, ChildHasPort,
          ChildIsAwaited, DownIsDown, CopiesLegitimate, Legitimate, Legit,
          Promise, Clean, Copied, Marked, Unwritten, Vouches, Owed
<1>1. CASE Load
  <2>1. GraphTypeOK' BY <1>1, <1>i DEF Load
  <2>2. Rest' BY <1>1, <1>i DEF Load
  <2>3. Promise' BY <1>1, <1>i DEF Load
  <2> QED BY <2>1, <2>2, <2>3
<1>2. CASE Recover
  <2>1. GraphTypeOK' BY <1>2, <1>i DEF Recover, FileBecomes, RestoredFile, AfterRepair, Changed
  <2>2. Rest' BY <1>2, <1>i DEF Recover, FileBecomes, RestoredFile, AfterRepair, Changed
  <2>3. Promise' BY <1>2, <1>i DEF Recover, FileBecomes, RestoredFile, AfterRepair, Changed
  <2> QED BY <2>1, <2>2, <2>3
<1>3. CASE Migrate
  <2>1. GraphTypeOK' BY <1>3, <1>i DEF Migrate, FileBecomes, Migrated, Changed
  <2>2. Rest' BY <1>3, <1>i DEF Migrate, FileBecomes, Migrated, Changed
  <2>3. Promise' BY <1>3, <1>i DEF Migrate, FileBecomes, Migrated, Changed
  <2> QED BY <2>1, <2>2, <2>3
<1>4. CASE Mark
  <2>1. GraphTypeOK'
    <3>0. marker' \in BOOLEAN
      <4>1. CASE marker' = TRUE BY <4>1
      <4>2. CASE marker' = marker BY <4>2, <1>i
      <4> QED BY <1>4, <4>1, <4>2 DEF Mark
    <3>1. changes' \in 0..MaxChanges BY <1>4, <1>i DEF Mark, Changed
    <3>2. startup' \in {"clear", "done"} BY <1>4 DEF Mark, AfterRepair
    <3> QED BY <1>4, <1>i, <3>0, <3>1, <3>2 DEF Mark
  <2>2. Rest' BY <1>4, <1>i DEF Mark, AfterRepair, Changed
  <2>3. Promise' BY <1>4, <1>i DEF Mark, AfterRepair, Changed
  <2> QED BY <2>1, <2>2, <2>3
<1>5. CASE ClearKept
  <2>1. GraphTypeOK' BY <1>5, <1>i DEF ClearKept, KeptBecomes, Changed
  <2>2. Rest' BY <1>5, <1>i DEF ClearKept, KeptBecomes, Changed
  <2>3. Promise' BY <1>5, <1>i DEF ClearKept, KeptBecomes, Changed
  <2> QED BY <2>1, <2>2, <2>3
<1>6. CASE Enable
  <2>1. GraphTypeOK' BY <1>6, <1>i DEF Enable
  <2>2. Rest' BY <1>6, <1>i DEF Enable
  <2>3. Promise' BY <1>6, <1>i DEF Enable
  <2> QED BY <2>1, <2>2, <2>3
<1>7. CASE ProbeDaemon
  <2>1. GraphTypeOK' BY <1>7, <1>i DEF ProbeDaemon
  <2>2. Rest' BY <1>7, <1>i DEF ProbeDaemon
  <2>3. Promise' BY <1>7, <1>i DEF ProbeDaemon
  <2> QED BY <2>1, <2>2, <2>3
<1>8. CASE Select
  <2>1. GraphTypeOK'
    <3>1. Selected(call.sel, 0) \in Port \cup {0} BY SelectsAPort
    <3>2. call' \in [mode : {"auto", "user"}, sel : Port \cup {0}, again : BOOLEAN]
      BY <1>8, <1>i, <3>1 DEF Select
    <3> QED BY <1>8, <1>i, <3>2 DEF Select
  <2>2. Rest' BY <1>8, <1>i DEF Select, Owned
  <2>3. Promise' BY <1>8, <1>i DEF Select, Owned
  <2> QED BY <2>1, <2>2, <2>3
<1>9. CASE Recheck
  <2>1. GraphTypeOK' BY <1>9, <1>i DEF Recheck
  <2>2. Rest' BY <1>9, <1>i DEF Recheck
  <2>3. Promise' BY <1>9, <1>i DEF Recheck
  <2> QED BY <2>1, <2>2, <2>3
<1>10. CASE Snapshot
  <2>1. GraphTypeOK' BY <1>10, <1>i DEF Snapshot, KeptBecomes, Changed
  <2>2. Rest' BY <1>10, <1>i DEF Snapshot, KeptBecomes, Changed
  <2>3. Promise' BY <1>10, <1>i DEF Snapshot, KeptBecomes, Changed
  <2> QED BY <2>1, <2>2, <2>3
<1>11. CASE SkipSnapshot
  <2>1. GraphTypeOK' BY <1>11, <1>i DEF SkipSnapshot, Changed
  <2>2. Rest' BY <1>11, <1>i DEF SkipSnapshot, Changed
  <2>3. Promise' BY <1>11, <1>i DEF SkipSnapshot, Changed
  <2> QED BY <2>1, <2>2, <2>3
<1>12. CASE SpawnGraphUi
  <2>1. GraphTypeOK' BY <1>12, <1>i DEF SpawnGraphUi, GiveBack, FileBecomes, RestoredFile, Changed
  <2>2. Rest' BY <1>12, <1>i DEF SpawnGraphUi, GiveBack, FileBecomes, RestoredFile, Changed
  <2>3. Promise' BY <1>12, <1>i DEF SpawnGraphUi, GiveBack, FileBecomes, RestoredFile, Changed
  <2> QED BY <2>1, <2>2, <2>3
<1>13. CASE UiReady
  <2>1. GraphTypeOK' BY <1>13, <1>i DEF UiReady
  <2>2. Rest' BY <1>13, <1>i DEF UiReady
  <2>3. Promise' BY <1>13, <1>i DEF UiReady
  <2> QED BY <2>1, <2>2, <2>3
<1>14. CASE GiveUp
  <2>1. GraphTypeOK' BY <1>14, <1>i DEF GiveUp, KillSpawnedChild, GiveBack, FileBecomes, RestoredFile, Changed
  <2>2. Rest' BY <1>14, <1>i DEF GiveUp, KillSpawnedChild, GiveBack, FileBecomes, RestoredFile, Changed
  <2>3. Promise' BY <1>14, <1>i DEF GiveUp, KillSpawnedChild, GiveBack, FileBecomes, RestoredFile, Changed
  <2> QED BY <2>1, <2>2, <2>3
<1>15. CASE AdoptUi
  <2>1. GraphTypeOK' BY <1>15, <1>i DEF AdoptUi, GiveBack, FileBecomes, RestoredFile, Changed, Owned
  <2>2. Rest' BY <1>15, <1>i DEF AdoptUi, GiveBack, FileBecomes, RestoredFile, Changed, Owned
  <2>3. Promise' BY <1>15, <1>i DEF AdoptUi, GiveBack, FileBecomes, RestoredFile, Changed, Owned
  <2> QED BY <2>1, <2>2, <2>3
<1>16. CASE Forget
  <2>1. GraphTypeOK' BY <1>16, <1>i DEF Forget, KeptBecomes, Changed
  <2>2. Rest' BY <1>16, <1>i DEF Forget, KeptBecomes, Changed
  <2>3. Promise' BY <1>16, <1>i DEF Forget, KeptBecomes, Changed
  <2> QED BY <2>1, <2>2, <2>3
<1>17. CASE Undo
  <2>1. GraphTypeOK'
    <3>1. Selected(call.sel + 1, call.sel) \in Port \cup {0} BY SelectsAPort
    <3>2. call' \in [mode : {"auto", "user"}, sel : Port \cup {0}, again : BOOLEAN]
      BY <1>17, <1>i, <3>1 DEF Undo
    <3>3. NoSnap \in Snap BY <1>i
    <3>4. kept' \in Snap /\ changes' \in 0..MaxChanges
      BY <1>17, <1>i, <3>3 DEF Undo, KeptBecomes, Changed
    <3> QED BY <1>17, <1>i, <3>2, <3>4 DEF Undo
  <2>2. Rest' BY <1>17, <1>i DEF Undo, KeptBecomes, Changed
  <2>3. Promise' BY <1>17, <1>i DEF Undo, KeptBecomes, Changed
  <2> QED BY <2>1, <2>2, <2>3
<1>18. CASE ChildWrites
  <2>1. GraphTypeOK' BY <1>18, <1>i DEF ChildWrites
  <2>2. Rest' BY <1>18, <1>i DEF ChildWrites
  <2>3. Promise' BY <1>18, <1>i DEF ChildWrites
  <2> QED BY <2>1, <2>2, <2>3
<1>19. CASE ChildServes
  <2>1. GraphTypeOK' BY <1>19, <1>i DEF ChildServes
  <2>2. Rest' BY <1>19, <1>i DEF ChildServes
  <2>3. Promise' BY <1>19, <1>i DEF ChildServes
  <2> QED BY <2>1, <2>2, <2>3
<1>20. CASE Exit
  <2>1. GraphTypeOK' BY <1>20, <1>i DEF Exit, Ends, KillSpawnedChild, GiveBack, FileBecomes, RestoredFile, Changed
  <2>2. Rest' BY <1>20, <1>i DEF Exit, Ends, KillSpawnedChild, GiveBack, FileBecomes, RestoredFile, Changed
  <2>3. Promise' BY <1>20, <1>i DEF Exit, Ends, KillSpawnedChild, GiveBack, FileBecomes, RestoredFile, Changed
  <2> QED BY <2>1, <2>2, <2>3
<1>21. CASE LoungeStarts
  <2>1. GraphTypeOK' BY <1>21, <1>i DEF LoungeStarts
  <2>2. Rest' BY <1>21, <1>i DEF LoungeStarts
  <2>3. Promise' BY <1>21, <1>i DEF LoungeStarts
  <2> QED BY <2>1, <2>2, <2>3
<1>22. CASE Crash
  <2>1. GraphTypeOK' BY <1>22, <1>i DEF Crash, Ends, Changed
  <2>2. Rest' BY <1>22, <1>i DEF Crash, Ends, Changed
  <2>3. Promise' BY <1>22, <1>i DEF Crash, Ends, Changed
  <2> QED BY <2>1, <2>2, <2>3
<1>23. CASE ServerDies
  <2>1. GraphTypeOK' BY <1>23, <1>i DEF ServerDies, Changed
  <2>2. Rest' BY <1>23, <1>i DEF ServerDies, Changed
  <2>3. Promise' BY <1>23, <1>i DEF ServerDies, Changed
  <2> QED BY <2>1, <2>2, <2>3
<1>24. CASE EditFile
  <2>1. GraphTypeOK' BY <1>24, <1>i DEF EditFile, Doomed, Changed
  <2>2. Rest' BY <1>24, <1>i DEF EditFile, Doomed, Changed
  <2>3. Promise' BY <1>24, <1>i DEF EditFile, Doomed, Changed
  <2> QED BY <2>1, <2>2, <2>3
<1>25. CASE DaemonTurns
  <2>1. GraphTypeOK'
    <3>1. changes' \in 0..MaxChanges BY <1>25, <1>i DEF DaemonTurns, Changed
    <3>2. daemon' \in BOOLEAN BY <1>25, <1>i DEF DaemonTurns
    <3>3. over' \in BOOLEAN BY <1>25 DEF DaemonTurns
    <3>4. UNCHANGED <<hygiene, kept, snap, uiChild, step, call, foreign, shared>>
      BY <1>25 DEF DaemonTurns
    <3> QED BY <1>i, <3>1, <3>2, <3>3, <3>4
  <2>2. Rest' BY <1>25, <1>i DEF DaemonTurns, Changed
  <2>3. Promise' BY <1>25, <1>i DEF DaemonTurns, Changed
  <2> QED BY <2>1, <2>2, <2>3
<1>26. CASE \E p \in Port \cup {0} : PortTaken(p)
  <2>1. GraphTypeOK' BY <1>26, <1>i DEF PortTaken, Changed
  <2>2. Rest' BY <1>26, <1>i DEF PortTaken, Changed
  <2>3. Promise' BY <1>26, <1>i DEF PortTaken, Changed
  <2> QED BY <2>1, <2>2, <2>3
<1>27. CASE UNCHANGED graphVars
  <2>1. GraphTypeOK' BY <1>27, <1>i DEF graphVars
  <2>2. Rest' BY <1>27, <1>i DEF graphVars
  <2>3. Promise' BY <1>27, <1>i DEF graphVars
  <2> QED BY <2>1, <2>2, <2>3
<1>28. \/ Load \/ Recover \/ Migrate \/ Mark \/ ClearKept \/ Enable \/ ProbeDaemon \/ Select \/ Recheck
       \/ Snapshot \/ SkipSnapshot \/ SpawnGraphUi \/ UiReady \/ GiveUp \/ AdoptUi \/ Forget \/ Undo
       \/ ChildWrites \/ ChildServes \/ Exit \/ LoungeStarts \/ Crash \/ ServerDies \/ EditFile
       \/ DaemonTurns \/ (\E p \in Port \cup {0} : PortTaken(p)) \/ UNCHANGED graphVars
  BY Zenon DEF GraphNext
<1> QED
  BY <1>1, <1>2, <1>3, <1>4, <1>5, <1>6, <1>7, <1>8, <1>9, <1>10, <1>11, <1>12, <1>13, <1>14, <1>15,
     <1>16, <1>17, <1>18, <1>19, <1>20, <1>21, <1>22, <1>23, <1>24, <1>25, <1>26, <1>27, <1>28, Zenon

(* The footprint of the graph window's server, in a file that is promised   *)
(* to its owner, shows only while a server is awaited, Lounge is down or   *)
(* the startup task is at work; no server starts beside a daemon that goes  *)
(* on; and what others wrote is never undone by a copy taken earlier, in    *)
(* this run or after a crash.                                               *)
THEOREM FileGivenBack == GraphSpec => [](GraphTypeOK /\ ConfigGivenBack)
<1>1. GraphInv => GraphTypeOK /\ ConfigGivenBack
  BY DEF GraphInv, ConfigGivenBack, OverIsNow, Snapped, Promise, Clean, Marked, GraphTypeOK
<1> QED BY GraphInitInv, GraphStepInv, <1>1, PTL DEF GraphSpec

-----------------------------------------------------------------------------
(* GeometrySession.  A place in the cache that is not in the file is on its *)
(* way there: some thread reads a window or has kept it, was woken, or      *)
(* waits for the lock, the newest timer sleeps, or the writer's copy has    *)
(* it.  A thread that ends the app relies on less: Main has written, so     *)
(* only the command can have kept something since.  And what was read last  *)
(* of a window is in the cache, or one thread alone has it.                 *)

UiOnItsWay == \/ stage[UiCommand] = "captured"
              \/ stage[UiCommand] = "flushing" /\ writer # UiCommand
OnItsWay ==
  \/ \E t \in Thread : stage[t] \in {"reading", "captured", "awake"} \/ (stage[t] = "flushing" /\ writer # t)
  \/ generation \in Timer /\ stage[generation] = "asleep"
Written(w) == places[w] \in {Nowhere, saved[w]} \/ failed \/ discarded

TimersAhead == \A g \in Timer : g > generation => stage[g] = "idle"
WriterFlushes == writer # Nowhere => stage[writer] = "flushing"
CopyIsLast == writer # Nowhere => OnItsWay \/ copy = places
FileIsLast == writer = Nowhere => OnItsWay \/ \A w \in Window : Written(w)
\* While Main waits for nothing but the command.
CopyIsLastForMain ==
  (writer = Main) \/ (writer # Nowhere /\ stage[Main] = "flushed") => UiOnItsWay \/ copy = places
FileIsLastForMain ==
  stage[Main] = "flushed" =>
    stage[UiCommand] \in {"captured", "flushing"} \/ \A w \in Window : Written(w)
ReadingKnown == \A t \in Thread : stage[t] = "reading" <=> t \in Reader /\ reading[t] # Unheld
ReadsOf(w) == {t \in Reader : reading[t].win = w}
LatestKnown ==
  \A w \in Window \ raced :
    /\ \A t, u \in ReadsOf(w) : t = u /\ reading[t].place = last[w]
    /\ ReadsOf(w) = {} => last[w] = places[w]

GeometryInv ==
  /\ ReadingKnown /\ LatestKnown
  /\ GeometryTypeOK /\ TimersAhead /\ WriterFlushes /\ CopyIsLast /\ FileIsLast
  /\ CopyIsLastForMain /\ FileIsLastForMain
  /\ exited => stage[Main] = "flushed"

(* At the start the cache holds what the file does. *)
LEMMA GeometryInitInv == GeometryInit => GeometryInv
<1> SUFFICES ASSUME GeometryInit PROVE GeometryInv OBVIOUS
<1> USE GeometryConstants DEF GeometryInit
<1>1. Unread \in PlaceOf /\ \A w \in Window : Unread[w] = Nowhere BY DEF Unread, PlaceOf
<1>2. stage \in [Thread -> Stages] /\ \A t \in Thread : stage[t] # "reading" BY DEF Stages
<1>5. 0 \in 0..MaxGeneration /\ 0 \in 0..MaxCaptures OBVIOUS
<1>6. GeometryTypeOK BY <1>1, <1>2, <1>5 DEF GeometryTypeOK
<1>3. TimersAhead /\ stage[Main] = "idle" BY DEF TimersAhead, Thread, Timer
<1>4. FileIsLast BY <1>1 DEF FileIsLast, Written
<1>7. ReadingKnown BY <1>2 DEF ReadingKnown
<1>8. LatestKnown
  <2>1. \A w \in Window : ReadsOf(w) = {} BY DEF ReadsOf, Unheld
  <2> QED BY <2>1 DEF LatestKnown
<1> QED BY <1>1, <1>6, <1>3, <1>4, <1>7, <1>8
        DEF GeometryInv, WriterFlushes, CopyIsLast, CopyIsLastForMain, FileIsLastForMain

\* The threads have names of their own.
LEMMA Threads ==
  /\ Main \in Thread /\ UiCommand \in Thread /\ Timer \subseteq Thread
  /\ Nowhere \notin Thread /\ Main # UiCommand /\ {Main, UiCommand} \cap Timer = {}
  /\ Timer \subseteq Nat /\ Thread = {Main, UiCommand} \cup Timer /\ Reader = {Main, UiCommand}
  /\ Reader \cap Timer = {} /\ Reader \subseteq Thread
BY GeometryConstants DEF Thread, Timer, Reader

\* A step that moves one thread, and neither the cache nor the file nor the lock, is right
\* if what the thread was to write is still on its way.
LEMMA ThreadMoves ==
  ASSUME GeometryInv, NEW t \in Thread, NEW s, stage' = [stage EXCEPT ![t] = s],
         s \in Stages,
         stage[t] # "flushing", s # "flushed", UNCHANGED <<places, writer, copy, saved, failed, discarded>>,
         generation' \in 0..MaxGeneration,
         OnItsWay => OnItsWay', \A g \in Timer : g > generation' => g > generation, stage[t] # "idle" \/ t \notin Timer,
         t = UiCommand /\ stage[t] = "captured" => s = "flushing"
  PROVE /\ TimersAhead'
        /\ stage' \in [Thread -> Stages]
        /\ WriterFlushes' /\ CopyIsLast' /\ FileIsLast' /\ CopyIsLastForMain' /\ FileIsLastForMain'
<1> USE Threads DEF GeometryInv, GeometryTypeOK, Stages
<1>1. stage' \in [Thread -> Stages]
  OBVIOUS
<1>2. WriterFlushes' BY DEF WriterFlushes
<1>3. CopyIsLast' BY DEF CopyIsLast
<1>4. FileIsLast' BY DEF FileIsLast, Written
<1>5. UiOnItsWay => UiOnItsWay' BY DEF UiOnItsWay, WriterFlushes
<1>6. CopyIsLastForMain' BY <1>5 DEF CopyIsLastForMain
<1>7. FileIsLastForMain' BY DEF FileIsLastForMain, Written
<1>8. TimersAhead' BY DEF TimersAhead
<1> QED BY <1>1, <1>2, <1>3, <1>4, <1>6, <1>7, <1>8

\* What is read, and by whom, changes only with Read and Keep.
LEMMA KnownStays ==
  ASSUME GeometryInv, UNCHANGED <<readingVars, places>>,
         \A t \in Thread : stage'[t] = "reading" <=> stage[t] = "reading"
  PROVE  ReadingKnown' /\ LatestKnown'
BY DEF GeometryInv, readingVars, ReadingKnown, LatestKnown, ReadsOf

\* A window is read: alone, then it is known to whom; or else it is raced.
LEMMA ReadKnown ==
  ASSUME GeometryInv, NEW t \in Reader, NEW w \in Window, NEW p \in Place, Read(t, w, p)
  PROVE  /\ ReadingKnown' /\ LatestKnown' /\ stage[t] \in {"idle", "captured"}
         /\ stage' = [stage EXCEPT ![t] = "reading"] /\ (t = UiCommand => stage[t] = "idle")
         /\ reading' \in [Reader -> {Unheld} \cup [win : Window, place : Place]]
         /\ last' \in PlaceOf /\ raced' \subseteq Window
<1> USE Threads, GeometryConstants DEF GeometryInv, GeometryTypeOK
<1>1. /\ stage[t] \in {"idle", "captured"} /\ stage' = [stage EXCEPT ![t] = "reading"]
      /\ t = UiCommand => stage[t] = "idle"
  BY DEF Read, Turn
<1>2. reading[t] = Unheld BY <1>1 DEF ReadingKnown
<1> DEFINE r == [win |-> w, place |-> p]
<1>3. r # Unheld /\ r \in [win : Window, place : Place] /\ r.win = w /\ r.place = p BY DEF Unheld
<1>4. reading' = [reading EXCEPT ![t] = r] /\ last' = [last EXCEPT ![w] = p] BY DEF Read
<1>5. raced' = IF ReadsOf(w) # {} THEN raced \cup {w} ELSE raced \ {w} BY DEF Read, ReadsOf
<1>6. ReadingKnown'
  <2>1. \A x \in Thread \ {t} : stage'[x] = stage[x] /\ (x \in Reader => reading'[x] = reading[x])
    BY <1>1, <1>4
  <2>2. stage'[t] = "reading" /\ reading'[t] = r BY <1>1, <1>4
  <2> QED BY <2>1, <2>2, <1>3 DEF ReadingKnown
<1>7. ASSUME NEW v \in Window \ raced'
      PROVE /\ \A x, u \in ReadsOf(v)' : x = u /\ reading'[x].place = last'[v]
            /\ ReadsOf(v)' = {} => last'[v] = places'[v]
  <2> HIDE DEF r
  <2>1. CASE v = w
    <3>1. ReadsOf(w) = {} BY <1>5, <2>1, <1>7
    <3>2. ReadsOf(w)' = {t} BY <3>1, <1>3, <1>4 DEF ReadsOf
    <3>3. reading'[t].place = last'[w] BY <1>3, <1>4 DEF PlaceOf
    <3> QED BY <2>1, <3>2, <3>3
  <2>2. CASE v # w
    <3>1. reading[t].win # v BY <1>2 DEF Unheld
    <3>2. ReadsOf(v)' = ReadsOf(v) /\ t \notin ReadsOf(v) BY <3>1, <1>3, <1>4, <2>2 DEF ReadsOf
    <3>3. \A x \in ReadsOf(v) : reading'[x] = reading[x] BY <3>2, <1>4 DEF ReadsOf
    <3>4. last'[v] = last[v] /\ places'[v] = places[v] /\ v \notin raced
      BY <1>4, <1>5, <1>7, <2>2 DEF Read, PlaceOf
    <3> QED BY <3>2, <3>3, <3>4 DEF LatestKnown
  <2> QED BY <2>1, <2>2
<1>8. raced' \subseteq Window BY <1>5
<1>9. reading' \in [Reader -> {Unheld} \cup [win : Window, place : Place]]
  BY <1>3, <1>4
<1>10. last' \in PlaceOf BY <1>4 DEF PlaceOf
<1> QED BY <1>1, <1>6, <1>7, <1>8, <1>9, <1>10 DEF LatestKnown

\* What one thread alone has read is kept; of a raced window anything may be.
LEMMA KeepKnown ==
  ASSUME GeometryInv, NEW t \in Reader, Keep(t)
  PROVE  /\ ReadingKnown' /\ LatestKnown' /\ stage[t] = "reading"
         /\ stage' = [stage EXCEPT ![t] = "captured"] /\ places' \in PlaceOf
         /\ reading' \in [Reader -> {Unheld} \cup [win : Window, place : Place]]
<1> USE Threads, GeometryConstants DEF GeometryInv, GeometryTypeOK
<1>1. stage[t] = "reading" /\ stage' = [stage EXCEPT ![t] = "captured"] BY DEF Keep, Turn
<1>2. reading[t] \in [win : Window, place : Place] BY <1>1 DEF ReadingKnown
<1> DEFINE w == reading[t].win
<1>3. w \in Window /\ reading[t].place \in Place BY <1>2
<1>4. /\ places' = [places EXCEPT ![w] = reading[t].place]
      /\ reading' = [reading EXCEPT ![t] = Unheld] /\ UNCHANGED <<last, raced>>
  BY DEF Keep
<1>5. ReadingKnown'
  <2>1. \A x \in Thread \ {t} : stage'[x] = stage[x] /\ (x \in Reader => reading'[x] = reading[x])
    BY <1>1, <1>4
  <2>2. stage'[t] = "captured" /\ reading'[t] = Unheld BY <1>1, <1>4
  <2> QED BY <2>1, <2>2 DEF ReadingKnown
<1>6. ASSUME NEW v \in Window \ raced'
      PROVE /\ \A x, u \in ReadsOf(v)' : x = u /\ reading'[x].place = last'[v]
            /\ ReadsOf(v)' = {} => last'[v] = places'[v]
  <2>0. v \notin raced /\ last' = last BY <1>4, <1>6
  <2>1. ReadsOf(v)' = ReadsOf(v) \ {t} BY <1>4 DEF ReadsOf, Unheld
  <2>2. \A x \in ReadsOf(v)' : reading'[x] = reading[x] BY <2>1, <1>4 DEF ReadsOf
  <2>3. CASE v = w
    <3>1. t \in ReadsOf(v) BY <2>3 DEF ReadsOf
    <3>2. \A u \in ReadsOf(v) : t = u /\ reading[t].place = last[v]
      BY <3>1, <2>0, <1>6 DEF LatestKnown
    <3>4. ReadsOf(v)' = {} BY <3>2, <2>1
    <3>3. places'[v] = reading[t].place BY <1>4, <2>3 DEF PlaceOf
    <3> QED BY <3>1, <3>2, <3>3, <3>4, <2>0
  <2>4. CASE v # w
    <3>1. ReadsOf(v)' = ReadsOf(v) BY <2>1, <2>4 DEF ReadsOf
    <3>2. places'[v] = places[v] BY <1>4, <2>4 DEF PlaceOf
    <3> QED BY <3>1, <3>2, <2>0, <2>2 DEF LatestKnown
  <2> QED BY <2>3, <2>4
<1>7. places' \in PlaceOf BY <1>3, <1>4 DEF PlaceOf
<1> QED BY <1>1, <1>4, <1>5, <1>6, <1>7 DEF LatestKnown

(* Window events, timers and flushes keep the invariant. *)
LEMMA GeometryStepInv == GeometryInv /\ [GeometryNext]_geometryVars => GeometryInv'
<1> SUFFICES ASSUME GeometryInv, [GeometryNext]_geometryVars PROVE GeometryInv' OBVIOUS
<1> USE Threads
<1> DEFINE Rest == /\ TimersAhead /\ WriterFlushes /\ CopyIsLast /\ FileIsLast
                   /\ CopyIsLastForMain /\ FileIsLastForMain
<1>i. Rest /\ GeometryTypeOK /\ (exited => stage[Main] = "flushed") BY DEF GeometryInv
<1> USE DEF GeometryTypeOK, readingVars
<1>1. CASE UNCHANGED geometryVars
  BY <1>1, <1>i
     DEF geometryVars, GeometryInv, ReadingKnown, LatestKnown, ReadsOf, TimersAhead, WriterFlushes, CopyIsLast, FileIsLast,
     CopyIsLastForMain,
     FileIsLastForMain, Written, OnItsWay, UiOnItsWay
<1>2. CASE ~exited /\ \E t \in Reader, w \in Window, p \in Place : Read(t, w, p)
  <2> PICK t \in Reader, w \in Window, p \in Place : Read(t, w, p) BY <1>2
  <2>1. ReadingKnown' /\ LatestKnown' BY ReadKnown
  <2>2. /\ stage' = [stage EXCEPT ![t] = "reading"] /\ stage[t] \in {"idle", "captured"}
        /\ t = UiCommand => stage[t] = "idle"
    BY ReadKnown
  <2>3. /\ reading' \in [Reader -> {Unheld} \cup [win : Window, place : Place]]
        /\ last' \in PlaceOf /\ raced' \subseteq Window
    BY ReadKnown
  <2>4. /\ UNCHANGED <<places, generation, writer, copy, saved, corrupt, failed, discarded, exited>>
        /\ captures' \in 0..MaxCaptures
    BY <1>i, GeometryConstants DEF Read
  <2>5. OnItsWay'
    <3>1. stage'[t] = "reading" BY <2>2, <1>i
    <3> QED BY <3>1 DEF OnItsWay
  <2>6. Rest' /\ stage' \in [Thread -> Stages]
    BY <2>2, <2>4, <2>5, <1>i, ThreadMoves DEF Stages
  <2> QED BY <1>2, <2>1, <2>3, <2>4, <2>6, <1>i DEF GeometryInv
<1>k. CASE ~exited /\ \E t \in Reader : Keep(t)
  <2> PICK t \in Reader : Keep(t) BY <1>k
  <2>1. ReadingKnown' /\ LatestKnown' BY KeepKnown
  <2>2. /\ stage' = [stage EXCEPT ![t] = "captured"] /\ stage[t] = "reading"
        /\ stage'[t] = "captured"
    BY <1>i, KeepKnown
  <2>3. GeometryTypeOK' BY <2>2, <1>i, KeepKnown DEF Keep, Stages
  <2>t. TimersAhead' BY <2>2, <1>i DEF Keep, TimersAhead
  <2>4. WriterFlushes' BY <2>2, <1>i DEF Keep, WriterFlushes
  <2>5. OnItsWay' BY <2>2 DEF OnItsWay
  <2>6. t = UiCommand => UiOnItsWay' BY <2>2 DEF UiOnItsWay
  <2>7. t = Main => CopyIsLastForMain' /\ FileIsLastForMain'
    BY <2>2, <2>4, <1>i DEF CopyIsLastForMain, FileIsLastForMain, WriterFlushes
  <2>8. t = UiCommand => CopyIsLastForMain' /\ FileIsLastForMain'
    BY <2>2, <2>6 DEF CopyIsLastForMain, FileIsLastForMain
  <2> QED BY <1>k, <2>1, <2>3, <2>t, <2>4, <2>5, <2>7, <2>8
          DEF Keep, CopyIsLast, FileIsLast, GeometryInv
<1>3. CASE ~exited /\ ScheduleDebounce
  <2>1. /\ generation + 1 \in Timer /\ generation' = generation + 1 /\ stage[Main] \in {"idle", "captured"}
        /\ stage' = [stage EXCEPT ![Main] = "idle", ![generation + 1] = "asleep"]
    BY <1>3, <1>i, GeometryConstants DEF ScheduleDebounce, Timer
  <2>2. /\ stage'[generation'] = "asleep" /\ stage'[Main] = "idle"
        /\ stage' \in [Thread -> Stages]
        /\ stage'[UiCommand] = stage[UiCommand]
    BY <2>1, <1>i DEF Stages
  <2>3. GeometryTypeOK' BY <1>3, <1>i, <2>1, <2>2, GeometryConstants
                        DEF ScheduleDebounce, HistoryKept, Timer
  <2>k. ReadingKnown' /\ LatestKnown'
    <3>1. stage[generation + 1] # "reading" /\ stage[Main] # "reading" BY <2>1, <1>i DEF TimersAhead, Timer
    <3>2. \A x \in Thread : stage'[x] = "reading" <=> stage[x] = "reading" BY <3>1, <2>1, <1>i
    <3> QED BY <1>3, <3>2, KnownStays DEF ScheduleDebounce, HistoryKept
  <2>4. OnItsWay' BY <2>1, <2>2 DEF OnItsWay
  <2>t. TimersAhead' BY <2>1, <1>i DEF TimersAhead, Timer
  <2>5. WriterFlushes' BY <1>3, <2>1, <1>i
                       DEF ScheduleDebounce, WriterFlushes, TimersAhead, Timer
  <2>6. CopyIsLastForMain' /\ FileIsLastForMain'
    BY <1>3, <2>2, <2>5, <1>i
       DEF ScheduleDebounce, CopyIsLastForMain, FileIsLastForMain, WriterFlushes
  <2> QED BY <1>3, <2>3, <2>k, <2>t, <2>4, <2>5, <2>6
          DEF ScheduleDebounce, HistoryKept, CopyIsLast, FileIsLast, GeometryInv
<1>4. CASE ~exited /\ \E g \in Timer : Wake(g)
  <2> PICK g \in Timer : Wake(g) BY <1>4
  <2> DEFINE s == IF generation = g THEN "awake" ELSE "idle"
  <2>1. stage' = [stage EXCEPT ![g] = s] /\ stage[g] = "asleep" /\ s \in {"awake", "idle"}
    BY DEF Wake, Turn
  <2>2. OnItsWay => OnItsWay' BY <2>1, <1>i DEF Wake, OnItsWay
  <2>3. UNCHANGED <<places, writer, copy, saved, failed, discarded, readingVars, exited, corrupt, generation>>
    BY DEF Wake, HistoryKept
  <2> HIDE DEF s
  <2>k. ReadingKnown' /\ LatestKnown'
    <3>1. \A x \in Thread : stage'[x] = "reading" <=> stage[x] = "reading" BY <2>1, <1>i
    <3> QED BY <3>1, <2>3, KnownStays
  <2>4. Rest' /\ stage' \in [Thread -> Stages]
    BY <2>1, <2>2, <2>3, <1>i, ThreadMoves DEF Stages
  <2> QED BY <1>4, <2>3, <2>4, <2>k, <1>i DEF GeometryInv
<1>5. CASE ~exited /\ \E t \in Thread : Flush(t)
  <2> PICK t \in Thread : Flush(t) BY <1>5
  <2>1. /\ stage' = [stage EXCEPT ![t] = "flushing"] /\ stage[t] \in {"idle", "captured", "awake"}
        /\ generation' = generation + 1 /\ generation' \in 0..MaxGeneration
    BY <1>i, GeometryConstants DEF Flush, Turn, Bump, BumpsAt
  <2>f. stage[t] # "flushing" /\ (stage[t] # "idle" \/ t \notin Timer) BY DEF Flush, Turn
  <2>g. \A g \in Timer : g > generation' => g > generation BY <2>1, <1>i DEF Timer
  <2>2. UNCHANGED <<places, writer, copy, saved, failed, discarded, readingVars, exited, corrupt>>
    BY DEF Flush, HistoryKept
  <2>k. ReadingKnown' /\ LatestKnown'
    <3>1. \A x \in Thread : stage'[x] = "reading" <=> stage[x] = "reading" BY <2>1, <1>i
    <3> QED BY <3>1, <2>2, KnownStays
  <2>3. OnItsWay' BY <2>1, <2>2, <1>i DEF WriterFlushes, OnItsWay
  <2>4. Rest' /\ stage' \in [Thread -> Stages]
    BY <2>f, <2>g, <2>1, <2>2, <2>3, <1>i, ThreadMoves DEF Stages
  <2> QED BY <1>5, <2>1, <2>2, <2>4, <2>k, <1>i DEF GeometryInv
<1>6. CASE ~exited /\ \E t \in Thread : TakeLock(t)
  <2> PICK t \in Thread : TakeLock(t) BY <1>6
  <2>1. writer' = t /\ copy' = places /\ UNCHANGED <<stage, places, saved>> /\ HistoryKept
        /\ stage[t] = "flushing" /\ writer = Nowhere
    BY DEF TakeLock
  <2>2. GeometryTypeOK' BY <2>1, <1>i DEF TakeLock, HistoryKept
  <2>k. ReadingKnown' /\ LatestKnown' BY <2>1, KnownStays DEF HistoryKept
  <2>3. Rest'
    BY <2>1, <1>i
       DEF TakeLock, TimersAhead, WriterFlushes, CopyIsLast, FileIsLast, CopyIsLastForMain,
       FileIsLastForMain, Written, HistoryKept
  <2> QED BY <1>6, <2>1, <2>2, <2>3, <2>k, <1>i DEF HistoryKept, GeometryInv
<1>7. CASE ~exited /\ \E t \in Thread : WriteFile(t)
  <2> PICK t \in Thread : WriteFile(t) BY <1>7
  <2> DEFINE s == IF t = Main THEN "flushed" ELSE "idle"
  <2>1. /\ writer = t /\ writer' = Nowhere /\ copy' = Unread /\ stage[t] = "flushing"
        /\ stage' = [stage EXCEPT ![t] = s] /\ s \in {"idle", "flushed"}
        /\ UNCHANGED <<generation, places, readingVars, discarded, exited>>
    BY DEF WriteFile, Turn, Bump, BumpsAt
  <2>k. ReadingKnown' /\ LatestKnown'
    <3>1. \A x \in Thread : stage'[x] = "reading" <=> stage[x] = "reading" BY <2>1, <1>i
    <3> QED BY <3>1, <2>1, KnownStays
  <2>2. \/ copy = Unread /\ UNCHANGED <<saved, corrupt, failed>>
        \/ saved' = Merged /\ corrupt' = FALSE /\ failed' = FALSE
        \/ corrupt' \in {corrupt, FALSE} /\ failed' = TRUE /\ UNCHANGED saved
    BY DEF WriteFile
  <2>3. Unread \in PlaceOf /\ Merged \in PlaceOf BY <1>i DEF Unread, Merged, PlaceOf
  <2>4. GeometryTypeOK' BY <2>1, <2>2, <2>3, <1>i DEF Stages
  <2>5. ASSUME copy = places, NEW w \in Window PROVE Written(w)'
    <3>1. Unread[w] = Nowhere BY DEF Unread
    <3>2. Merged[w] = IF copy[w] # Nowhere THEN copy[w] ELSE saved[w] BY DEF Merged
    <3>3. CASE copy = Unread BY <2>1, <2>5, <3>1, <3>3 DEF Written
    <3>4. CASE saved' = Merged BY <2>1, <2>5, <3>2, <3>4 DEF Written
    <3>5. CASE failed' = TRUE BY <3>5 DEF Written
    <3> QED BY <2>2, <3>3, <3>4, <3>5
  <2>6. OnItsWay => OnItsWay' BY <2>1, <1>i DEF OnItsWay
  <2>t. TimersAhead' BY <2>1, <1>i DEF TimersAhead
  <2>7. WriterFlushes' /\ CopyIsLast' /\ CopyIsLastForMain'
    BY <2>1 DEF WriterFlushes, CopyIsLast, CopyIsLastForMain
  <2>8. FileIsLast' BY <2>1, <2>5, <2>6, <1>i DEF FileIsLast, CopyIsLast
  <2>9. stage'[Main] = "flushed" => writer = Main \/ (writer # Nowhere /\ stage[Main] = "flushed")
    BY <2>1, <1>i
  <2>10. UiOnItsWay => stage'[UiCommand] \in {"captured", "flushing"}
    BY <2>1, <1>i DEF UiOnItsWay
  <2>11. FileIsLastForMain' BY <2>5, <2>9, <2>10, <1>i DEF FileIsLastForMain, CopyIsLastForMain
  <2> QED BY <1>7, <2>1, <2>4, <2>k, <2>t, <2>7, <2>8, <2>11 DEF GeometryInv
<1>8. CASE ~exited /\ Return
  <2>1. stage' = [stage EXCEPT ![Main] = "idle"] /\ stage[Main] = "flushed"
    BY <1>8 DEF Return, Turn
  <2>2. OnItsWay => OnItsWay' BY <1>8, <2>1, <1>i DEF OnItsWay, Return
  <2>3. UNCHANGED <<places, writer, copy, saved, failed, discarded, readingVars, exited, corrupt, generation>>
    BY <1>8 DEF Return, HistoryKept
  <2>k. ReadingKnown' /\ LatestKnown'
    <3>1. \A x \in Thread : stage'[x] = "reading" <=> stage[x] = "reading" BY <2>1, <1>i
    <3> QED BY <3>1, <2>3, KnownStays
  <2>4. Rest' /\ stage' \in [Thread -> Stages]
    BY <2>1, <2>2, <2>3, <1>i, ThreadMoves DEF Stages
  <2> QED BY <1>8, <2>3, <2>4, <2>k, <1>i DEF GeometryInv
<1>9. CASE ~exited /\ LoadForPlacement
  <2>1. stage' = [stage EXCEPT ![UiCommand] = "spoilt"] /\ stage[UiCommand] = "idle"
    BY <1>9 DEF LoadForPlacement, Turn
  <2>2. OnItsWay => OnItsWay' BY <1>9, <2>1, <1>i DEF OnItsWay, LoadForPlacement
  <2>3. UNCHANGED <<places, writer, copy, saved, failed, discarded, readingVars, exited, corrupt, generation>>
    BY <1>9 DEF LoadForPlacement, HistoryKept
  <2>k. ReadingKnown' /\ LatestKnown'
    <3>1. \A x \in Thread : stage'[x] = "reading" <=> stage[x] = "reading" BY <2>1, <1>i
    <3> QED BY <3>1, <2>3, KnownStays
  <2>4. Rest' /\ stage' \in [Thread -> Stages]
    BY <2>1, <2>2, <2>3, <1>i, ThreadMoves DEF Stages
  <2> QED BY <1>9, <2>3, <2>4, <2>k, <1>i DEF GeometryInv
<1>10. CASE ~exited /\ Quarantine
  <2>1. /\ stage' = [stage EXCEPT ![UiCommand] = "idle"] /\ stage[UiCommand] = "spoilt"
        /\ saved' = Unread /\ corrupt' = FALSE /\ discarded' = (discarded \/ saved # Unread)
        /\ UNCHANGED <<places, generation, writer, copy, readingVars, failed, exited>>
    BY <1>10 DEF Quarantine, Turn
  <2>k. ReadingKnown' /\ LatestKnown'
    <3>1. \A x \in Thread : stage'[x] = "reading" <=> stage[x] = "reading" BY <2>1, <1>i
    <3> QED BY <3>1, <2>1, KnownStays
  <2>2. OnItsWay => OnItsWay' BY <2>1, <1>i DEF OnItsWay
  <2>3. GeometryTypeOK'
    <3>1. Unread \in PlaceOf BY DEF PlaceOf, Unread
    <3> QED BY <3>1, <2>1, <1>i DEF Stages
  <2>4. ASSUME NEW w \in Window, Written(w) PROVE Written(w)' BY <2>1, <2>4 DEF Written
  <2>5. stage'[Main] = stage[Main] /\ stage[UiCommand] \notin {"captured", "flushing"} /\ ~UiOnItsWay
    BY <2>1, <1>i DEF UiOnItsWay
  <2>6. TimersAhead' /\ WriterFlushes' /\ CopyIsLast' /\ CopyIsLastForMain'
    BY <2>1, <2>2, <2>5, <1>i DEF TimersAhead, WriterFlushes, CopyIsLast, CopyIsLastForMain
  <2>7. FileIsLast' /\ FileIsLastForMain'
    BY <2>1, <2>2, <2>4, <2>5, <1>i DEF FileIsLast, FileIsLastForMain
  <2> QED BY <1>10, <2>1, <2>3, <2>k, <2>6, <2>7 DEF GeometryInv
<1>11. CASE ~exited /\ Quit
  BY <1>11, <1>i
     DEF Quit, GeometryInv, ReadingKnown, LatestKnown, ReadsOf, TimersAhead, WriterFlushes, CopyIsLast, FileIsLast,
     CopyIsLastForMain,
     FileIsLastForMain, Written, OnItsWay, UiOnItsWay
<1> QED
  BY <1>1, <1>2, <1>k, <1>3, <1>4, <1>5, <1>6, <1>7, <1>8, <1>9, <1>10, <1>11 DEF GeometryNext

(* When nothing is left to do that would write the file, or the app has     *)
(* ended, the place kept last of every window is in the file, and it is the *)
(* one read last unless two threads read the window at once, the last write *)
(* failed or a repaired file was put aside.                                 *)
THEOREM PlacesRemembered == GeometrySpec => [](GeometryTypeOK /\ Remembered)
<1>1. ASSUME GeometryInv, ~failed, ~discarded, Settled, NEW w \in Window
      PROVE places[w] \in {Nowhere, saved[w]}
  <2> USE <1>1, Threads DEF GeometryInv
  <2>1. CASE exited BY <2>1 DEF Settled, FileIsLastForMain, Written
  <2>2. CASE ~exited
    <3>1. ~OnItsWay /\ writer = Nowhere
      BY <2>2 DEF Settled, OnItsWay, WriterFlushes, GeometryTypeOK
    <3> QED BY <3>1 DEF FileIsLast, Written
  <2> QED BY <2>1, <2>2
<1>2. ASSUME GeometryInv, Settled, NEW w \in Window \ raced PROVE last[w] = places[w]
  <2>1. \A t \in Reader : stage[t] # "reading" BY <1>2, Threads DEF GeometryInv, Settled
  <2>2. \A t \in Reader : reading[t] = Unheld
    BY <1>2, <2>1, Threads DEF GeometryInv, ReadingKnown
  <2>3. ReadsOf(w) = {} BY <2>2, GeometryConstants DEF ReadsOf, Unheld
  <2> QED BY <1>2, <2>3 DEF GeometryInv, LatestKnown
<1>3. GeometryInv => GeometryTypeOK /\ Remembered
  BY <1>1, <1>2 DEF GeometryInv, Remembered
<1> QED BY GeometryInitInv, GeometryStepInv, <1>3, PTL DEF GeometrySpec

-----------------------------------------------------------------------------
(* DestructiveConfirm.  A command ran at most as often as confirmed tokens  *)
(* of its own are used up.                                                 *)

TokenUsed(i) == token[i].phase \notin {"new", "open"}
Spent(c) == {i \in agreed : token[i].cmd = c /\ token[i].phase \in {"consumed", "gone"}}

TokensSpent ==
  /\ agreed \subseteq Ids /\ runs \in [Command -> Nat]
  /\ \A i \in Ids : /\ token[i].phase \in {"confirmed", "consumed"} => i \in agreed
                    /\ token[i].phase = "new" => i \notin agreed
  /\ \A c \in Command : runs[c] <= Cardinality(Spent(c))

Asking == {"waiting", "granted", "denied", "over"}
AskStages == Asking \cup {"idle", "failing", "failed"}

\* Nothing leaves the queue before its end, and what ends before it is queued is known.
ClearingEnds == \A m \in clearing : m.id \in Ids => TokenUsed(m.id)
DecidingBegan == \A d \in deciding : token[d.id].phase # "new"
EmittingKnown ==
  /\ \A i \in emitting \cap Ids : TokenUsed(i) => i \in stale
  /\ \A e \in emitting \cap Asker : approval[e] \in Asking
\* A vote reaches an executor that waits, of its own task.
SenderWaits ==
  \A t \in Asked : sender[t] # NoAsker => AskedBy[sender[t]] = t /\ approval[sender[t]] = "waiting"

ConfirmInv ==
  /\ ConfirmTypeOK /\ TokensSpent /\ ClearingEnds /\ DecidingBegan /\ EmittingKnown
  /\ SenderWaits /\ ApprovalsQueued

TokenRow == [cmd : Command \cup {"none"}, expired : BOOLEAN,
             phase : {"new", "open", "confirmed", "consumed", "gone"}]

\* A token that began goes forward, and keeps its command.
Forward(i) ==
  /\ token'[i].cmd = token[i].cmd
  /\ token[i].phase = "new" <=> token'[i].phase = "new"
  /\ token[i].phase = "gone" => token'[i].phase = "gone"
  /\ token[i].phase = "consumed" => token'[i].phase \in {"consumed", "gone"}
  /\ token'[i].phase = "open" => token[i].phase = "open"

(* Only finitely many tokens are spent, so they can be counted. *)
LEMMA SpentIsFinite ==
  ASSUME TokensSpent, NEW c PROVE IsFiniteSet(Spent(c)) /\ Cardinality(Spent(c)) \in Nat
<1>1. IsFiniteSet(Ids) BY ConfirmConstants, FS_Interval DEF Ids
<1>2. Spent(c) \in SUBSET Ids BY DEF Spent, TokensSpent
<1> QED BY <1>1, <1>2, FS_Subset, FS_CardinalityType

\* As long as no command runs, what the user confirmed is enough for what ran.
LEMMA SpentGrows ==
  ASSUME ConfirmTypeOK, TokensSpent, UNCHANGED runs, agreed' \subseteq Ids, agreed \subseteq agreed',
         \A i \in Ids : Forward(i) \/ (token[i].phase = "new" /\ token'[i].phase = "open"),
         \A i \in Ids : token'[i].phase \in {"confirmed", "consumed"} => i \in agreed',
         \A i \in agreed' : i \in agreed \/ token'[i].phase = "confirmed"
  PROVE  TokensSpent'
<1>1. \A i \in Ids : token'[i].phase = "new" => i \notin agreed' BY DEF TokensSpent, Forward
<1>2. IsFiniteSet(Ids) BY ConfirmConstants, FS_Interval DEF Ids
<1>3. ASSUME NEW c \in Command PROVE runs'[c] <= Cardinality(Spent(c)')
  <2>1. Spent(c) \subseteq Spent(c)' BY DEF Spent, TokensSpent, Forward
  <2>2. Spent(c)' \in SUBSET Ids BY DEF Spent
  <2>3. /\ IsFiniteSet(Spent(c)') /\ Cardinality(Spent(c)') \in Nat
        /\ Cardinality(Spent(c)) \in Nat /\ Cardinality(Spent(c)) <= Cardinality(Spent(c)')
    BY <1>2, <2>1, <2>2, FS_Subset, FS_CardinalityType
  <2> QED BY <2>3 DEF TokensSpent
<1> QED BY <1>1, <1>3 DEF TokensSpent

\* The list of what waits has everything once.
OnceQueued(q) == q \in Seq(Ids \cup Asked) /\ OnceEach(q)
(* A queue has no duplicates exactly when it is as long as its set of entries. *)
LEMMA QueueIsOnce ==
  ASSUME NEW q \in Seq(Ids \cup Asked)
  PROVE  OnceEach(q) <=> Cardinality(DOMAIN q) = Cardinality({q[n] : n \in DOMAIN q})
<1>1. DOMAIN q = 1..Len(q) /\ Len(q) \in Nat OBVIOUS
<1>2. Cardinality(DOMAIN q) = Len(q) BY <1>1, FS_Interval
<1> QED BY <1>2, OnceEachCounts DEF Elements

(* Clearing an entry of the approval queue removes it and nothing else. *)
LEMMA QueueCleared ==
  ASSUME ConfirmTypeOK, NEW x, queue' = Cleared(x)
  PROVE  OnceQueued(queue') /\ \A y : Queued(y)' <=> Queued(y) /\ y # x
<1>1. queue \in Seq(Ids \cup Asked) /\ OnceEach(queue) BY QueueIsOnce DEF ConfirmTypeOK
<1>2. queue' = Without(queue, {x}) BY DEF Cleared, QueueWithout
<1>3. OnceQueued(queue') /\ Elements(queue') = Elements(queue) \ {x}
  BY <1>1, <1>2, WithoutLeaves DEF OnceQueued
<1> QED BY <1>3 DEF Elements, Queued

(* Joining the queue adds one entry, once. *)
LEMMA QueueJoined ==
  ASSUME ConfirmTypeOK, NEW x \in Ids \cup Asked,
         queue' = IF Queued(x) THEN queue ELSE Append(queue, x)
  PROVE  OnceQueued(queue') /\ \A y : Queued(y)' <=> Queued(y) \/ y = x
<1>1. queue \in Seq(Ids \cup Asked) /\ OnceEach(queue) BY QueueIsOnce DEF ConfirmTypeOK
<1>2. CASE Queued(x) BY <1>1, <1>2 DEF OnceQueued, Queued
<1>3. CASE ~Queued(x)
  <2>1. x \notin Elements(queue) BY <1>3 DEF Elements, Queued
  <2>2. OnceQueued(queue') /\ Elements(queue') = Elements(queue) \cup {x}
    BY <1>1, <1>3, <2>1, AppendAdds DEF OnceQueued
  <2> QED BY <2>2 DEF Elements, Queued
<1> QED BY <1>2, <1>3

(* A step that does not touch the queue leaves it as it was. *)
LEMMA QueueStays ==
  ASSUME ConfirmTypeOK, UNCHANGED queue
  PROVE  OnceQueued(queue') /\ \A y : Queued(y)' <=> Queued(y)
BY QueueIsOnce DEF ConfirmTypeOK, OnceQueued, Queued

(* The type invariant is the conjunction of what each variable keeps. *)
LEMMA TypesTogether ==
  ASSUME token' \in [Ids -> TokenRow], (blocked \in [Command -> 0..MaxTokens])',
         (deciding \subseteq [id : Ids, yes : BOOLEAN])',
         (approval \in [Asker -> AskStages])', (sender \in [Asked -> Asker \cup {NoAsker}])',
         (asks \in 0..MaxAsks)',
         (emitting \subseteq Ids \cup Asker)',
         (clearing \subseteq [id : Ids \cup Asked, ask : 0..MaxAsks])',
         OnceQueued(queue')
  PROVE  ConfirmTypeOK'
BY QueueIsOnce DEF ConfirmTypeOK, OnceQueued, TokenRow, AskStages, Asking

(* Without tokens, commands and approvals the invariant holds. *)
LEMMA ConfirmInitInv == ConfirmInit => ConfirmInv
<1> SUFFICES ASSUME ConfirmInit PROVE ConfirmInv OBVIOUS
<1> USE ConfirmConstants DEF ConfirmInit
<1>1. queue = << >> /\ queue \in Seq(Ids \cup Asked) /\ OnceEach(queue) /\ \A x : ~Queued(x)
  BY EmptyHasNone DEF Queued
<1>2. token \in [Ids -> TokenRow] /\ \A i \in Ids : token[i].phase \in {"new", "gone"}
  <2> PICK n \in Ids : token = [i \in Ids |->
        [cmd |-> "none", phase |-> IF i <= n THEN "new" ELSE "gone", expired |-> FALSE]]
    OBVIOUS
  <2> QED BY DEF TokenRow
<1>3. ConfirmTypeOK
  <2>1. blocked \in [Command -> 0..MaxTokens] OBVIOUS
  <2>2. asks \in 0..MaxAsks OBVIOUS
  <2>3. /\ approval \in [Asker -> AskStages] /\ sender \in [Asked -> Asker \cup {NoAsker}]
        /\ deciding = {} /\ emitting = {} /\ clearing = {}
    BY DEF AskStages
  <2>4. Cardinality(DOMAIN queue) = Cardinality({queue[n] : n \in DOMAIN queue})
    BY <1>1, QueueIsOnce
  <2> HIDE DEF ConfirmInit
  <2> QED BY <1>1, <1>2, <2>1, <2>2, <2>3, <2>4 DEF ConfirmTypeOK, TokenRow, AskStages, Asking
<1>4. TokensSpent
  <2>1. \A c : Spent(c) = {} BY DEF Spent
  <2>2. Cardinality({}) = 0 BY FS_EmptySet
  <2>3. ASSUME NEW c \in Command PROVE runs[c] <= Cardinality(Spent(c))
    <3>1. runs[c] = 0 /\ Cardinality(Spent(c)) = 0 BY <2>1, <2>2
    <3> QED BY <3>1
  <2> QED BY <1>2, <2>3 DEF TokensSpent
<1>5. ClearingEnds /\ DecidingBegan /\ EmittingKnown /\ SenderWaits
  BY DEF ClearingEnds, DecidingBegan, EmittingKnown, SenderWaits
<1>6. ApprovalsQueued BY <1>1, <1>2 DEF ApprovalsQueued
<1> QED BY <1>3, <1>4, <1>5, <1>6 DEF ConfirmInv

\* A purge ends tokens whose time is over.
LEMMA PurgedEnds ==
  ASSUME ConfirmTypeOK
  PROVE  /\ Purged \in [Ids -> TokenRow] /\ Expired \subseteq Ids
         /\ \A i \in Expired : Pending(i) /\ Purged[i].phase = "gone" /\ Purged[i].cmd = token[i].cmd
         /\ \A i \in Ids \ Expired : Purged[i] = token[i]
<1>1. \A i \in Ids : token[i] \in TokenRow BY DEF ConfirmTypeOK, TokenRow
<1>2. \A i \in Ids : /\ [token[i] EXCEPT !.phase = "gone"] \in TokenRow
                     /\ [token[i] EXCEPT !.phase = "gone"].phase = "gone"
                     /\ [token[i] EXCEPT !.phase = "gone"].cmd = token[i].cmd
  BY <1>1 DEF TokenRow
<1>3. /\ Expired \subseteq Ids /\ \A i \in Expired : Pending(i) BY DEF Expired
<1>4. \A i \in Ids : Purged[i] = IF i \in Expired THEN [token[i] EXCEPT !.phase = "gone"] ELSE token[i]
  BY DEF Purged
<1>5. Purged \in [Ids -> TokenRow] BY <1>1, <1>2 DEF Purged
<1> QED BY <1>2, <1>3, <1>4, <1>5

\* Steps on tokens: what is queued or leaves is right if what ends while it is queued is on
\* its way out or known, and what opens will be queued.
LEMMA TokenSteps ==
  ASSUME ConfirmInv, UNCHANGED <<askVars, queue>>,
         clearing \subseteq clearing', stale \subseteq stale',
         \A m \in clearing' \ clearing : m.ask = 0 /\ m.id \in Ids /\ TokenUsed(m.id)',
         \A i \in Ids : Forward(i) \/ (token[i].phase = "new" /\ token'[i].phase = "open"
                                       /\ i \in emitting'),
         emitting \subseteq emitting', emitting' \ emitting \subseteq {i \in Ids : ~TokenUsed(i)'},
         \A d \in deciding' : d \in deciding \/ token[d.id].phase # "new",
         deciding' \subseteq [id : Ids, yes : BOOLEAN],
         \A i \in Ids : token[i].phase = "open" /\ token'[i].phase # "open" =>
           i \in stale' \/ ([id |-> i, ask |-> 0] \in clearing' /\ i \notin emitting)
  PROVE  ClearingEnds' /\ DecidingBegan' /\ EmittingKnown' /\ SenderWaits' /\ ApprovalsQueued'
<1> USE ConfirmConstants DEF ConfirmInv
<1>1. \A i \in Ids : TokenUsed(i) => TokenUsed(i)' BY DEF TokenUsed, Forward, ConfirmTypeOK
<1>2. ClearingEnds' BY <1>1 DEF ClearingEnds
<1>3. \A i \in Ids : token[i].phase # "new" => token'[i].phase # "new" BY DEF Forward
<1>4. DecidingBegan' BY <1>3 DEF DecidingBegan, ConfirmTypeOK
<1>5. Ids \cap Asker = {} /\ Ids \cap Asked = {} BY DEF Ids
<1>6. EmittingKnown' BY <1>5 DEF EmittingKnown, askVars, TokenUsed, Forward
<1>7. \A x : Queued(x)' <=> Queued(x) BY DEF Queued
<1>8. \A i \in Ids : token'[i].phase = "open" /\ i \notin emitting' => Queued(i)'
  BY <1>7 DEF ApprovalsQueued, Forward
<1>9. /\ \A e \in Asker : approval'[e] = "waiting" /\ e \notin (emitting \cup robbed)' => Queued(AskedBy[e])'
      /\ \A t \in Asked : Queued(t)' => \E e \in Asker : AskedBy[e] = t /\ approval'[e] \in Asking
  BY <1>7 DEF ApprovalsQueued, askVars, Asking
<1>11. SenderWaits' BY DEF SenderWaits, askVars
<1>10. \A i \in Ids : Queued(i)' /\ token'[i].phase \notin {"new", "open"}
                      => [id |-> i, ask |-> 0] \in clearing' \/ i \in stale'
  BY <1>7 DEF ApprovalsQueued, Forward
<1> QED BY <1>2, <1>4, <1>6, <1>8, <1>9, <1>10, <1>11 DEF ApprovalsQueued, Asking

(* Every step of blocking, deciding, expiring and notifying keeps it. *)
LEMMA ConfirmStepInv == ConfirmInv /\ [ConfirmNext]_confirmVars => ConfirmInv'
<1> SUFFICES ASSUME ConfirmInv, [ConfirmNext]_confirmVars PROVE ConfirmInv' OBVIOUS
<1> USE ConfirmConstants
<1>i. /\ ConfirmTypeOK /\ TokensSpent /\ ClearingEnds /\ DecidingBegan /\ EmittingKnown
      /\ SenderWaits /\ ApprovalsQueued
      /\ token \in [Ids -> TokenRow] /\ Ids \cap Asker = {} /\ Ids \cap Asked = {} /\ IsFiniteSet(Ids)
  <2>1. Ids \cap Asker = {} /\ Ids \cap Asked = {} BY DEF Ids
  <2>2. IsFiniteSet(Ids) BY FS_Interval DEF Ids
  <2>3. token \in [Ids -> TokenRow] BY DEF ConfirmInv, ConfirmTypeOK, TokenRow
  <2> QED BY <2>1, <2>2, <2>3 DEF ConfirmInv
<1> DEFINE Queues == ClearingEnds /\ DecidingBegan /\ EmittingKnown /\ SenderWaits /\ ApprovalsQueued
<1>1. CASE UNCHANGED confirmVars
  BY <1>1, <1>i DEF confirmVars, ConfirmInv, ConfirmTypeOK, TokensSpent, Spent, ClearingEnds,
     DecidingBegan, EmittingKnown, SenderWaits, ApprovalsQueued, Queued, TokenUsed
<1>2. ASSUME NEW c \in Command, TakeAllowance(c) PROVE ConfirmInv'
  <2>1. /\ stale' = stale \cup (Expired \cap emitting)
        /\ UNCHANGED <<deciding, agreed, askVars, emitting, queue>>
    BY <1>2 DEF TakeAllowance
  <2>2. CASE /\ Usable(c) = {} /\ blocked[c] < Cardinality({i \in Ids : token[i].phase = "new"})
             /\ blocked' = [blocked EXCEPT ![c] = @ + 1]
             /\ token' = Purged /\ ClearingAll(Expired) /\ UNCHANGED runs
    <3>1. \A i \in Ids : Forward(i) /\ token'[i].phase \in {"gone", token[i].phase}
      BY <2>2, <1>i, PurgedEnds DEF Forward, Pending
    <3>2. TokensSpent'
      BY <2>1, <2>2, <3>1, <1>i, SpentGrows DEF TokensSpent
    <3>3. clearing' = clearing \cup [id : Expired, ask : {0}] BY <2>2 DEF ClearingAll
    <3>4. \A i \in Expired : TokenUsed(i)' BY <2>2, <1>i, PurgedEnds DEF TokenUsed
    <3>5. \A i \in Ids : token[i].phase = "open" /\ token'[i].phase # "open" =>
            i \in stale' \/ ([id |-> i, ask |-> 0] \in clearing' /\ i \notin emitting)
      BY <2>1, <2>2, <3>3, <1>i, PurgedEnds
    <3>6. Queues' BY <2>1, <3>1, <3>3, <3>4, <3>5, <1>i, PurgedEnds, TokenSteps
                  DEF ConfirmTypeOK
    <3>7. (blocked \in [Command -> 0..MaxTokens])'
      <4>1. {i \in Ids : token[i].phase = "new"} \in SUBSET Ids OBVIOUS
      <4>2. Cardinality(Ids) = MaxTokens BY FS_Interval DEF Ids
      <4>3. Cardinality({i \in Ids : token[i].phase = "new"}) <= MaxTokens
            /\ Cardinality({i \in Ids : token[i].phase = "new"}) \in Nat
        BY <4>1, <4>2, <1>i, FS_Subset, FS_CardinalityType
      <4>4. blocked[c] + 1 \in 0..MaxTokens BY <2>2, <4>3, <1>i DEF ConfirmTypeOK
      <4> QED BY <2>2, <4>4, <1>i DEF ConfirmTypeOK
    <3>8. ConfirmTypeOK'
      <4>1. token' \in [Ids -> TokenRow] /\ Expired \subseteq Ids BY <2>2, <1>i, PurgedEnds
      <4>2. (clearing \subseteq [id : Ids \cup Asked, ask : 0..MaxAsks])'
        BY <3>3, <4>1, <1>i DEF ConfirmTypeOK
      <4> QED BY <2>1, <3>7, <4>1, <4>2, <1>i, QueueStays, TypesTogether
              DEF ConfirmTypeOK, AskStages, Asking, askVars
    <3> QED BY <3>2, <3>6, <3>8 DEF ConfirmInv
  <2>3. ASSUME NEW i \in Usable(c), token' = [Purged EXCEPT ![i].phase = "consumed"],
               runs' = [runs EXCEPT ![c] = @ + 1], ClearingAll(Expired \cup {i}), UNCHANGED blocked
        PROVE ConfirmInv'
    <3>0. /\ i \in Ids /\ token[i].phase = "confirmed" /\ token[i].cmd = c /\ i \notin Expired
          /\ Purged[i] = token[i] /\ i \in agreed
      BY <1>i, PurgedEnds DEF Usable, Expired, TokensSpent
    <3>a. token'[i] \in TokenRow /\ token'[i].phase = "consumed" /\ token'[i].cmd = c
          /\ token' = [Purged EXCEPT ![i] = token'[i]]
      <4> DEFINE r == [Purged[i] EXCEPT !.phase = "consumed"]
      <4>1. r \in TokenRow /\ r.phase = "consumed" /\ r.cmd = c BY <3>0, <1>i DEF TokenRow
      <4>2. token' = [Purged EXCEPT ![i] = r] BY <2>3
      <4> QED BY <4>1, <4>2, <3>0, <1>i, PurgedEnds
    <3>1. token' \in [Ids -> TokenRow] /\ \A j \in Ids \ {i} : token'[j] = Purged[j]
      BY <3>a, <1>i, PurgedEnds
    <3>2. \A j \in Ids : Forward(j) /\ token'[j].phase \in {"gone", "consumed", token[j].phase}
      BY <3>0, <3>a, <3>1, <1>i, PurgedEnds DEF Forward, Pending
    <3>3. clearing' = clearing \cup [id : Expired \cup {i}, ask : {0}]
      BY <2>3 DEF ClearingAll
    <3>4. \A j \in Expired \cup {i} : TokenUsed(j)'
      BY <3>0, <3>a, <3>1, <1>i, PurgedEnds DEF TokenUsed
    <3>5. \A j \in Ids : token[j].phase = "open" /\ token'[j].phase # "open" =>
            j \in stale' \/ ([id |-> j, ask |-> 0] \in clearing' /\ j \notin emitting)
      BY <2>1, <3>0, <3>1, <3>3, <1>i, PurgedEnds
    <3>e. Expired \cup {i} \subseteq Ids BY <3>0, <1>i, PurgedEnds
    <3>6. Queues' BY <2>1, <3>2, <3>3, <3>4, <3>5, <3>e, <1>i, TokenSteps DEF ConfirmTypeOK
    <3>7. ConfirmTypeOK'
      <4>2. (clearing \subseteq [id : Ids \cup Asked, ask : 0..MaxAsks])'
        BY <3>3, <3>e, <1>i DEF ConfirmTypeOK
      <4> QED BY <2>1, <2>3, <3>1, <4>2, <1>i, QueueStays, TypesTogether
              DEF ConfirmTypeOK, AskStages, Asking, askVars
    <3>8. ASSUME NEW d \in Command PROVE runs'[d] <= Cardinality(Spent(d)')
      <4>1. Spent(d) \subseteq Spent(d)' /\ Spent(d)' \in SUBSET Ids
        BY <2>1, <3>2, <1>i DEF Spent, TokensSpent, Forward
      <4>2. /\ IsFiniteSet(Spent(d)') /\ IsFiniteSet(Spent(d)) /\ Cardinality(Spent(d)') \in Nat
            /\ Cardinality(Spent(d)) \in Nat /\ Cardinality(Spent(d)) <= Cardinality(Spent(d)')
            /\ (Cardinality(Spent(d)') = Cardinality(Spent(d)) => Spent(d) = Spent(d)')
        BY <4>1, <1>i, FS_Subset, FS_CardinalityType
      <4>3. CASE d = c
        <5>1. i \in Spent(c)' /\ i \notin Spent(c) BY <2>1, <3>0, <3>a DEF Spent
        <5>2. Cardinality(Spent(c)) + 1 <= Cardinality(Spent(c)') BY <4>2, <4>3, <5>1
        <5>3. runs'[c] = runs[c] + 1 /\ runs[c] <= Cardinality(Spent(c)) /\ runs[c] \in Nat
          BY <2>3, <1>i DEF TokensSpent
        <5> QED BY <4>2, <4>3, <5>2, <5>3
      <4>4. CASE d # c
        <5>1. runs'[d] = runs[d] /\ runs[d] <= Cardinality(Spent(d)) /\ runs[d] \in Nat
          BY <2>3, <4>4, <1>i DEF TokensSpent
        <5> QED BY <4>2, <5>1
      <4> QED BY <4>3, <4>4
    <3>9. TokensSpent'
      <4>1. runs' \in [Command -> Nat] BY <2>3, <1>i DEF TokensSpent
      <4>2. \A j \in Ids : /\ token'[j].phase \in {"confirmed", "consumed"} => j \in agreed
                           /\ token'[j].phase = "new" => j \notin agreed
        <5>1. \A j \in Ids \ {i} : token'[j].phase \in {"gone", token[j].phase}
                               /\ (token'[j].phase = "new" => token[j].phase = "new")
          BY <3>1, <1>i, PurgedEnds
        <5> QED BY <3>0, <3>a, <5>1, <1>i DEF TokensSpent
      <4> QED BY <2>1, <3>8, <4>1, <4>2, <1>i DEF TokensSpent
    <3> QED BY <3>6, <3>7, <3>9 DEF ConfirmInv
  <2> QED BY <1>2, <2>2, <2>3 DEF TakeAllowance
<1>3. ASSUME NEW c \in Command, RegisterPending(c) PROVE ConfirmInv'
  <2>1. /\ blocked[c] > 0 /\ blocked' = [blocked EXCEPT ![c] = @ - 1]
        /\ stale' = stale \cup Expired
        /\ UNCHANGED <<deciding, runs, agreed, askVars, clearing, queue>>
    BY <1>3 DEF RegisterPending
  <2>2. PICK i \in Ids : /\ token[i].phase = "new" /\ emitting' = emitting \cup {i}
                        /\ token' = [Purged EXCEPT ![i] = [cmd |-> c, phase |-> "open", expired |-> FALSE]]
    BY <1>3 DEF RegisterPending
  <2>3. i \notin Expired BY <2>2 DEF Expired, Pending
  <2>4. [cmd |-> c, phase |-> "open", expired |-> FALSE] \in TokenRow BY DEF TokenRow
  <2>5. /\ token' \in [Ids -> TokenRow] /\ token'[i].phase = "open"
        /\ \A j \in Ids \ {i} : token'[j] = Purged[j]
    BY <2>2, <2>4, <1>i, PurgedEnds
  <2>6. \A j \in Ids \ {i} : Forward(j) /\ token'[j].phase \in {"gone", token[j].phase}
    BY <2>5, <1>i, PurgedEnds DEF Forward, Pending
  <2>7. TokensSpent' BY <2>1, <2>2, <2>5, <2>6, <1>i, SpentGrows DEF TokensSpent
  <2>8. \A j \in Ids : token[j].phase = "open" /\ token'[j].phase # "open" => j \in stale'
    BY <2>1, <2>2, <2>5, <1>i, PurgedEnds
  <2>9. i \notin {j \in Ids : TokenUsed(j)'} BY <2>5 DEF TokenUsed
  <2>10. Queues' BY <2>1, <2>2, <2>5, <2>6, <2>8, <2>9, <1>i, TokenSteps DEF ConfirmTypeOK
  <2>11. ConfirmTypeOK'
    <3>1. blocked[c] - 1 \in 0..MaxTokens BY <2>1, <1>i DEF ConfirmTypeOK
    <3>2. (blocked \in [Command -> 0..MaxTokens])' BY <2>1, <3>1, <1>i DEF ConfirmTypeOK
    <3> QED BY <2>1, <2>2, <2>5, <3>2, <1>i, QueueStays, TypesTogether
            DEF ConfirmTypeOK, AskStages, Asking, askVars
  <2> QED BY <2>7, <2>10, <2>11 DEF ConfirmInv
<1>4. ASSUME NEW i \in Ids, Lapse(i) PROVE ConfirmInv'
  <2>1. /\ Pending(i) /\ token' = [token EXCEPT ![i].expired = TRUE]
        /\ UNCHANGED <<blocked, deciding, runs, agreed, askVars, emitting, clearing, queue, stale>>
    BY <1>4 DEF Lapse
  <2>2. token' \in [Ids -> TokenRow] /\ \A j \in Ids : token'[j].cmd = token[j].cmd
                                                 /\ token'[j].phase = token[j].phase
    BY <2>1, <1>i DEF TokenRow
  <2>3. \A j \in Ids : Forward(j) BY <2>2 DEF Forward
  <2>4. TokensSpent' BY <2>1, <2>2, <2>3, <1>i, SpentGrows DEF TokensSpent
  <2>5. Queues' BY <2>1, <2>2, <2>3, <1>i, TokenSteps DEF ConfirmTypeOK
  <2>6. ConfirmTypeOK' BY <2>1, <2>2, <1>i, QueueStays, TypesTogether DEF ConfirmTypeOK, AskStages, Asking, askVars
  <2> QED BY <2>4, <2>5, <2>6 DEF ConfirmInv
<1>5. ASSUME NEW i \in Ids, NEW yes \in BOOLEAN, ValidateHash(i, yes) PROVE ConfirmInv'
  <2>1. /\ Pending(i) /\ deciding' = deciding \cup {[id |-> i, yes |-> yes]}
        /\ UNCHANGED <<token, blocked, runs, agreed, askVars, emitting, clearing, queue, stale>>
    BY <1>5 DEF ValidateHash
  <2>2. \A j \in Ids : Forward(j) BY <2>1 DEF Forward
  <2>3. token[i].phase # "new" BY <2>1 DEF Pending
  <2>4. deciding' \subseteq [id : Ids, yes : BOOLEAN] BY <2>1, <1>i DEF ConfirmTypeOK
  <2>5. TokensSpent' BY <2>1, <2>2, <1>i, SpentGrows DEF TokensSpent
  <2>6. \A d \in deciding' : d \in deciding \/ token[d.id].phase # "new" BY <2>1, <2>3
  <2>7. Queues' BY <2>1, <2>2, <2>4, <2>6, <1>i, TokenSteps
  <2>8. ConfirmTypeOK' BY <2>1, <2>4, <1>i, QueueStays, TypesTogether DEF ConfirmTypeOK, AskStages, Asking, askVars
  <2> QED BY <2>5, <2>7, <2>8 DEF ConfirmInv
<1>6. CASE ListPending
  <2>1. /\ token' = Purged /\ stale' = stale \cup Expired
        /\ UNCHANGED <<blocked, deciding, runs, agreed, askVars, emitting, clearing, queue>>
    BY <1>6 DEF ListPending
  <2>2. token' \in [Ids -> TokenRow] BY <2>1, <1>i, PurgedEnds
  <2>3. \A j \in Ids : Forward(j) /\ token'[j].phase \in {"gone", token[j].phase}
    BY <2>1, <1>i, PurgedEnds DEF Forward, Pending
  <2>4. TokensSpent' BY <2>1, <2>3, <1>i, SpentGrows DEF TokensSpent
  <2>5. \A j \in Ids : token[j].phase = "open" /\ token'[j].phase # "open" => j \in stale'
    BY <2>1, <1>i, PurgedEnds
  <2>6. Queues' BY <2>1, <2>3, <2>5, <1>i, TokenSteps DEF ConfirmTypeOK
  <2>7. ConfirmTypeOK' BY <2>1, <2>2, <1>i, QueueStays, TypesTogether DEF ConfirmTypeOK, AskStages, Asking, askVars
  <2> QED BY <2>4, <2>6, <2>7 DEF ConfirmInv
<1>7. ASSUME NEW d \in deciding, Decide(d) PROVE ConfirmInv'
  <2> DEFINE i == d.id
             r == IF d.yes THEN Confirmed(token[i]) ELSE [token[i] EXCEPT !.phase = "gone"]
  <2>1. /\ deciding' = deciding \ {d} /\ token' = [token EXCEPT ![i] = r]
        /\ agreed' = (IF token'[i].phase = "confirmed" THEN agreed \cup {i} ELSE agreed)
        /\ stale' = (IF i \in emitting THEN stale \cup {i} ELSE stale)
        /\ clearing' = clearing \cup {[id |-> i, ask |-> 0]}
        /\ UNCHANGED <<blocked, runs, askVars, emitting, queue>>
    BY <1>7 DEF Decide, Clearing
  <2>2. i \in Ids /\ token[i] \in TokenRow /\ token[i].phase # "new"
    BY <1>i DEF ConfirmTypeOK, DecidingBegan
  <2>3. /\ r \in TokenRow /\ r.cmd = token[i].cmd /\ r.phase \notin {"new", "open"}
        /\ (token[i].phase = "gone" => r.phase = "gone")
        /\ (token[i].phase = "consumed" => r.phase \in {"consumed", "gone"})
        /\ (r.phase = "consumed" => token[i].phase = "consumed")
    <3>1. CASE d.yes BY <2>2, <3>1 DEF Confirmed, TokenRow
    <3>2. CASE ~d.yes BY <2>2, <3>2 DEF TokenRow
    <3> QED BY <3>1, <3>2
  <2> HIDE DEF r
  <2>4. /\ token' \in [Ids -> TokenRow] /\ token'[i] = r
        /\ \A j \in Ids \ {i} : token'[j] = token[j]
    BY <2>1, <2>2, <2>3, <1>i
  <2>5. \A j \in Ids : Forward(j) BY <2>2, <2>3, <2>4 DEF Forward
  <2>6. TokensSpent'
    <3>1. agreed' \subseteq Ids /\ agreed \subseteq agreed' BY <2>1, <2>2, <1>i DEF TokensSpent
    <3>2. \A j \in Ids : token'[j].phase \in {"confirmed", "consumed"} => j \in agreed'
      BY <2>1, <2>3, <2>4, <1>i DEF TokensSpent
    <3> QED BY <2>1, <2>5, <3>1, <3>2, <1>i, SpentGrows
  <2>7. TokenUsed(i)' BY <2>3, <2>4 DEF TokenUsed
  <2>8. \A j \in Ids : token[j].phase = "open" /\ token'[j].phase # "open" =>
          j \in stale' \/ ([id |-> j, ask |-> 0] \in clearing' /\ j \notin emitting)
    BY <2>1, <2>4
  <2>9. Queues' BY <2>1, <2>2, <2>5, <2>7, <2>8, <1>i, TokenSteps DEF ConfirmTypeOK
  <2>10. ConfirmTypeOK' BY <2>1, <2>2, <2>4, <1>i, QueueStays, TypesTogether
                        DEF ConfirmTypeOK, AskStages, Asking, askVars
  <2> QED BY <2>6, <2>9, <2>10 DEF ConfirmInv
<1>t. ASSUME UNCHANGED tokenVars PROVE TokensSpent'
  BY <1>t, <1>i DEF tokenVars, TokensSpent, Spent
<1>s. \A e \in Asker : AskedBy[e] \in Asked OBVIOUS
<1>8. ASSUME NEW x \in emitting, EmitPending(x) PROVE ConfirmInv'
  <2> DEFINE id == IF x \in Asker THEN AskedBy[x] ELSE x
  <2>1. /\ emitting' = emitting \ {x} /\ queue' = (IF Queued(id) THEN queue ELSE Append(queue, id))
        /\ UNCHANGED <<tokenVars, askVars, clearing, stale>>
    BY <1>8 DEF EmitPending
  <2>2. id \in Ids \cup Asked /\ x \in Ids \cup Asker BY <1>i, <1>s DEF ConfirmTypeOK
  <2>3. OnceQueued(queue') /\ \A y : Queued(y)' <=> Queued(y) \/ y = id
    BY <2>1, <2>2, <1>i, QueueJoined
  <2>4. /\ x \in Ids => id = x /\ id \notin Asked
        /\ x \in Asker => id \notin Ids /\ approval[x] \in Asking
    BY <2>2, <1>i, <1>s DEF EmittingKnown
  <2> HIDE DEF id
  <2>5. ApprovalsQueued'
    <3>1. \A i \in Ids : token'[i].phase = "open" /\ i \notin emitting' => Queued(i)'
      BY <2>1, <2>3, <2>4, <1>i DEF ApprovalsQueued, tokenVars
    <3>2. \A e \in Asker : approval'[e] = "waiting" /\ e \notin (emitting \cup robbed)' => Queued(AskedBy[e])'
      BY <2>1, <2>3, <1>i DEF ApprovalsQueued, askVars, id
    <3>3. \A i \in Ids : Queued(i)' /\ token'[i].phase \notin {"new", "open"}
                          => [id |-> i, ask |-> 0] \in clearing' \/ i \in stale'
      BY <2>1, <2>2, <2>3, <2>4, <1>i DEF ApprovalsQueued, EmittingKnown, TokenUsed, tokenVars
    <3>4. \A t \in Asked : Queued(t)' => \E e \in Asker : AskedBy[e] = t /\ approval'[e] \in Asking
      <4>1. \A t \in Asked : Queued(t) => \E e \in Asker : AskedBy[e] = t /\ approval[e] \in Asking
        BY <1>i DEF ApprovalsQueued, Asking
      <4>2. id \in Asked => x \in Asker /\ AskedBy[x] = id BY <2>2, <2>4 DEF id
      <4> QED BY <2>1, <2>3, <2>4, <4>1, <4>2 DEF askVars
    <3> QED BY <3>1, <3>2, <3>3, <3>4 DEF ApprovalsQueued, Asking
  <2>6. ClearingEnds' /\ DecidingBegan' /\ EmittingKnown' /\ SenderWaits'
    BY <2>1, <1>i DEF ClearingEnds, DecidingBegan, EmittingKnown, SenderWaits, TokenUsed, tokenVars, askVars
  <2>7. ConfirmTypeOK'
    BY <2>1, <2>3, <1>i, TypesTogether DEF ConfirmTypeOK, AskStages, Asking, tokenVars, askVars
  <2> QED BY <2>1, <2>5, <2>6, <2>7, <1>t DEF ConfirmInv
<1>9. ASSUME NEW m \in clearing, ClearPending(m) PROVE ConfirmInv'
  <2>1. /\ clearing' = clearing \ {m} /\ queue' = Cleared(m.id) /\ robbed' = robbed \cup Robbed(m.id)
        /\ UNCHANGED <<tokenVars, approval, sender, asks, emitting, stale>>
    BY <1>9 DEF ClearPending
  <2>2. OnceQueued(queue') /\ \A y : Queued(y)' <=> Queued(y) /\ y # m.id
    BY <2>1, <1>i, QueueCleared
  <2>3. \A i \in Ids : token[i].phase = "open" => m.id # i BY <1>i DEF ClearingEnds, TokenUsed
  <2>4. ApprovalsQueued' BY <2>1, <2>2, <2>3, <1>i DEF ApprovalsQueued, Robbed, tokenVars
  <2>5. ClearingEnds' /\ DecidingBegan' /\ EmittingKnown' /\ SenderWaits'
    BY <2>1, <1>i DEF ClearingEnds, DecidingBegan, EmittingKnown, SenderWaits, TokenUsed, tokenVars
  <2>6. ConfirmTypeOK' BY <2>1, <2>2, <1>i, TypesTogether DEF ConfirmTypeOK, AskStages, Asking, tokenVars
  <2> QED BY <2>1, <2>4, <2>5, <2>6, <1>t DEF ConfirmInv
<1>10. ASSUME NEW e \in Asker, AskApproval(e) PROVE ConfirmInv'
  <2>1. /\ asks < MaxAsks /\ asks' = asks + 1
        /\ approval[e] = "idle" /\ approval' = [approval EXCEPT ![e] = "waiting"]
        /\ sender' = [sender EXCEPT ![AskedBy[e]] = e]
        /\ emitting' = emitting \cup {e} /\ robbed' = robbed \ {e}
        /\ UNCHANGED <<tokenVars, clearing, queue, stale>>
    BY <1>10 DEF AskApproval
  <2>2. OnceQueued(queue') /\ \A y : Queued(y)' <=> Queued(y) BY <2>1, <1>i, QueueStays
  <2>3. asks' \in 0..MaxAsks BY <2>1, <1>i DEF ConfirmTypeOK
  <2>4. ConfirmTypeOK'
    BY <2>1, <2>2, <2>3, <1>i, <1>s, TypesTogether DEF ConfirmTypeOK, AskStages, Asking, tokenVars
  <2>5. ApprovalsQueued' BY <2>1, <2>2, <1>i DEF ApprovalsQueued, tokenVars, ConfirmTypeOK
  <2>6. ClearingEnds' /\ DecidingBegan' /\ EmittingKnown'
    BY <2>1, <1>i
       DEF ClearingEnds, DecidingBegan, EmittingKnown, TokenUsed, Asking, tokenVars, ConfirmTypeOK
  <2>7. SenderWaits' BY <2>1, <1>i, <1>s DEF SenderWaits, ConfirmTypeOK
  <2> QED BY <2>1, <2>4, <2>5, <2>6, <2>7, <1>t DEF ConfirmInv
<1>11. ASSUME NEW t \in Asked, ResolveVote(t) PROVE ConfirmInv'
  <2> DEFINE e == sender[t]
  <2>1. PICK answer \in {"granted", "denied"} :
          /\ sender[t] # NoAsker /\ sender' = [sender EXCEPT ![t] = NoAsker]
          /\ approval' = [approval EXCEPT ![e] = answer]
          /\ clearing' = clearing \cup {[id |-> t, ask |-> asks]}
          /\ UNCHANGED <<tokenVars, asks, emitting, queue, robbed, stale>>
    BY <1>11 DEF ResolveVote, Clearing
  <2>2. e \in Asker /\ AskedBy[e] = t /\ approval[e] = "waiting"
    BY <2>1, <1>i DEF SenderWaits, ConfirmTypeOK
  <2> HIDE DEF e
  <2>3. OnceQueued(queue') /\ \A y : Queued(y)' <=> Queued(y) BY <2>1, <1>i, QueueStays
  <2>4. (clearing \subseteq [id : Ids \cup Asked, ask : 0..MaxAsks])' BY <2>1, <1>i DEF ConfirmTypeOK
  <2>5. ConfirmTypeOK'
    BY <2>1, <2>2, <2>3, <2>4, <1>i, TypesTogether DEF ConfirmTypeOK, AskStages, Asking, tokenVars
  <2>6. ApprovalsQueued' BY <2>1, <2>2, <2>3, <1>i DEF ApprovalsQueued, tokenVars, ConfirmTypeOK
  <2>7. ClearingEnds' /\ DecidingBegan' /\ EmittingKnown'
    BY <2>1, <2>2, <1>i
       DEF ClearingEnds, DecidingBegan, EmittingKnown, TokenUsed, Asking, tokenVars, ConfirmTypeOK
  <2>8. SenderWaits' BY <2>1, <2>2, <1>i DEF SenderWaits, ConfirmTypeOK
  <2> QED BY <2>1, <2>5, <2>6, <2>7, <2>8, <1>t DEF ConfirmInv
<1>12. ASSUME NEW e \in Asker, ApprovalTimeout(e) PROVE ConfirmInv'
  <2>1. /\ approval[e] = "waiting" /\ approval' = [approval EXCEPT ![e] = "over"]
        /\ sender' = [sender EXCEPT ![AskedBy[e]] = NoAsker]
        /\ UNCHANGED <<tokenVars, asks, emitting, clearing, queue, robbed, stale>>
    BY <1>12 DEF ApprovalTimeout
  <2>2. OnceQueued(queue') /\ \A y : Queued(y)' <=> Queued(y) BY <2>1, <1>i, QueueStays
  <2>3. ConfirmTypeOK'
    BY <2>1, <2>2, <1>i, TypesTogether DEF ConfirmTypeOK, AskStages, Asking, tokenVars
  <2>4. ApprovalsQueued' BY <2>1, <2>2, <1>i DEF ApprovalsQueued, tokenVars, ConfirmTypeOK
  <2>5. ClearingEnds' /\ DecidingBegan' /\ EmittingKnown'
    BY <2>1, <1>i
       DEF ClearingEnds, DecidingBegan, EmittingKnown, TokenUsed, Asking, tokenVars, ConfirmTypeOK
  <2>6. SenderWaits' BY <2>1, <1>i, <1>s DEF SenderWaits, ConfirmTypeOK
  <2> QED BY <2>1, <2>3, <2>4, <2>5, <2>6, <1>t DEF ConfirmInv
\* A clear of its task by an executor that no longer asks, or stops asking with it.
<1>c. ASSUME NEW e \in Asker, NEW s \in {"idle", "failing", "failed", approval[e]},
             approval[e] \in {"granted", "denied", "over", "failing"},
             approval' = [approval EXCEPT ![e] = s], ClearTask(e), e \notin emitting
      PROVE  ConfirmInv'
  <2>1. /\ queue' = Cleared(AskedBy[e]) /\ robbed' = robbed \cup Robbed(AskedBy[e])
        /\ UNCHANGED <<tokenVars, sender, asks, emitting, clearing, stale>>
    BY <1>c DEF ClearTask
  <2>2. OnceQueued(queue') /\ \A y : Queued(y)' <=> Queued(y) /\ y # AskedBy[e]
    BY <2>1, <1>i, QueueCleared
  <2>3. ConfirmTypeOK'
    BY <2>1, <2>2, <1>c, <1>i, TypesTogether DEF ConfirmTypeOK, AskStages, Asking, tokenVars
  <2>4. ApprovalsQueued'
    BY <2>1, <2>2, <1>c, <1>i, <1>s DEF ApprovalsQueued, Robbed, tokenVars, ConfirmTypeOK
  <2>5. ClearingEnds' /\ DecidingBegan' /\ EmittingKnown'
    BY <2>1, <1>c, <1>i
       DEF ClearingEnds, DecidingBegan, EmittingKnown, TokenUsed, tokenVars, ConfirmTypeOK
  <2>6. SenderWaits' BY <2>1, <1>c, <1>i DEF SenderWaits, ConfirmTypeOK
  <2> QED BY <2>1, <2>3, <2>4, <2>5, <2>6, <1>t DEF ConfirmInv
<1>13. ASSUME NEW e \in Asker, EmitCleared(e) PROVE ConfirmInv'
  <2>1. approval = [approval EXCEPT ![e] = approval[e]] BY <1>i DEF ConfirmTypeOK
  <2>2. PICK s \in {"idle", "failing", approval[e]} : approval' = [approval EXCEPT ![e] = s]
    BY <1>13, <2>1 DEF EmitCleared
  <2> QED BY <2>2, <1>13, <1>c DEF EmitCleared
<1>14. ASSUME NEW e \in Asker, Fail(e) PROVE ConfirmInv'
  <2>1. /\ approval[e] = "idle" /\ approval' = [approval EXCEPT ![e] = "failing"]
        /\ UNCHANGED <<tokenVars, sender, asks, emitting, clearing, queue, robbed, stale>>
    BY <1>14 DEF Fail
  <2>2. OnceQueued(queue') /\ \A y : Queued(y)' <=> Queued(y) BY <2>1, <1>i, QueueStays
  <2>3. ConfirmTypeOK'
    BY <2>1, <2>2, <1>i, TypesTogether DEF ConfirmTypeOK, AskStages, Asking, tokenVars
  <2>4. ApprovalsQueued' BY <2>1, <2>2, <1>i DEF ApprovalsQueued, tokenVars, ConfirmTypeOK
  <2>5. ClearingEnds' /\ DecidingBegan' /\ EmittingKnown'
    BY <2>1, <1>i
       DEF ClearingEnds, DecidingBegan, EmittingKnown, TokenUsed, Asking, tokenVars, ConfirmTypeOK
  <2>6. SenderWaits' BY <2>1, <1>i DEF SenderWaits, ConfirmTypeOK
  <2> QED BY <2>1, <2>3, <2>4, <2>5, <2>6, <1>t DEF ConfirmInv
<1>15. ASSUME NEW e \in Asker, ClearFailed(e) PROVE ConfirmInv'
  <2>1. e \notin emitting BY <1>15, <1>i DEF ClearFailed, EmittingKnown, Asking
  <2>2. approval = [approval EXCEPT ![e] = approval[e]] BY <1>i DEF ConfirmTypeOK
  <2>3. PICK s \in {"failed", approval[e]} : approval' = [approval EXCEPT ![e] = s]
    BY <1>15, <2>2 DEF ClearFailed
  <2> QED BY <2>1, <2>3, <1>15, <1>c DEF ClearFailed
<1> QED BY <1>1, <1>2, <1>3, <1>4, <1>5, <1>6, <1>7, <1>8, <1>9, <1>10, <1>11, <1>12, <1>13, <1>14,
           <1>15 DEF ConfirmNext

(* However clicks, purges, timeouts and blocked attempts interleave, a      *)
(* command runs at most as often as tokens of its own were confirmed.      *)
THEOREM ConfirmedRunsOnce == ConfirmSpec => []OneRunPerConfirmation
<1>1. ASSUME ConfirmInv, NEW c \in Command
      PROVE runs[c] <= Cardinality({i \in agreed : token[i].cmd = c})
  <2> DEFINE A == {i \in agreed : token[i].cmd = c}
  <2>1. TokensSpent BY <1>1 DEF ConfirmInv
  <2>2. IsFiniteSet(Ids) BY ConfirmConstants, FS_Interval DEF Ids
  <2>3. A \in SUBSET Ids BY <2>1 DEF TokensSpent
  <2>4. Spent(c) \in SUBSET A BY DEF Spent
  <2>5. IsFiniteSet(A) /\ Cardinality(A) \in Nat BY <2>2, <2>3, FS_Subset, FS_CardinalityType
  <2>6. Cardinality(Spent(c)) <= Cardinality(A) /\ Cardinality(Spent(c)) \in Nat
    BY <2>1, <2>4, <2>5, FS_Subset, SpentIsFinite
  <2> QED BY <2>1, <2>5, <2>6 DEF TokensSpent
<1>2. ConfirmInv => OneRunPerConfirmation BY <1>1 DEF OneRunPerConfirmation
<1> QED BY ConfirmInitInv, ConfirmStepInv, <1>2, PTL DEF ConfirmSpec

(* What waits for the user is in the queue, and what is over leaves it,     *)
(* though the queue is touched after the locks of the tokens and approvals *)
(* are released.                                                           *)
THEOREM WaitingIsQueued == ConfirmSpec => [](ConfirmTypeOK /\ ApprovalsQueued)
<1>1. ConfirmInv => ConfirmTypeOK /\ ApprovalsQueued BY DEF ConfirmInv
<1> QED BY ConfirmInitInv, ConfirmStepInv, <1>1, PTL DEF ConfirmSpec

-----------------------------------------------------------------------------
(* McpHttp: the registry and the session table.                            *)


(* The invariant.  A call is in the registry only between its registration *)
(* and its end; what a session collects when it leaves is its own.          *)

Unregistered == {"new", "handling", "write", "done"}

Registered ==
  /\ inFlight \subseteq Listed
  /\ \A r \in Call : /\ pc[r] \in Unregistered => r \notin inFlight \cup Listed
                     /\ pc[r] = "clearing" => r \notin inFlight
OwnKeys == \A s \in Caller : leaving[s].keys \subseteq OfSession(s, Call)
Limits ==
  /\ Cardinality(inFlight) <= MaxInFlight
  /\ \A s \in Caller : Cardinality(OfSession(s, Listed)) <= MaxInFlightPerSession
TableListed == OnceEach(lru) /\ Elements(lru) = table

HttpInv ==
  /\ TypeOK /\ Registered /\ OnceEach(order) /\ OwnKeys /\ Limits /\ TableListed

(* The sessions of the order list, in the words of SeqFilter. *)
LEMMA ListedIsElements == Listed = Elements(order)
BY DEF Listed, Elements

(* Calls can be counted. *)
LEMMA CallsAreFinite == \A S \in SUBSET Call : IsFiniteSet(S) /\ Cardinality(S) \in Nat
BY ChannelConstants, FS_Subset, FS_CardinalityType

(* Adding an element makes a set at most one larger. *)
LEMMA OneMore ==
  ASSUME NEW S, IsFiniteSet(S), NEW x
  PROVE  /\ Cardinality(S) \in Nat /\ Cardinality(S \cup {x}) \in Nat
         /\ Cardinality(S \cup {x}) <= Cardinality(S) + 1
<1>1. Cardinality(S) \in Nat BY FS_CardinalityType
<1>2. Cardinality(S \cup {x}) = IF x \in S THEN Cardinality(S) ELSE Cardinality(S) + 1
  BY FS_AddElement
<1> QED BY <1>1, <1>2

(* A call belongs to a known session. *)
LEMMA SessionIsCaller == \A c \in Call : SessionOf[c] \in Caller
BY DEF Caller

(* Both tables of the transport start empty. *)
LEMMA HttpInitInv == HttpInit => HttpInv
<1> SUFFICES ASSUME HttpInit PROVE HttpInv OBVIOUS
<1> USE DEF HttpInit, InFlightInit, ChannelsInit
<1>1. TypeOK
  BY DEF TypeOK, InFlightTypeOK, CancelKind, NoCancel
<1>2. Listed = {} /\ OnceEach(order) /\ TableListed
  BY EmptyHasNone, ListedIsElements DEF TableListed
<1>3. Registered BY <1>2 DEF Registered
<1>4. OwnKeys BY DEF OwnKeys
<1>5. Limits
  <2>1. \A s \in Caller : OfSession(s, Listed) = {} BY <1>2 DEF OfSession
  <2>2. Cardinality({}) = 0 /\ 0 <= MaxInFlight /\ 0 <= MaxInFlightPerSession
    BY FS_EmptySet, InFlightConstants
  <2> QED BY <2>1, <2>2 DEF Limits
<1> QED BY <1>1, <1>2, <1>3, <1>4, <1>5 DEF HttpInv

-----------------------------------------------------------------------------
(* The registry.                                                           *)

\* Removing calls from the map and the FIFO breaks no limit.
LEMMA FewerKeepLimits ==
  ASSUME HttpInv, inFlight' \subseteq inFlight, Listed' \subseteq Listed
  PROVE  Limits'
<1>1. Listed \in SUBSET Call /\ inFlight \in SUBSET Call
  BY ListedIsElements DEF HttpInv, TypeOK, InFlightTypeOK, Elements
<1>2. Cardinality(inFlight') <= Cardinality(inFlight) /\ Cardinality(inFlight') \in Nat
      /\ Cardinality(inFlight) \in Nat
  BY <1>1, CallsAreFinite, FS_Subset
<1>3. ASSUME NEW s \in Caller
      PROVE Cardinality(OfSession(s, Listed')) <= MaxInFlightPerSession
  <2>1. OfSession(s, Listed') \in SUBSET OfSession(s, Listed) /\ OfSession(s, Listed) \in SUBSET Call
    BY <1>1 DEF OfSession
  <2>2. /\ Cardinality(OfSession(s, Listed')) <= Cardinality(OfSession(s, Listed))
        /\ Cardinality(OfSession(s, Listed')) \in Nat /\ Cardinality(OfSession(s, Listed)) \in Nat
    BY <2>1, CallsAreFinite, FS_Subset
  <2> QED BY <2>2, InFlightConstants DEF HttpInv, Limits
<1> QED BY <1>2, <1>3, InFlightConstants DEF HttpInv, Limits

\* What is pushed out is listed, and makes room.
LEMMA PushedOutMakesRoom ==
  ASSUME HttpInv
  PROVE  /\ PushedOut \subseteq Listed
         /\ inFlight \ PushedOut = {} \/ Cardinality(inFlight \ PushedOut) < MaxInFlight
<1> DEFINE N == {n \in 0..Len(order) :
                   n = Len(order) \/ Cardinality(inFlight \ Front(n)) < MaxInFlight}
<1>1. order \in Seq(Call) /\ Len(order) \in Nat /\ DOMAIN order = 1..Len(order)
  BY DEF HttpInv, TypeOK, InFlightTypeOK
<1>2. Len(order) \in N /\ N \subseteq Nat BY <1>1
<1>3. Min(N) \in N BY <1>2, LeastOfNaturals
<1>4. PushedOut = Front(Min(N)) BY DEF PushedOut
<1> HIDE DEF N
<1>5. PICK n \in N : PushedOut = Front(n) BY <1>3, <1>4
<1> USE DEF N
<1>6. Front(n) \subseteq Listed
  <2>1. PICK k \in Nat : DOMAIN order = 1..k /\ n \in 0..k BY <1>1
  <2>2. \A i \in 1..n : i \in DOMAIN order BY <2>1
  <2> QED BY <2>2 DEF Front, Listed
<1>7. Front(Len(order)) = Listed BY <1>1 DEF Front, Listed
<1>8. CASE n = Len(order) BY <1>5, <1>6, <1>7, <1>8 DEF HttpInv, Registered
<1>9. CASE Cardinality(inFlight \ Front(n)) < MaxInFlight BY <1>5, <1>6, <1>9
<1> QED BY <1>5, <1>8, <1>9

\* A list that loses its first element: what the session that is full gives up is its own.
LEMMA DisplacedIsOwn ==
  ASSUME HttpInv, NEW c \in Call, NEW fifo \in Seq(Call), OnceEach(fifo)
  PROVE  LET mine == OfSession(SessionOf[c], Elements(fifo))
         IN  \/ Displaced(c, fifo) = {} /\ Cardinality(mine) < MaxInFlightPerSession
             \/ \E d \in mine : Displaced(c, fifo) = {d}
<1> DEFINE own == OfSession(SessionOf[c], Call)
           mine == OfSession(SessionOf[c], Elements(fifo))
           its == Kept(fifo, own)
<1>1. its \in Seq(Call) /\ Elements(its) = Elements(fifo) \cap own /\ OnceEach(its)
  BY KeptLeaves
<1>2. Elements(fifo) \subseteq Call BY DEF Elements
<1>3. Elements(its) = mine BY <1>1, <1>2 DEF OfSession
<1> HIDE DEF its
<1>4. Len(its) = Cardinality(mine) /\ Len(its) \in Nat BY <1>1, <1>3, OnceEachCounts
<1>5. Displaced(c, fifo) = IF Len(its) >= MaxInFlightPerSession THEN {Head(its)} ELSE {}
  BY DEF Displaced, its
<1>6. CASE Len(its) >= MaxInFlightPerSession
  <2>1. Len(its) >= 1 BY <1>4, <1>6, InFlightConstants
  <2>2. 1 \in DOMAIN its /\ Head(its) = its[1] BY <1>1, <2>1
  <2>3. Head(its) \in mine BY <1>3, <2>2 DEF Elements
  <2> QED BY <1>5, <1>6, <2>3
<1>7. CASE ~(Len(its) >= MaxInFlightPerSession) BY <1>4, <1>5, <1>7, InFlightConstants
<1> QED BY <1>6, <1>7

\* register_inflight.
LEMMA RegisterKeeps ==
  ASSUME HttpInv, NEW c \in Call, Register(c), c \notin inFlight \cup Listed
  PROVE  /\ order' \in Seq(Call) /\ OnceEach(order') /\ Limits'
         /\ inFlight' \subseteq Listed' /\ inFlight' \subseteq inFlight \cup {c}
         /\ Listed' \subseteq Listed \cup {c}
         /\ \E out \in SUBSET inFlight : inFlight' = (inFlight \ out) \cup {c}
<1> DEFINE out == PushedOut
           fifo == Without(order, out)
           gone == out \cup Displaced(c, fifo)
           s == SessionOf[c]
<1>0. /\ order \in Seq(Call) /\ OnceEach(order) /\ inFlight \subseteq Listed /\ Limits
      /\ inFlight \in SUBSET Call
  BY DEF HttpInv, TypeOK, InFlightTypeOK, Registered
<1>1. inFlight' = (inFlight \ gone) \cup {c} /\ order' = Append(Without(order, gone \cup {c}), c)
  BY DEF Register
<1>2. fifo \in Seq(Call) /\ OnceEach(fifo) /\ Elements(fifo) = Listed \ out
  BY <1>0, WithoutLeaves, ListedIsElements
<1>3. \/ Displaced(c, fifo) = {} /\ Cardinality(OfSession(s, Listed \ out)) < MaxInFlightPerSession
      \/ \E d \in OfSession(s, Listed \ out) : Displaced(c, fifo) = {d}
  BY <1>2, DisplacedIsOwn
<1>4. /\ out \subseteq Listed
      /\ inFlight \ out = {} \/ Cardinality(inFlight \ out) < MaxInFlight
  BY PushedOutMakesRoom
<1> HIDE DEF out, fifo
<1>5. gone \subseteq Listed BY <1>3, <1>4 DEF OfSession
<1> HIDE DEF gone
<1>6. /\ Without(order, gone \cup {c}) \in Seq(Call) /\ OnceEach(Without(order, gone \cup {c}))
      /\ Elements(Without(order, gone \cup {c})) = Listed \ (gone \cup {c})
  BY <1>0, WithoutLeaves, ListedIsElements
<1>7. /\ order' \in Seq(Call) /\ OnceEach(order')
      /\ Listed' = (Listed \ gone) \cup {c}
  <2>0. PICK rest \in Seq(Call) : rest = Without(order, gone \cup {c}) BY <1>6
  <2>a. OnceEach(rest) /\ Elements(rest) = Listed \ (gone \cup {c}) BY <1>6, <2>0
  <2>b. order' = Append(rest, c) /\ c \notin Elements(rest) BY <1>1, <2>0, <2>a
  <2>1. /\ order' \in Seq(Call) /\ Elements(order') = (Listed \ (gone \cup {c})) \cup {c}
        /\ OnceEach(order')
    BY ONLY <2>a, <2>b, AppendAdds
  <2>2. Listed' = Elements(order') BY DEF Listed, Elements
  <2> QED BY <2>1, <2>2
<1>8. Listed \in SUBSET Call BY <1>0, ListedIsElements DEF Elements
<1>9. Cardinality(inFlight') <= MaxInFlight
  <2>1. out \subseteq gone BY DEF gone
  <2>2. inFlight \ gone \in SUBSET (inFlight \ out) /\ inFlight \ out \in SUBSET Call
    BY <1>0, <2>1
  <2>3. /\ IsFiniteSet(inFlight \ gone) /\ Cardinality(inFlight \ gone) \in Nat
        /\ Cardinality(inFlight \ out) \in Nat
        /\ Cardinality(inFlight \ gone) <= Cardinality(inFlight \ out)
    BY <2>2, CallsAreFinite, FS_Subset
  <2>4. inFlight \ out = {} => Cardinality(inFlight \ out) = 0 BY FS_EmptySet
  <2>5. Cardinality(inFlight \ gone) < MaxInFlight BY <1>4, <2>3, <2>4, InFlightConstants
  <2>6. Cardinality(inFlight') <= Cardinality(inFlight \ gone) + 1 /\ Cardinality(inFlight') \in Nat
    BY <1>1, <2>3, OneMore
  <2> QED BY <2>3, <2>5, <2>6, InFlightConstants
<1>10. ASSUME NEW t \in Caller PROVE Cardinality(OfSession(t, Listed')) <= MaxInFlightPerSession
  <2> DEFINE most == OfSession(t, Listed \ out)
             rest == OfSession(t, Listed \ gone)
  <2>1. out \subseteq gone BY DEF gone
  <2>2. rest \in SUBSET most /\ most \in SUBSET OfSession(t, Listed)
        /\ OfSession(t, Listed) \in SUBSET Call
    BY <1>8, <2>1 DEF OfSession
  <2>3. /\ IsFiniteSet(rest) /\ IsFiniteSet(most)
        /\ Cardinality(rest) \in Nat /\ Cardinality(most) \in Nat
        /\ Cardinality(rest) <= Cardinality(most) /\ Cardinality(most) <= MaxInFlightPerSession
    <3>1. IsFiniteSet(OfSession(t, Listed)) /\ Cardinality(OfSession(t, Listed)) \in Nat
          /\ Cardinality(OfSession(t, Listed)) <= MaxInFlightPerSession
      BY <1>0, <2>2, CallsAreFinite DEF Limits
    <3>2. IsFiniteSet(most) /\ Cardinality(most) \in Nat
          /\ Cardinality(most) <= Cardinality(OfSession(t, Listed))
      BY <2>2, <3>1, FS_Subset, FS_CardinalityType
    <3>3. IsFiniteSet(rest) /\ Cardinality(rest) \in Nat /\ Cardinality(rest) <= Cardinality(most)
      BY <2>2, <3>2, FS_Subset, FS_CardinalityType
    <3> QED BY <3>1, <3>2, <3>3, InFlightConstants
  <2>4. CASE t = s
    <3>1. OfSession(t, Listed') = rest \cup {c} BY <1>7, <2>4 DEF OfSession
    <3>2. Cardinality(rest) < MaxInFlightPerSession
      <4>1. CASE Displaced(c, fifo) = {} /\ Cardinality(most) < MaxInFlightPerSession
        BY <2>3, <4>1, InFlightConstants
      <4>2. ASSUME NEW d \in most, Displaced(c, fifo) = {d}
            PROVE Cardinality(rest) < MaxInFlightPerSession
        <5>1. d \notin rest BY <4>2 DEF gone, OfSession
        <5>2. Cardinality(rest) # Cardinality(most) BY <2>2, <2>3, <5>1, FS_Subset
        <5> QED BY <2>3, <5>2, InFlightConstants
      <4> QED BY <1>3, <2>4, <4>1, <4>2
    <3>3. Cardinality(OfSession(t, Listed')) <= Cardinality(rest) + 1
          /\ Cardinality(OfSession(t, Listed')) \in Nat
      BY <2>3, <3>1, OneMore
    <3> QED BY <2>3, <3>2, <3>3, InFlightConstants
  <2>5. CASE t # s
    <3>1. OfSession(t, Listed') = rest BY <1>7, <2>5 DEF OfSession
    <3> QED BY <2>3, <3>1, InFlightConstants
  <2> QED BY <2>4, <2>5
<1>11. Limits' BY <1>9, <1>10 DEF Limits
<1>12. inFlight' = (inFlight \ (gone \cap inFlight)) \cup {c} BY <1>1
<1> QED BY <1>0, <1>1, <1>5, <1>7, <1>11, <1>12

-----------------------------------------------------------------------------
(* The steps.                                                              *)

\* Touching the registry and the table of sessions apart.
HttpTypeOK == table \subseteq Caller /\ lru \in Seq(Caller) /\ deleting \subseteq Caller
PcType == [Call -> {"new", "handling", "running", "clearing", "write", "done", "dropped"}]

(* Touching a session lists it once, at the end, and drops none of the others. *)
LEMMA TouchedLists ==
  ASSUME NEW q \in Seq(Caller), OnceEach(q), NEW s \in Caller
  PROVE  /\ Touched(q, s) \in Seq(Caller) /\ OnceEach(Touched(q, s))
         /\ Elements(Touched(q, s)) = Elements(q) \cup {s}
<1> DEFINE w == Without(q, {s})
<1>1. w \in Seq(Caller) /\ OnceEach(w) /\ Elements(w) = Elements(q) \ {s} BY WithoutLeaves
<1>2. Touched(q, s) = Append(w, s) BY DEF Touched
<1> HIDE DEF w
<1>3. s \notin Elements(w) BY <1>1
<1>4. /\ Append(w, s) \in Seq(Caller) /\ OnceEach(Append(w, s))
      /\ Elements(Append(w, s)) = Elements(w) \cup {s}
  BY <1>1, <1>3, AppendAdds
<1> QED BY <1>1, <1>2, <1>4

\* A step of a POST that leaves the registry alone and does not end up unregistered.
LEMMA PostMoves ==
  ASSUME HttpInv, NEW r \in Call, NEW to \in {"new", "handling", "running", "clearing", "write", "done", "dropped"},
         Goto(r, to), UNCHANGED inFlightVars,
         to \in Unregistered => pc[r] \in Unregistered, to # "clearing",
         HttpTypeOK', TableListed'
  PROVE  HttpInv'
<1>1. pc' = [pc EXCEPT ![r] = to] /\ pc \in PcType /\ pc' \in PcType
  BY DEF Goto, HttpInv, TypeOK, PcType
<1>2. TypeOK' BY <1>1
              DEF HttpInv, TypeOK, InFlightTypeOK, inFlightVars, channelVars, HttpTypeOK, PcType
<1>3. Listed' = Listed /\ inFlight' = inFlight BY DEF Listed, inFlightVars, channelVars
<1>4. Registered' BY <1>1, <1>3 DEF HttpInv, Registered, PcType, Unregistered
<1>5. OnceEach(order)' /\ OwnKeys' BY DEF HttpInv, OnceEach, OwnKeys, inFlightVars
<1>6. Limits' BY <1>3, FewerKeepLimits
<1> QED BY <1>2, <1>4, <1>5, <1>6 DEF HttpInv

(* POST, DELETE, eviction and the end of calls keep the invariant. *)
LEMMA HttpStepInv == HttpInv /\ [HttpNext]_vars => HttpInv'
<1> SUFFICES ASSUME HttpInv, [HttpNext]_vars PROVE HttpInv' OBVIOUS
<1>i. /\ TypeOK /\ Registered /\ OnceEach(order) /\ OwnKeys /\ Limits /\ TableListed
      /\ InFlightTypeOK /\ HttpTypeOK /\ pc \in PcType
  BY DEF HttpInv, TypeOK, HttpTypeOK, PcType
<1>1. CASE UNCHANGED vars
  <2>1. Listed' = Listed BY <1>1 DEF vars, inFlightVars, Listed
  <2> QED BY <1>1, <2>1
          DEF vars, inFlightVars, channelVars, httpVars, HttpInv, TypeOK, InFlightTypeOK,
          Registered, OnceEach, OwnKeys, Limits, TableListed, Elements
<1>2. ASSUME NEW r \in Call, Arrive(r) PROVE HttpInv'
  <2> DEFINE s == SessionOf[r]
             q == Without(lru, Evicted(s))
  <2>1. /\ pc[r] = "new" /\ Goto(r, "handling") /\ UNCHANGED <<inFlightVars, deleting>>
        /\ table' = (table \ Evicted(s)) \cup {s} /\ lru' = Touched(q, s)
    BY <1>2 DEF Arrive
  <2>2. q \in Seq(Caller) /\ OnceEach(q) /\ Elements(q) = table \ Evicted(s)
    BY <1>i, WithoutLeaves DEF HttpTypeOK, TableListed
  <2> HIDE DEF q
  <2>3. HttpTypeOK' /\ TableListed'
    BY <2>1, <2>2, <1>i, TouchedLists, SessionIsCaller DEF HttpTypeOK, TableListed
  <2> QED BY <2>1, <2>3, PostMoves DEF Unregistered
<1>3. ASSUME NEW r \in Call, WriteBack(r) PROVE HttpInv'
  <2>1. /\ pc[r] = "write" /\ Goto(r, "done") /\ UNCHANGED <<inFlightVars, deleting>>
        /\ table' = table \cup {SessionOf[r]} /\ lru' = Touched(lru, SessionOf[r])
    BY <1>3 DEF WriteBack
  <2>2. HttpTypeOK' /\ TableListed'
    BY <2>1, <1>i, TouchedLists, SessionIsCaller DEF HttpTypeOK, TableListed
  <2> QED BY <2>1, <2>2, PostMoves DEF Unregistered
<1>4. ASSUME NEW r \in Call, HandleOther(r) \/ ConnectionLost(r) PROVE HttpInv'
  <2>1. UNCHANGED <<inFlightVars, table, lru, deleting>> BY <1>4 DEF HandleOther, ConnectionLost
  <2>2. HttpTypeOK' /\ TableListed' BY <2>1, <1>i
                                    DEF HttpTypeOK, TableListed, OnceEach, Elements
  <2>3. (pc[r] = "handling" /\ Goto(r, "write")) \/ Goto(r, "dropped")
    BY <1>4 DEF HandleOther, ConnectionLost
  <2> QED BY <2>1, <2>2, <2>3, PostMoves DEF Unregistered
<1>t. ASSUME UNCHANGED <<table, lru, deleting>> PROVE HttpTypeOK' /\ TableListed'
  BY <1>t, <1>i DEF HttpTypeOK, TableListed, OnceEach, Elements
<1>5. ASSUME NEW r \in Call, HandleCall(r) PROVE HttpInv'
  <2>1. /\ pc[r] = "handling" /\ pc' = [pc EXCEPT ![r] = "running"] /\ Register(r)
        /\ UNCHANGED <<table, lru, deleting, signal, leaving>>
    BY <1>5 DEF HandleCall, Goto, Register
  <2>2. r \notin inFlight \cup Listed BY <2>1, <1>i DEF Registered, Unregistered
  <2>3. /\ order' \in Seq(Call) /\ OnceEach(order') /\ Limits'
        /\ inFlight' \subseteq Listed' /\ inFlight' \subseteq inFlight \cup {r}
        /\ Listed' \subseteq Listed \cup {r}
    BY <2>1, <2>2, RegisterKeeps
  <2>4. pc' \in PcType /\ pc'[r] = "running" BY <2>1, <1>i DEF PcType
  <2>5. Registered' BY <2>1, <2>3, <2>4, <1>i DEF Registered, Unregistered, PcType
  <2>6. TypeOK' BY <2>1, <2>3, <2>4, <1>i DEF TypeOK, InFlightTypeOK, PcType
  <2>7. OwnKeys' BY <2>1, <1>i DEF OwnKeys
  <2> QED BY <2>1, <2>3, <2>5, <2>6, <2>7, <1>t DEF HttpInv
<1>6. ASSUME NEW r \in Call, HandleCancel(r) PROVE HttpInv'
  <2>1. PICK c \in OfSession(SessionOf[r], Call), kind \in ClientReason : Cancelled(c, kind)
    BY <1>6 DEF HandleCancel
  <2>2. /\ inFlight' = inFlight \ {c} /\ signal' = [signal EXCEPT ![c] = kind]
        /\ UNCHANGED <<order, leaving, table, lru, deleting>>
        /\ pc[r] = "handling" /\ pc' = [pc EXCEPT ![r] = "write"]
    BY <1>6, <2>1 DEF HandleCancel, Cancelled, Cancel, Goto
  <2>3. Listed' = Listed BY <2>2 DEF Listed
  <2>4. Registered' BY <2>2, <2>3, <1>i DEF Registered, Unregistered, PcType
  <2>5. TypeOK'
    BY <2>1, <2>2, <1>i, ChannelConstants DEF TypeOK, InFlightTypeOK, PcType, OfSession
  <2>6. OnceEach(order)' /\ OwnKeys' BY <2>2, <1>i DEF OnceEach, OwnKeys
  <2>7. Limits' BY <2>2, <2>3, FewerKeepLimits
  <2> QED BY <2>2, <2>4, <2>5, <2>6, <2>7, <1>t DEF HttpInv
<1>7. ASSUME NEW r \in Call, Finish(r) PROVE HttpInv'
  <2>1. /\ inFlight' = inFlight \ {r} /\ signal' = [signal EXCEPT ![r] = NoCancel]
        /\ UNCHANGED <<order, leaving, table, lru, deleting>>
        /\ pc' = [pc EXCEPT ![r] = "clearing"]
    BY <1>7 DEF Finish, ClearMap, Close, Goto
  <2>2. Listed' = Listed BY <2>1 DEF Listed
  <2>3. Registered' BY <2>1, <2>2, <1>i DEF Registered, Unregistered, PcType
  <2>4. TypeOK' BY <2>1, <1>i DEF TypeOK, InFlightTypeOK, PcType
  <2>5. OnceEach(order)' /\ OwnKeys' BY <2>1, <1>i DEF OnceEach, OwnKeys
  <2>6. Limits' BY <2>1, <2>2, FewerKeepLimits
  <2> QED BY <2>1, <2>3, <2>4, <2>5, <2>6, <1>t DEF HttpInv
<1>l. ASSUME NEW S, order' = Without(order, S)
      PROVE order' \in Seq(Call) /\ OnceEach(order') /\ Listed' = Listed \ S
  <2>1. /\ order' \in Seq(Call) /\ OnceEach(order') /\ Elements(order') = Elements(order) \ S
    BY <1>l, <1>i, WithoutLeaves DEF InFlightTypeOK
  <2> QED BY <2>1 DEF Listed, Elements
<1>8. ASSUME NEW r \in Call, Unlist(r) PROVE HttpInv'
  <2>1. /\ order' = Without(order, {r}) /\ UNCHANGED <<inFlight, signal, leaving, table, lru, deleting>>
        /\ pc[r] = "clearing" /\ pc' = [pc EXCEPT ![r] = "write"]
    BY <1>8 DEF Unlist, ClearOrder, Goto
  <2>2. order' \in Seq(Call) /\ OnceEach(order') /\ Listed' = Listed \ {r} BY <2>1, <1>l
  <2>3. Registered' BY <2>1, <2>2, <1>i DEF Registered, Unregistered, PcType
  <2>4. TypeOK' BY <2>1, <2>2, <1>i DEF TypeOK, InFlightTypeOK, PcType
  <2>5. OwnKeys' BY <2>1, <1>i DEF OwnKeys
  <2>6. Limits' BY <2>1, <2>2, FewerKeepLimits
  <2> QED BY <2>1, <2>2, <2>3, <2>4, <2>5, <2>6, <1>t DEF HttpInv
<1>u. ASSUME UNCHANGED inFlightVars, UNCHANGED pc, HttpTypeOK', TableListed' PROVE HttpInv'
  <2>1. Listed' = Listed /\ UNCHANGED <<inFlight, signal, order, leaving>>
    BY <1>u DEF Listed, inFlightVars, channelVars
  <2>2. TypeOK' BY <1>u, <2>1, <1>i DEF TypeOK, InFlightTypeOK, HttpTypeOK
  <2>3. Registered' /\ OnceEach(order)' /\ OwnKeys' /\ Limits'
    BY <1>u, <2>1, <1>i DEF Registered, OnceEach, OwnKeys, Limits
  <2> QED BY <1>u, <2>2, <2>3 DEF HttpInv
<1>9. ASSUME NEW s \in Caller, Delete(s) PROVE HttpInv'
  <2>1. /\ table' = table \ {s} /\ lru' = Without(lru, {s}) /\ deleting' = deleting \cup {s}
        /\ UNCHANGED <<inFlightVars, pc>>
    BY <1>9 DEF Delete
  <2>2. HttpTypeOK' /\ TableListed' BY <2>1, <1>i, WithoutLeaves DEF HttpTypeOK, TableListed
  <2> QED BY <2>1, <2>2, <1>u
<1>k. ASSUME NEW s \in Caller, UNCHANGED <<inFlight, signal, order, table, lru, pc>>, HttpTypeOK',
             NEW ph \in {"no", "collected", "signalled"}, NEW K \in SUBSET OfSession(s, Call),
             leaving' = [leaving EXCEPT ![s] = [phase |-> ph, keys |-> K]]
      PROVE HttpInv'
  <2>1. K \subseteq Call BY <1>k DEF OfSession
  <2>2. leaving' \in [Caller -> [phase : {"no", "collected", "signalled"}, keys : SUBSET Call]]
    BY <1>k, <2>1, <1>i DEF InFlightTypeOK
  <2>3. OwnKeys' BY <1>k, <1>i DEF OwnKeys, InFlightTypeOK
  <2>4. Listed' = Listed BY <1>k DEF Listed
  <2>5. TypeOK' BY <1>k, <2>2, <1>i DEF TypeOK, InFlightTypeOK, HttpTypeOK
  <2>6. Registered' /\ OnceEach(order)' /\ Limits' /\ TableListed'
    BY <1>k, <2>4, <1>i DEF Registered, OnceEach, Limits, TableListed, Elements
  <2> QED BY <2>3, <2>5, <2>6 DEF HttpInv
<1>10. ASSUME NEW s \in Caller, StartDisconnect(s) PROVE HttpInv'
  <2>1. /\ leaving' = [leaving EXCEPT ![s] = [phase |-> "collected", keys |-> OfSession(s, inFlight)]]
        /\ deleting' = deleting \ {s} /\ UNCHANGED <<inFlight, signal, order, table, lru, pc>>
    BY <1>10 DEF StartDisconnect, CollectKeys
  <2>2. OfSession(s, inFlight) \in SUBSET OfSession(s, Call)
    BY <1>i DEF OfSession, InFlightTypeOK
  <2>3. HttpTypeOK' BY <2>1, <1>i DEF HttpTypeOK
  <2> QED BY <2>1, <2>2, <2>3, <1>k
<1>11. ASSUME NEW s \in Caller, SignalKeys(s), UNCHANGED httpVars PROVE HttpInv'
  <2> DEFINE K == leaving[s].keys
  <2>1. /\ inFlight' = inFlight \ K /\ order' = Without(order, K)
        /\ signal' = [c \in Call |-> IF c \in K \cap inFlight THEN "SessionDisconnect" ELSE signal[c]]
        /\ leaving' = [leaving EXCEPT ![s] = [phase |-> "signalled", keys |-> {}]]
    BY <1>11 DEF SignalKeys
  <2> HIDE DEF K
  <2>2. order' \in Seq(Call) /\ OnceEach(order') /\ Listed' = Listed \ K BY <2>1, <1>l
  <2>3. signal' \in [Call -> CancelKind \cup {NoCancel}]
    BY <2>1, <1>i DEF InFlightTypeOK, CancelKind
  <2>4. leaving' \in [Caller -> [phase : {"no", "collected", "signalled"}, keys : SUBSET Call]]
    BY <2>1, <1>i DEF InFlightTypeOK
  <2>5. TypeOK' BY <1>11, <2>1, <2>2, <2>3, <2>4, <1>i DEF TypeOK, InFlightTypeOK, httpVars
  <2>6. Registered' BY <1>11, <2>1, <2>2, <1>i DEF Registered, httpVars
  <2>7. OwnKeys'
    <3>1. leaving'[s].keys = {} /\ \A t \in Caller \ {s} : leaving'[t] = leaving[t]
      BY <2>1, <1>i DEF InFlightTypeOK
    <3> QED BY <3>1, <1>i DEF OwnKeys
  <2>8. Limits' BY <2>1, <2>2, FewerKeepLimits
  <2>9. TableListed' BY <1>11, <1>t DEF httpVars
  <2> QED BY <2>2, <2>5, <2>6, <2>7, <2>8, <2>9 DEF HttpInv
<1>12. ASSUME NEW s \in Caller, Left(s), UNCHANGED httpVars PROVE HttpInv'
  <2>1. leaving' = [leaving EXCEPT ![s].phase = "no"] /\ UNCHANGED <<inFlight, order, signal>>
    BY <1>12 DEF Left
  <2>2. /\ leaving[s].keys \in SUBSET OfSession(s, Call)
        /\ leaving' = [leaving EXCEPT ![s] = [phase |-> "no", keys |-> leaving[s].keys]]
    <3>1. leaving[s] \in [phase : {"no", "collected", "signalled"}, keys : SUBSET Call]
      BY <1>i DEF InFlightTypeOK
    <3>2. [leaving[s] EXCEPT !.phase = "no"] = [phase |-> "no", keys |-> leaving[s].keys]
      BY <3>1
    <3>3. leaving' = [leaving EXCEPT ![s] = [leaving[s] EXCEPT !.phase = "no"]] BY <2>1
    <3> QED BY <3>2, <3>3, <1>i DEF OwnKeys
  <2>3. HttpTypeOK' BY <1>12, <1>t DEF httpVars
  <2> QED BY <1>12, <2>1, <2>2, <2>3, <1>k DEF httpVars
<1> QED BY <1>1, <1>2, <1>3, <1>4, <1>5, <1>6, <1>7, <1>8, <1>9, <1>10, <1>11, <1>12
        DEF HttpNext

-----------------------------------------------------------------------------
(* The registry and the session table keep to their limits, and everything  *)
(* in them can be evicted, whatever order registrations, cancels,          *)
(* disconnects, dropped connections and late write-backs come in.          *)
THEOREM HttpTablesBounded == HttpSpec => [](TypeOK /\ TablesBounded)
<1>1. ASSUME HttpInv PROVE TypeOK /\ TablesBounded
  <2> USE <1>1 DEF HttpInv
  <2>1. Cardinality(Listed) = Len(order)
    BY ListedIsElements, OnceEachCounts DEF TypeOK, InFlightTypeOK
  <2>2. Len(lru) = Cardinality(table) BY OnceEachCounts DEF TypeOK, TableListed
  <2>3. {lru[i] : i \in DOMAIN lru} = table BY DEF TableListed, Elements
  <2>4. \A r \in Call : pc[r] \in {"new", "write", "done"} => r \notin inFlight \cup Listed
    BY DEF Registered, Unregistered
  <2> QED BY <2>1, <2>2, <2>3, <2>4 DEF TablesBounded, Bounded, Registered, Limits
<1> QED BY HttpInitInv, HttpStepInv, <1>1, PTL DEF HttpSpec

(* The transport keeps the promise about cancelling: every step of it is a  *)
(* step of CancelChannels or leaves the channels alone.                    *)
THEOREM HttpImplementsChannels == HttpSpec => Channels
<1>1. HttpInit => ChannelsInit BY DEF HttpInit, InFlightInit
<1>2. ASSUME HttpInv, [HttpNext]_vars PROVE [ChannelsNext]_channelVars
  <2>i. /\ inFlight \subseteq Call
        /\ \A s \in Caller : leaving[s].keys \subseteq OfSession(s, Call)
    BY <1>2 DEF HttpInv, TypeOK, InFlightTypeOK, OwnKeys
  <2>1. CASE UNCHANGED vars BY <2>1 DEF vars, inFlightVars, channelVars
  <2>2. ASSUME NEW r \in Call, Arrive(r) \/ WriteBack(r) \/ HandleOther(r) \/ ConnectionLost(r) \/ Unlist(r)
        PROVE UNCHANGED channelVars
    BY <2>2
       DEF Arrive, WriteBack, HandleOther, ConnectionLost, Unlist, ClearOrder, inFlightVars,
       channelVars
  <2>3. ASSUME NEW r \in Call, HandleCall(r) PROVE Open(r)
    <3>1. Register(r) /\ pc[r] = "handling" BY <2>3 DEF HandleCall
    <3>2. r \notin inFlight \cup Listed BY <1>2, <3>1 DEF HttpInv, Registered, Unregistered
    <3> QED BY <1>2, <3>1, <3>2, RegisterKeeps DEF Open, Register
  <2>4. ASSUME NEW r \in Call, HandleCancel(r)
        PROVE \E c \in Call, kind \in ClientReason : Cancel(c, kind)
    BY <2>4 DEF HandleCancel, Cancelled, OfSession
  <2>5. ASSUME NEW r \in Call, Finish(r) PROVE Close(r) BY <2>5 DEF Finish, ClearMap
  <2>6. ASSUME NEW s \in Caller, Delete(s) \/ StartDisconnect(s) \/ Left(s) PROVE UNCHANGED channelVars
    BY <2>6 DEF Delete, StartDisconnect, CollectKeys, Left, inFlightVars, channelVars
  <2>7. ASSUME NEW s \in Caller, SignalKeys(s) PROVE Disconnect(s)
    <3> DEFINE told == leaving[s].keys \cap inFlight
    <3>1. told \in SUBSET OfSession(s, inFlight) BY <2>i DEF OfSession
    <3>2. inFlight' = inFlight \ told BY <2>7 DEF SignalKeys
    <3>3. signal' = [c \in Call |-> IF c \in told THEN "SessionDisconnect" ELSE signal[c]]
      BY <2>7 DEF SignalKeys
    <3> QED BY <3>1, <3>2, <3>3 DEF Disconnect
  <2> QED BY <1>2, <2>1, <2>2, <2>3, <2>4, <2>5, <2>6, <2>7 DEF HttpNext, ChannelsNext
<1> QED BY HttpInitInv, HttpStepInv, <1>1, <1>2, PTL DEF HttpSpec, Channels, ChannelsSpec

-----------------------------------------------------------------------------
(* WindowPlacement.  Sizes are rounded when they are saved and when they    *)
(* are given back, by the scale of the monitor; a size that was made to fit *)
(* comes to as many pixels ever after, whatever the scale is.              *)

USE PlacementConstants

\* Whole numbers of a part: a larger number is larger by a part at least.
LEMMA Parts ==
  ASSUME NEW u \in Nat, NEW a \in Int, NEW b \in Int
  PROVE  u * a \in Int /\ (a < b => u * a + u <= u * b) /\ (a = b => u * a = u * b)
         /\ (a >= 0 => u * a \in Nat) /\ (a >= 1 => u * a >= u)
<1>1. u * a \in Int /\ (a = b => u * a = u * b) /\ (a >= 0 => u * a >= 0) OBVIOUS
<1>2. ASSUME a < b PROVE u * a + u <= u * b
  <2>1. PICK d \in Nat : b = a + 1 + d
    <3>1. b - a - 1 \in Nat /\ b = a + 1 + (b - a - 1) BY <1>2
    <3> QED BY <3>1
  <2>2. u * b = u * a + u + u * d BY <2>1
  <2>3. u * d >= 0 BY <2>1
  <2> QED BY <2>2, <2>3, <1>1
<1>3. ASSUME a >= 1 PROVE u * a >= u
  <2>1. PICK d \in Nat : a = 1 + d
    <3>1. a - 1 \in Nat /\ a = 1 + (a - 1) BY <1>3
    <3> QED BY <3>1
  <2>2. u * a = u + u * d BY <2>1
  <2>3. u * d >= 0 BY <2>1
  <2> QED BY <2>2, <2>3
<1> QED BY <1>1, <1>2, <1>3

\* q is size, rounded to whole parts, and one at least.
IsRounded(q, part, size) ==
  /\ q \in Nat /\ q >= 1
  /\ 2 * (part * q) <= 2 * size + part \/ q = 1
  /\ 2 * size + part < 2 * (part * q) + 2 * part

(* Rounding gives such a number, and there is but one. *)
LEMMA RoundingIs ==
  ASSUME NEW part \in Nat \ {0}, NEW size \in Nat
  PROVE  IsRounded(RoundedTo(part, size), part, size)
<1> DEFINE d == 2 * part
           n == 2 * size + part
           q == n \div d
<1>1. d \in Nat \ {0} /\ n \in Nat OBVIOUS
<1>2. q \in Int /\ d * q <= n /\ n < d * q + d
  <2> HIDE DEF d, n
  <2>1. n = d * (n \div d) + (n % d) /\ n \div d \in Int /\ 0 <= n % d /\ n % d < d BY <1>1
  <2> QED BY <2>1, <1>1
<1>3. d * q = 2 * (part * q) BY <1>2
<1>4. q >= 0
  <2>1. CASE q < 0
    <3>1. part * q + part <= part * 0 BY <2>1, <1>2, Parts
    <3>2. part * 0 = 0 OBVIOUS
    <3> QED BY <3>1, <3>2, <1>1, <1>2, <1>3
  <2> QED BY <2>1, <1>2
<1>5. RoundedTo(part, size) = Greater(1, q) BY DEF RoundedTo
<1> HIDE DEF q, d
<1>6. part * q \in Int /\ part * 1 = part BY <1>2
<1>7. CASE q >= 1
  <2>1. Greater(1, q) = q BY <1>7, <1>2 DEF Greater
  <2> QED BY <2>1, <1>2, <1>3, <1>5, <1>7 DEF IsRounded, n, d
<1>8. CASE q = 0
  <2>1. Greater(1, q) = 1 /\ part * q = 0 BY <1>8 DEF Greater
  <2> QED BY <2>1, <1>2, <1>3, <1>5, <1>6, <1>8 DEF IsRounded, n, d
<1> QED BY <1>2, <1>4, <1>7, <1>8

LEMMA RoundingIsOne ==
  ASSUME NEW part \in Nat \ {0}, NEW size \in Nat, NEW p, NEW q,
         IsRounded(p, part, size), IsRounded(q, part, size)
  PROVE  p = q
<1> USE DEF IsRounded
<1>1. p \in Nat /\ q \in Nat /\ part * p \in Nat /\ part * q \in Nat BY Parts
<1>2. p < q => part * p + part <= part * q BY <1>1, Parts
<1>3. q < p => part * q + part <= part * p BY <1>1, Parts
<1> QED BY <1>1, <1>2, <1>3

(* What a monitor is, per axis.                                            *)
LEMMA AreaIs ==
  ASSUME NEW m \in Monitor, NEW a \in Axis
  PROVE  /\ m.pixel \in Nat \ {0} /\ m.from[a] \in Int
         /\ m.length[a] \in Nat /\ m.length[a] >= 1
         /\ WorkArea(m, a) = m.pixel * m.length[a]
         /\ WorkArea(m, a) \in Nat /\ WorkArea(m, a) >= 2 * Unit /\ WorkArea(m, a) >= m.pixel
<1>1. /\ m.pixel \in Nat \ {0} /\ m.from[a] \in Int /\ m.length[a] \in Nat
      /\ m.pixel * m.length[a] >= 2 * Unit
  OBVIOUS
<1>2. WorkArea(m, a) = m.pixel * m.length[a] BY DEF WorkArea, ToLogical
<1>3. m.length[a] >= 1
  <2>1. CASE m.length[a] = 0
    <3>1. m.pixel * m.length[a] = 0 BY <2>1, <1>1
    <3> QED BY <3>1, <1>1
  <2> QED BY <2>1, <1>1
<1> QED BY <1>1, <1>2, <1>3, Parts

(* A size that is made to fit is between the minimum and the work area.    *)
Low(m, a) == Lesser(MinSize[a] * Unit, WorkArea(m, a))
Fitted(m, a, v) == Within(v, Low(m, a), WorkArea(m, a))
(* The clamped size is a whole number of logical pixels, within rounding of
   the size that fits the work area. *)
LEMMA ClampIs ==
  ASSUME NEW m \in Monitor, NEW a \in Axis, NEW v \in Nat
  PROVE  /\ Low(m, a) \in Nat /\ Low(m, a) >= 2 * Unit /\ Low(m, a) <= WorkArea(m, a)
         /\ Low(m, a) \in {MinSize[a] * Unit, WorkArea(m, a)}
         /\ Fitted(m, a, v) \in Nat
         /\ Low(m, a) <= Fitted(m, a, v) /\ Fitted(m, a, v) <= WorkArea(m, a)
         /\ \E n : ClampSize(m, a, v) = Unit * n /\ IsRounded(n, Unit, Fitted(m, a, v))
<1> DEFINE w == WorkArea(m, a)
           least == MinSize[a] * Unit
           low == Lesser(least, w)
           mid == Within(v, low, w)
<1>1. w \in Nat /\ w >= 2 * Unit BY AreaIs
<1>2. least \in Nat /\ least >= 2 * Unit
  <2>1. MinSize[a] \in Nat /\ MinSize[a] >= 2 OBVIOUS
  <2>2. PICK d \in Nat : MinSize[a] = 2 + d
    <3>1. MinSize[a] - 2 \in Nat /\ MinSize[a] = 2 + (MinSize[a] - 2) BY <2>1
    <3> QED BY <3>1
  <2>3. least = 2 * Unit + Unit * d /\ Unit * d >= 0 BY <2>2
  <2> QED BY <2>2, <2>3
<1> HIDE DEF w, least
<1>3. low \in Nat /\ low >= 2 * Unit /\ low <= w /\ low \in {least, w}
  BY <1>1, <1>2 DEF Lesser
<1>4. EffectiveMin(m, a) = low
  <2>1. Greater(w, Unit) = w BY <1>1 DEF Greater
  <2> QED BY <2>1 DEF EffectiveMin, w, least
<1> HIDE DEF low
<1>5. mid \in Nat /\ low <= mid /\ mid <= w BY <1>1, <1>3 DEF Within, Lesser, Greater
<1>6. ClampSize(m, a, v) = Unit * RoundedTo(Unit, mid)
  BY <1>4 DEF ClampSize, w, mid, Rounded
<1> HIDE DEF mid
<1>7. IsRounded(RoundedTo(Unit, mid), Unit, mid) BY <1>5, RoundingIs
<1> QED BY <1>3, <1>5, <1>6, <1>7 DEF w, least, low, mid, Low, Fitted

(* A size that was made to fit comes to pixels, and these to a size that is *)
(* made to fit and comes to as many: whichever is coarser, pixels or       *)
(* logical pixels, its rounding is not undone by the other.                *)
LEMMA SizeSettles ==
  ASSUME NEW m \in Monitor, NEW a \in Axis, NEW v \in Nat
  PROVE  LET size == ClampSize(m, a, v)
             px == ToPhysical(size, m.pixel)
             back == ToLogical(px, m.pixel)
         IN  /\ size \in Nat /\ px \in Nat /\ back \in Nat /\ back = m.pixel * px
             /\ 1 <= px /\ px <= 2 * m.length[a]
             /\ 2 * back <= 2 * WorkArea(m, a) + Unit + m.pixel
             /\ Unit <= back /\ ToPhysical(back, m.pixel) = px
             /\ ToPhysical(ClampSize(m, a, back), m.pixel) = px
<1> DEFINE u == m.pixel
           size == ClampSize(m, a, v)
           px == ToPhysical(size, u)
           back == ToLogical(px, u)
           w == WorkArea(m, a)
           low == Low(m, a)
           mid == Fitted(m, a, v)
           again == Fitted(m, a, back)
           len == m.length[a]
<1>1. /\ w \in Nat /\ w >= 2 * Unit /\ w >= u /\ w = u * len /\ u \in Nat /\ u >= 1
      /\ len \in Nat /\ Unit \in Nat /\ Unit >= 1
  BY AreaIs
<1>2. /\ low \in Nat /\ low >= 2 * Unit /\ low <= w /\ low \in {MinSize[a] * Unit, w}
      /\ mid \in Nat /\ low <= mid /\ mid <= w
  BY ClampIs
<1>3. PICK n : size = Unit * n /\ IsRounded(n, Unit, mid) BY ClampIs
<1>4. n \in Nat /\ size \in Nat /\ 2 * mid + Unit < 2 * size + 2 * Unit
      /\ (2 * size <= 2 * mid + Unit \/ n = 1)
  BY <1>3, Parts DEF IsRounded
<1>5. 2 * size <= 2 * mid + Unit /\ size >= 2 * Unit
  <2>1. n # 1
    <3>1. CASE n = 1
      <4>1. size = Unit BY <3>1, <1>3
      <4> QED BY <4>1, <1>1, <1>2, <1>4
    <3> QED BY <3>1
  <2>2. n # 0
    <3>1. n >= 1 BY <1>3 DEF IsRounded
    <3> QED BY <3>1, <1>4
  <2>3. n > 1 BY <2>1, <2>2, <1>4
  <2>4. Unit * 1 + Unit <= Unit * n BY <2>3, <1>1, <1>4, Parts
  <2> QED BY <2>1, <2>4, <1>1, <1>3, <1>4
<1>6. IsRounded(px, u, size) BY <1>1, <1>4, RoundingIs DEF ToPhysical
<1>7. /\ px \in Nat /\ px >= 1 /\ back = u * px /\ back \in Nat /\ back >= u
      /\ 2 * back <= 2 * size + u \/ (px = 1 /\ back = u)
      /\ 2 * size + u < 2 * back + 2 * u
  <2>1. px \in Nat /\ px >= 1 /\ back = u * px BY <1>6 DEF IsRounded, ToLogical
  <2>2. back \in Nat /\ back >= u BY <2>1, <1>1, Parts
  <2>3. px = 1 => back = u BY <2>1, <1>1
  <2> QED BY <2>1, <2>2, <2>3, <1>6 DEF IsRounded
<1>8. PICK k : ClampSize(m, a, back) = Unit * k /\ IsRounded(k, Unit, again) BY <1>7, ClampIs
<1> DEFINE big == Unit * k
<1>9. k \in Nat /\ k >= 1 /\ big \in Nat /\ big >= Unit /\ 2 * again + Unit < 2 * big + 2 * Unit
      /\ (2 * big <= 2 * again + Unit \/ big = Unit)
  <2>1. k \in Nat /\ k >= 1 BY <1>8 DEF IsRounded
  <2>2. big \in Nat /\ big >= Unit BY <2>1, <1>1, Parts
  <2>3. k = 1 => big = Unit BY <1>1
  <2> QED BY <2>1, <2>2, <2>3, <1>8 DEF IsRounded
<1>10. again \in Nat /\ again = Lesser(Greater(back, low), w) BY <1>7, ClampIs DEF Within, Fitted
<1>11. /\ n < k => size + Unit <= big
       /\ k < n => big + Unit <= size
       /\ n = k => size = big
  BY <1>1, <1>3, <1>4, <1>9, Parts
<1>12. ASSUME NEW z \in Nat, 2 * back <= 2 * z + u \/ px = 1, 2 * z + u < 2 * back + 2 * u
       PROVE  ToPhysical(z, u) = px
  <2>1. IsRounded(px, u, z) BY <1>7, <1>12 DEF IsRounded
  <2>2. IsRounded(RoundedTo(u, z), u, z) BY <1>1, <1>12, RoundingIs
  <2> QED BY <2>1, <2>2, <1>1, <1>12, RoundingIsOne DEF ToPhysical
<1>13. ToPhysical(back, u) = px
  <2>1. 2 * back <= 2 * back + u /\ 2 * back + u < 2 * back + 2 * u BY <1>1, <1>7
  <2> QED BY <2>1, <1>7, <1>12
<1>14. big = size => ToPhysical(big, u) = px BY DEF px
<1>15. ASSUME low <= back, back <= w PROVE ToPhysical(big, u) = px
  <2>1. again = back BY <1>15, <1>1, <1>2, <1>7, <1>10 DEF Lesser, Greater
  <2>2. CASE u > Unit
    <3> HIDE DEF big, back, size, u, px, w, low, mid, again, len
    <3>1. 2 * back <= 2 * big + u BY <2>1, <2>2, <1>1, <1>7, <1>9
    <3>2. 2 * big + u < 2 * back + 2 * u BY <2>1, <2>2, <1>1, <1>7, <1>9
    <3> QED BY <3>1, <3>2, <1>9, <1>12
  <2>3. CASE u = Unit
    <3>1. IsRounded(px, Unit, back)
      <4>1. 2 * back <= 2 * back + u /\ 2 * back + u < 2 * back + 2 * u BY <1>1, <1>7
      <4> QED BY <2>3, <4>1, <1>7 DEF IsRounded
    <3>2. k = px BY <2>1, <3>1, <1>1, <1>7, <1>8, RoundingIsOne
    <3>3. big = back BY <2>3, <3>2, <1>7
    <3> QED BY <3>3, <1>13
  <2>4. CASE u < Unit
    <3> HIDE DEF big, back, size, u, px, w, low, mid, again, len
    <3>1. ~(n < k) BY <2>1, <2>4, <1>1, <1>4, <1>5, <1>7, <1>9, <1>11
    <3>2. ~(k < n) BY <2>1, <2>4, <1>1, <1>4, <1>5, <1>7, <1>9, <1>11
    <3> QED BY <3>1, <3>2, <1>4, <1>9, <1>11, <1>14
  <2> QED BY <2>2, <2>3, <2>4, <1>1
<1>16. ASSUME back < low PROVE ToPhysical(big, u) = px
  <2>1. again = low BY <1>16, <1>1, <1>2, <1>7, <1>10 DEF Lesser, Greater
  <2>2. CASE low = w
    <3>1. mid = again BY <2>1, <2>2, <1>1, <1>2
    <3>2. k = n BY <3>1, <1>1, <1>2, <1>3, <1>8, RoundingIsOne
    <3> QED BY <3>2, <1>11, <1>4, <1>9, <1>14
  <2>3. CASE low = MinSize[a] * Unit
    <3> DEFINE min == MinSize[a]
    <3>1. min \in Nat /\ min >= 2 OBVIOUS
    <3>a. low = Unit * min BY <2>3, <3>1, <1>1
    <3>2. IsRounded(min, Unit, low)
      <4>1. 2 * low <= 2 * low + Unit /\ 2 * low + Unit < 2 * low + 2 * Unit BY <1>1, <1>2
      <4> QED BY <3>1, <3>a, <4>1 DEF IsRounded
    <3>3. k = min BY <2>1, <3>2, <1>1, <1>2, <1>8, RoundingIsOne
    <3>4. big = low BY <3>3, <3>a
    <3>5. size >= low
      <4>1. (n < min => Unit * n + Unit <= Unit * min) /\ (min < n => Unit * min + Unit <= Unit * n)
            /\ n \in Nat /\ Unit * n \in Nat /\ Unit * min \in Nat
        BY <1>1, <1>4, <3>1, Parts
      <4> HIDE DEF low, mid, min, size
      <4>2. 2 * low + Unit < 2 * (Unit * n) + 2 * Unit /\ low = Unit * min
        BY <1>1, <1>2, <1>3, <1>4, <3>a
      <4>3. CASE n < min BY <4>1, <4>2, <4>3, <1>1
      <4>4. CASE min < n BY <4>1, <4>2, <4>4, <1>1, <1>3
      <4>5. CASE min = n BY <4>2, <4>5, <1>1, <1>3, <4>1
      <4> QED BY <4>1, <4>3, <4>4, <4>5, <3>1
    <3> HIDE DEF big, back, size, u, px, w, low, mid, again, len
    <3>6. 2 * back <= 2 * big + u BY <3>4, <1>16, <1>1, <1>2, <1>7
    <3>7. 2 * big + u < 2 * back + 2 * u BY <3>4, <3>5, <1>1, <1>2, <1>4, <1>7
    <3> QED BY <3>6, <3>7, <1>9, <1>12
  <2> QED BY <2>2, <2>3, <1>2
<1>17. ASSUME back > w PROVE ToPhysical(big, u) = px
  <2>1. again = w BY <1>17, <1>1, <1>2, <1>7, <1>10 DEF Lesser, Greater
  <2> HIDE DEF big, back, size, u, px, w, low, mid, again, len
  <2>2. ~(k < n) BY <2>1, <1>1, <1>2, <1>5, <1>9, <1>11, <1>4
  <2>3. size <= big BY <2>2, <1>1, <1>4, <1>9, <1>11
  <2>4. 2 * back <= 2 * big + u \/ px = 1 BY <2>3, <1>1, <1>4, <1>7, <1>9
  <2>5. CASE Unit <= u
    <3>1. 2 * big + u < 2 * back + 2 * u BY <2>1, <2>5, <1>17, <1>1, <1>7, <1>9
    <3> QED BY <2>4, <3>1, <1>9, <1>12
  <2>6. CASE Unit > u
    <3>1. ~(n < k) BY <2>1, <2>6, <1>17, <1>1, <1>4, <1>5, <1>7, <1>9, <1>11
    <3> QED BY <2>2, <3>1, <1>4, <1>9, <1>11, <1>14
  <2> QED BY <2>5, <2>6, <1>1
<1>18. ToPhysical(big, u) = px
  <2> HIDE DEF big, back, size, u, px, w, low, mid, again, len
  <2> QED BY <1>15, <1>16, <1>17, <1>1, <1>2, <1>7
<1>19. Unit <= back /\ 2 * back <= 2 * w + Unit + u /\ back <= 2 * w
  <2> HIDE DEF big, back, size, u, px, w, low, mid, again, len
  <2> QED BY <1>1, <1>2, <1>4, <1>5, <1>7
<1>20. px <= 2 * len
  <2> HIDE DEF big, back, size, px, w, low, mid, again
  <2>1. 2 * len \in Nat /\ u * (2 * len) = 2 * w BY <1>1
  <2>2. 2 * len < px => u * (2 * len) + u <= u * px BY <2>1, <1>1, <1>7, Parts
  <2> QED BY <2>1, <2>2, <1>1, <1>7, <1>19
<1>21. ToPhysical(ClampSize(m, a, back), u) = px BY <1>8, <1>18
<1> QED BY <1>4, <1>7, <1>13, <1>19, <1>20, <1>21

-----------------------------------------------------------------------------
(* A window as it was opened: its size was made to fit, and the size that   *)
(* is read back comes to as many pixels; where its origin can be.          *)
Opened(a) ==
  LET px == left.size[a]
      back == ToLogical(px, home.pixel)
  IN  /\ placed.size[a] \in Nat /\ px \in Nat /\ back \in Nat /\ back = home.pixel * px
      /\ 1 <= px /\ px <= 2 * home.length[a]
      /\ 2 * back <= 2 * WorkArea(home, a) + Unit + home.pixel
      /\ Unit <= back /\ ToPhysical(back, home.pixel) = px
      /\ ToPhysical(ClampSize(home, a, back), home.pixel) = px
      /\ ToPhysical(placed.size[a], home.pixel) = px
      /\ placed.place[a] = left.place[a] /\ left.place[a] \in Int
      /\ left.place[a] < home.from[a] + home.length[a]
      /\ 4 * (home.pixel * (home.from[a] - left.place[a])) <= Unit + home.pixel

\* Its origin is in the work area, or half of its width and of its height are.
Inside(a) == home.from[a] <= left.place[a]
Half(a) == 2 * Common(left.place[a], left.size[a], home.from[a], home.length[a]) >= left.size[a]
InSight == (\A a \in Axis : Inside(a)) \/ (\A a \in Axis : Half(a))

(* And opened a second time: where, and as large as, the next opening has it. *)
StaysPut(a) ==
  /\ Inside(a) /\ PlaceIn(Saved(left, home), home, a) = left.place[a]
  /\ ClampSize(home, a, ToLogical(left.size[a], home.pixel)) = placed.size[a]
  /\ ToPhysical(before.size[a], home.pixel) = left.size[a]

PlacementInv ==
  /\ home \in Monitor /\ primary \in Monitor /\ opened \in 0..3
  /\ opened = 0 => left \in [place : [Axis -> Int], size : [Axis -> Nat]]
  /\ opened >= 1 =>
       /\ there /\ placed \in [place : [Axis -> Int], size : [Axis -> Nat]]
       /\ InSight /\ \A a \in Axis : Opened(a)
  /\ opened >= 2 => \A a \in Axis : StaysPut(a)
  /\ opened = 3 => placed = before

(* A place in the work area, whatever was saved.                           *)
LEMMA PlaceInIs ==
  ASSUME NEW m \in Monitor, NEW a \in Axis, NEW g, NEW px,
         ToPhysical(g.size[a], m.pixel) = px, px \in Nat, px >= 1, g.place[a] \in Int
  PROVE  /\ PlaceIn(g, m, a) \in Int
         /\ m.from[a] <= PlaceIn(g, m, a) /\ PlaceIn(g, m, a) < m.from[a] + m.length[a]
         /\ px <= m.length[a] => PlaceIn(g, m, a) + px <= m.from[a] + m.length[a]
         /\ px > m.length[a] => PlaceIn(g, m, a) = m.from[a]
<1> DEFINE from == m.from[a]
           len == m.length[a]
           p == g.place[a]
<1>1. from \in Int /\ len \in Nat /\ p \in Int /\ len >= 1 BY AreaIs
<1>2. Room(g, m, a) = len - px BY DEF Room
<1>3. PlaceIn(g, m, a) = IF len - px >= 0 THEN Within(p, from, from + (len - px)) ELSE from
  BY <1>2 DEF PlaceIn
<1> HIDE DEF from, len, p
<1>4. QED BY <1>1, <1>3 DEF Within, Lesser, Greater, from, len

\* Half and half is a quarter.
LEMMA Quarter ==
  ASSUME NEW p \in Nat, NEW q \in Nat, NEW r \in Nat, NEW t \in Nat, 2 * p >= r, 2 * q >= t
  PROVE  4 * p * q >= r * t
<1>1. PICK d \in Nat, e \in Nat : 2 * p = r + d /\ 2 * q = t + e
  <2>1. 2 * p - r \in Nat /\ 2 * q - t \in Nat OBVIOUS
  <2>2. 2 * p = r + (2 * p - r) /\ 2 * q = t + (2 * q - t) OBVIOUS
  <2> QED BY <2>1, <2>2
<1>2. 4 * p * q = (2 * p) * (2 * q) OBVIOUS
<1>3. (r + d) * (t + e) = r * t + r * e + d * t + d * e OBVIOUS
<1>4. r * e >= 0 /\ d * t >= 0 /\ d * e >= 0 /\ r * t \in Int /\ r * e \in Int /\ d * t \in Int /\ d * e \in Int
  OBVIOUS
<1> QED BY <1>1, <1>2, <1>3, <1>4

(* A window that was opened is restored.                                   *)
LEMMA OpenedRestores == PlacementInv /\ opened >= 1 => Restores
<1> SUFFICES ASSUME PlacementInv, opened >= 1 PROVE Restores OBVIOUS
<1>1. there /\ home \in Monitor /\ InSight /\ \A a \in Axis : Opened(a) BY DEF PlacementInv
<1> DEFINE g == Saved(left, home)
           back(a) == ToLogical(left.size[a], home.pixel)
           part(a) == Common(left.place[a], left.size[a], home.from[a], home.length[a])
<1>2. \A a \in Axis : g.size[a] = back(a) /\ g.place[a] = left.place[a] BY DEF Saved
<1>3. \A a \in Axis : Unit <= back(a) /\ ToPhysical(back(a), home.pixel) = left.size[a]
  BY <1>1 DEF Opened
<1>4. \A a \in Axis : /\ left.place[a] \in Int /\ home.from[a] \in Int /\ home.length[a] \in Nat
                      /\ left.place[a] < home.from[a] + home.length[a]
                      /\ left.size[a] \in Nat /\ left.size[a] >= 1
  BY <1>1, AreaIs DEF Opened
<1>5. ASSUME NEW a \in Axis, NEW n \in Nat, n >= 1, Inside(a)
      PROVE  Common(left.place[a], n, home.from[a], home.length[a]) > 0
  BY <1>4, <1>5 DEF Common, Greater, Lesser, Inside
<1>6. "x" \in Axis /\ "y" \in Axis BY DEF Axis
<1>7. \A a \in Axis : part(a) \in Nat BY <1>4 DEF Common, Greater, Lesser
<1>8. CASE \A a \in Axis : Inside(a)
  <2>1. part("x") > 0 BY <1>4, <1>5, <1>6, <1>8
  <2>2. Common(left.place["y"], Strip, home.from["y"], home.length["y"]) > 0
    <3>1. Strip \in Nat /\ Strip >= 1 OBVIOUS
    <3> QED BY <3>1, <1>5, <1>6, <1>8
  <2> HIDE DEF g, back
  <2>3. \A a \in Axis : g.size[a] >= Unit
    BY <1>1, <1>2, <1>3 DEF Opened, back
  <2>4. ToPhysical(g.size["x"], home.pixel) = left.size["x"] BY <1>2, <1>3, <1>6
  <2>5. Restorable(g, home)
    BY <1>2, <1>6, <2>1, <2>2, <2>3, <2>4 DEF Restorable
  <2> QED BY <1>1, <2>5 DEF Restores, g
<1>9. CASE \A a \in Axis : Half(a)
  <2>1. 4 * part("x") * part("y") >= left.size["x"] * left.size["y"]
    <3>1. 2 * part("x") >= left.size["x"] /\ 2 * part("y") >= left.size["y"]
      BY <1>6, <1>9 DEF Half
    <3>2. part("x") \in Nat /\ part("y") \in Nat /\ left.size["x"] \in Nat /\ left.size["y"] \in Nat
      BY <1>4, <1>6, <1>7
    <3> HIDE DEF part
    <3> QED BY <3>1, <3>2, Quarter
  <2> HIDE DEF g, back
  <2>3. \A a \in Axis : g.size[a] >= Unit
    BY <1>1, <1>2, <1>3 DEF Opened, back
  <2>4. \A a \in Axis : ToPhysical(g.size[a], home.pixel) = left.size[a] BY <1>2, <1>3
  <2>5. Restorable(g, home)
    BY <1>2, <1>6, <2>1, <2>3, <2>4 DEF Restorable
  <2> QED BY <1>1, <2>5 DEF Restores, g
<1> QED BY <1>1, <1>8, <1>9 DEF InSight

\* A window of at most twice the work area, centred, and off by no more than a rounding.
LEMMA CentredIs ==
  ASSUME NEW u \in Nat \ {0}, NEW from \in Int, NEW len \in Nat, len >= 1,
         NEW px \in Nat, px >= 1, px <= 2 * len, 2 * (u * px) <= 2 * (u * len) + Unit + u,
         NEW place, place = from + HalfTowardsZero(len - px)
  PROVE  /\ place \in Int /\ place < from + len
         /\ 4 * (u * (from - place)) <= Unit + u
         /\ 2 * Common(place, px, from, len) >= px
<1>1. CASE px <= len
  <2>1. PICK h : h = (len - px) \div 2 OBVIOUS
  <2>2. h \in Int /\ 0 <= h /\ h <= len - px BY <1>1, <2>1
  <2>3. place = from + h BY <1>1, <2>1 DEF HalfTowardsZero
  <2>4. 4 * (u * (from - place)) <= 0
    <3>1. from - place = -h /\ u * (-h) = -(u * h) /\ u * h >= 0 /\ u * h \in Int BY <2>2, <2>3
    <3> QED BY <3>1
  <2> QED BY <2>2, <2>3, <2>4, <1>1 DEF Common, Greater, Lesser
<1>2. CASE px > len
  <2>1. PICK h : h = (px - len) \div 2 OBVIOUS
  <2>2. h \in Nat /\ 2 * h <= px - len BY <1>2, <2>1
  <2>3. place = from - h
    <3>1. -(len - px) = px - len OBVIOUS
    <3> QED BY <1>2, <2>1, <3>1 DEF HalfTowardsZero
  <2>4. 4 * (u * (from - place)) <= Unit + u
    <3>1. from - place = h BY <2>2, <2>3
    <3>2. PICK d \in Nat : px = len + 2 * h + d
      <4>1. px - len - 2 * h \in Nat /\ px = len + 2 * h + (px - len - 2 * h) BY <2>2
      <4> QED BY <4>1
    <3>3. u * px = u * len + 2 * (u * h) + u * d BY <2>2, <3>2
    <3>4. u * d >= 0 /\ u * d \in Int /\ u * len \in Int /\ u * h \in Int BY <2>2
    <3> QED BY <3>1, <3>3, <3>4
  <2> QED BY <2>2, <2>3, <2>4, <1>2 DEF Common, Greater, Lesser
<1> QED BY <1>1, <1>2

(* What an opening makes of one axis.                                      *)
LEMMA OpensOne ==
  ASSUME PlacementInv, OpenWindow, NEW a \in Axis
  PROVE  /\ Opened(a)' /\ (Restores => Inside(a)') /\ (~Restores => Half(a)')
         /\ placed'.size[a] \in Nat /\ placed'.place[a] \in Int
         /\ opened >= 1 => StaysPut(a)'
         /\ opened >= 2 => placed'.size[a] = placed.size[a] /\ placed'.place[a] = placed.place[a]
<1>1. /\ left.size[a] \in Nat /\ left.place[a] \in Int /\ home \in Monitor /\ primary \in Monitor
      /\ opened \in 0..2
  BY DEF PlacementInv, OpenWindow, Opened
<1>2. PICK mon : mon = home' /\ mon \in Monitor BY <1>1 DEF OpenWindow
<1>3. /\ mon.pixel \in Nat \ {0} /\ mon.from[a] \in Int /\ mon.length[a] \in Nat /\ mon.length[a] >= 1
      /\ WorkArea(mon, a) = mon.pixel * mon.length[a] /\ WorkArea(mon, a) \in Nat
      /\ home.pixel \in Nat \ {0}
  BY <1>1, <1>2, AreaIs
<1> DEFINE g == Saved(left, home)
           back == ToLogical(left.size[a], home.pixel)
           tenths == (9 * WorkArea(mon, a)) \div 10
           center == mon.from[a] + HalfTowardsZero(mon.length[a]
                       - ToPhysical(ClampSize(mon, a, tenths), mon.pixel))
<1>4. g.size[a] = back /\ g.place[a] = left.place[a] BY DEF Saved
<1>5. back \in Nat /\ tenths \in Nat
  <2>1. back \in Nat BY <1>1, <1>3 DEF ToLogical
  <2>2. tenths \in Nat BY <1>3
  <2> QED BY <2>1, <2>2
<1>6. Restores => /\ mon = home /\ placed'.size[a] = ClampSize(mon, a, back)
                  /\ placed'.place[a] = PlaceIn(g, mon, a)
  BY <1>2, <1>4 DEF OpenWindow, ClampToWorkArea
<1>7. ~Restores => placed'.size[a] = ClampSize(mon, a, tenths) /\ placed'.place[a] = center
  BY <1>2 DEF OpenWindow, DefaultCentered
<1>8. left'.place[a] = placed'.place[a] /\ left'.size[a] = ToPhysical(placed'.size[a], mon.pixel)
  BY <1>2 DEF OpenWindow
<1>9. PICK v : v \in Nat /\ placed'.size[a] = ClampSize(mon, a, v)
  BY <1>5, <1>6, <1>7
<1>10. PICK px : px = left'.size[a] OBVIOUS
<1>11. LET again == ToLogical(px, mon.pixel)
       IN /\ placed'.size[a] \in Nat /\ px \in Nat /\ again \in Nat /\ again = mon.pixel * px
          /\ 1 <= px /\ px <= 2 * mon.length[a]
          /\ 2 * again <= 2 * WorkArea(mon, a) + Unit + mon.pixel
          /\ Unit <= again /\ ToPhysical(again, mon.pixel) = px
          /\ ToPhysical(ClampSize(mon, a, again), mon.pixel) = px
          /\ ToPhysical(placed'.size[a], mon.pixel) = px
  BY <1>2, <1>8, <1>9, <1>10, SizeSettles
<1>12. PICK place : place = placed'.place[a] OBVIOUS
<1>13. ToPhysical(back, home.pixel) \in Nat /\ ToPhysical(back, home.pixel) >= 1
  BY <1>3, <1>5, RoundingIs DEF ToPhysical, IsRounded
<1>14. /\ place \in Int /\ place < mon.from[a] + mon.length[a]
       /\ 4 * (mon.pixel * (mon.from[a] - place)) <= Unit + mon.pixel
       /\ Restores => mon.from[a] <= place
       /\ ~Restores => 2 * Common(place, px, mon.from[a], mon.length[a]) >= px
  <2>1. CASE Restores
    <3>1. place \in Int /\ mon.from[a] <= place /\ place < mon.from[a] + mon.length[a]
      BY <2>1, <1>1, <1>2, <1>4, <1>6, <1>12, <1>13, PlaceInIs
    <3>2. 4 * (mon.pixel * (mon.from[a] - place)) <= Unit + mon.pixel
      <4>1. PICK h \in Nat : mon.from[a] - place = -h
        <5>1. place - mon.from[a] \in Nat /\ mon.from[a] - place = -(place - mon.from[a])
          BY <3>1, <1>3
        <5> QED BY <5>1
      <4>2. mon.pixel * (-h) = -(mon.pixel * h) /\ mon.pixel * h >= 0 /\ mon.pixel * h \in Int
        BY <1>3
      <4> QED BY <4>1, <4>2, <1>3
    <3> QED BY <2>1, <3>1, <3>2
  <2>2. CASE ~Restores
    <3>1. place = mon.from[a] + HalfTowardsZero(mon.length[a] - px)
      BY <2>2, <1>7, <1>8, <1>10, <1>12
    <3>2. 2 * (mon.pixel * px) <= 2 * (mon.pixel * mon.length[a]) + Unit + mon.pixel
      BY <1>3, <1>11
    <3> QED BY <2>2, <3>1, <3>2, <1>3, <1>11, CentredIs
  <2> QED BY <2>1, <2>2
<1>15. Opened(a)' BY <1>2, <1>8, <1>10, <1>11, <1>12, <1>14 DEF Opened
<1>i. (Restores => Inside(a)') /\ (~Restores => Half(a)')
  BY <1>2, <1>8, <1>10, <1>12, <1>14 DEF Inside, Half
<1>16. ASSUME opened >= 1 PROVE StaysPut(a)' /\ px = left.size[a]
  <2>1. Restores /\ Opened(a) BY <1>16, OpenedRestores DEF PlacementInv
  <2>2. /\ placed'.size[a] = ClampSize(mon, a, back) /\ mon = home
        /\ ToPhysical(back, mon.pixel) = left.size[a]
    BY <2>1, <1>6 DEF Opened
  <2>3. px = left.size[a] BY <2>1, <2>2, <1>8, <1>10 DEF Opened
  <2>4. Room(g, mon, a) = mon.length[a] - px /\ place = PlaceIn(g, mon, a)
    BY <2>1, <2>2, <2>3, <1>4, <1>6, <1>12 DEF Room
  <2> DEFINE h == Saved(left, home)'
  <2>5. h.place[a] = place /\ h.size[a] = ToLogical(px, mon.pixel)
    BY <1>2, <1>8, <1>10, <1>12 DEF Saved
  <2>6. Room(h, mon, a) = mon.length[a] - px BY <2>5, <1>11 DEF Room
  <2> HIDE DEF g, h
  <2>7. PICK room : room = mon.length[a] - px /\ room \in Int BY <1>3, <1>11
  <2>8. PlaceIn(h, mon, a) = place
    <3>1. CASE room >= 0
      <4>1. place = Within(g.place[a], mon.from[a], mon.from[a] + room)
        BY <3>1, <2>4, <2>7 DEF PlaceIn
      <4>2. PlaceIn(h, mon, a) = Within(place, mon.from[a], mon.from[a] + room)
        BY <3>1, <2>5, <2>6, <2>7 DEF PlaceIn
      <4> QED BY <3>1, <4>1, <4>2, <1>1, <1>3, <1>4, <2>7 DEF Within, Lesser, Greater, g
    <3>2. CASE ~(room >= 0)
      BY <3>2, <2>4, <2>6, <2>7 DEF PlaceIn
    <3> QED BY <3>1, <3>2
  <2>9. ClampSize(mon, a, ToLogical(px, mon.pixel)) = placed'.size[a] BY <2>2, <2>3
  <2>10. before' = placed /\ ToPhysical(placed.size[a], mon.pixel) = px
    BY <2>1, <2>2, <2>3 DEF Opened, OpenWindow
  <2> QED BY <2>1, <2>3, <2>8, <2>9, <2>10, <1>i, <1>2, <1>8, <1>10, <1>12 DEF StaysPut, h
<1>17. ASSUME opened >= 2
       PROVE  placed'.place[a] = placed.place[a] /\ placed'.size[a] = placed.size[a]
  <2>1. Restores /\ StaysPut(a) /\ Opened(a) BY <1>17, OpenedRestores DEF PlacementInv
  <2> QED BY <2>1, <1>6 DEF StaysPut, Opened
<1> QED BY <1>11, <1>12, <1>14, <1>15, <1>i, <1>16, <1>17

(* A round of closing and opening keeps the invariant. *)
LEMMA OpensAll == PlacementInv /\ [PlacementNext]_placementVars => PlacementInv'
<1> SUFFICES ASSUME PlacementInv, [PlacementNext]_placementVars PROVE PlacementInv' OBVIOUS
<1>1. CASE OpenWindow
  <2>1. home' \in Monitor /\ primary' \in Monitor /\ opened' \in 1..3 /\ opened' = opened + 1
        /\ there' = TRUE /\ before' = placed
    BY <1>1 DEF OpenWindow, PlacementInv
  <2>2. \E place, size : placed' = [place |-> [a \in Axis |-> place[a]],
                                    size |-> [a \in Axis |-> size[a]]]
    <3> DEFINE g == Saved(left, home)
               sizes(m) == [a \in Axis |-> ClampSize(m, a, (9 * WorkArea(m, a)) \div 10)]
    <3>1. CASE Restores
      <4> DEFINE place == [a \in Axis |-> PlaceIn(g, home, a)]
                 size == [a \in Axis |-> ClampSize(home, a, g.size[a])]
      <4>1. placed' = [place |-> place, size |-> size]
        BY <3>1, <1>1 DEF OpenWindow, ClampToWorkArea
      <4>2. place = [a \in Axis |-> place[a]] /\ size = [a \in Axis |-> size[a]] OBVIOUS
      <4> HIDE DEF place, size
      <4> QED BY <4>1, <4>2
    <3>2. CASE ~Restores
      <4> DEFINE size == sizes(primary)
                 place == [a \in Axis |-> primary.from[a]
                             + HalfTowardsZero(primary.length[a] - ToPhysical(size[a], primary.pixel))]
      <4>1. placed' = [place |-> place, size |-> size]
        BY <3>2, <1>1 DEF OpenWindow, DefaultCentered
      <4>2. place = [a \in Axis |-> place[a]] /\ size = [a \in Axis |-> size[a]] OBVIOUS
      <4> HIDE DEF place, size
      <4> QED BY <4>1, <4>2
    <3> QED BY <3>1, <3>2
  <2>3. \A a \in Axis : placed'.size[a] \in Nat /\ placed'.place[a] \in Int BY <1>1, OpensOne
  <2>4. placed' \in [place : [Axis -> Int], size : [Axis -> Nat]] BY <2>2, <2>3
  <2>5. \A a \in Axis : Opened(a)' BY <1>1, OpensOne
  <2>6. opened >= 1 => \A a \in Axis : StaysPut(a)' BY <1>1, OpensOne
  <2>s. InSight' BY <1>1, OpensOne DEF InSight
  <2>7. opened >= 2 => placed' = placed
    <3> SUFFICES ASSUME opened >= 2 PROVE placed' = placed OBVIOUS
    <3>1. opened >= 1 BY DEF PlacementInv
    <3>2. \A a \in Axis : placed'.place[a] = placed.place[a] /\ placed'.size[a] = placed.size[a]
      BY <1>1, OpensOne
    <3>3. placed \in [place : [Axis -> Int], size : [Axis -> Nat]] BY <3>1 DEF PlacementInv
    <3>4. placed'.place = placed.place /\ placed'.size = placed.size BY <3>2, <3>3, <2>4
    <3> QED BY <3>1, <3>3, <3>4, <2>4
  <2> QED BY <2>1, <2>4, <2>5, <2>6, <2>s, <2>7 DEF PlacementInv
<1>2. CASE UNCHANGED placementVars
  BY <1>2 DEF placementVars, PlacementInv, Opened, StaysPut, InSight, Inside, Half
<1> QED BY <1>1, <1>2 DEF PlacementNext

(* On whatever monitors a window was left, at whatever scales, small or     *)
(* large, in sight or off it: it is opened with its origin in the work area *)
(* but for a rounding, the second time all in it but for a rounding, and    *)
(* from then on where and as large as it was (resolve_open_placement,      *)
(* clamp_geometry_to_work_area).                                            *)
THEOREM WindowsStayPut == PlacementSpec => []PlacedWell
<1>1. PlacementInit => PlacementInv
  <2> SUFFICES ASSUME PlacementInit PROVE PlacementInv OBVIOUS
  <2>1. left \in [place : [Axis -> Position], size : [Axis -> Size]] BY DEF PlacementInit
  <2>2. left \in [place : [Axis -> Int], size : [Axis -> Nat]] BY <2>1
  <2>3. home \in Monitor /\ primary \in Monitor /\ opened = 0 BY DEF PlacementInit
  <2> QED BY <2>2, <2>3 DEF PlacementInv
<1>2. PlacementInv => PlacedWell
  <2> SUFFICES ASSUME PlacementInv PROVE PlacedWell OBVIOUS
  <2>1. home \in Monitor /\ home.pixel \in Nat \ {0} /\ Unit \in Nat
        /\ \A a \in Axis : home.from[a] \in Int /\ home.length[a] \in Nat
    <3>1. home \in Monitor BY DEF PlacementInv
    <3> QED BY <3>1
  <2>2. opened >= 1 => \A a \in Axis :
          /\ left.place[a] < home.from[a] + home.length[a]
          /\ 4 * (home.pixel * (home.from[a] - left.place[a])) <= Unit + home.pixel
    BY DEF PlacementInv, Opened
  <2>3. ASSUME opened >= 2, NEW a \in Axis
        PROVE  /\ home.from[a] <= left.place[a]
               /\ 2 * (home.pixel * (left.place[a] + left.size[a] - (home.from[a] + home.length[a])))
                    <= Unit + home.pixel
               /\ ToPhysical(before.size[a], home.pixel) = left.size[a]
    <3> DEFINE g == Saved(left, home)
               u == home.pixel
               px == left.size[a]
               len == home.length[a]
               past == left.place[a] + px - (home.from[a] + len)
    <3>1. Opened(a) /\ StaysPut(a) BY <2>3 DEF PlacementInv
    <3>2. g.place[a] = left.place[a] /\ g.size[a] = ToLogical(px, u)
      BY DEF Saved
    <3>3. /\ ToPhysical(g.size[a], u) = px /\ px \in Nat /\ px >= 1 /\ g.place[a] \in Int
          /\ 2 * (u * px) <= 2 * (u * len) + Unit + u
      BY <3>1, <3>2, <2>1, AreaIs DEF Opened
    <3>4. PlaceIn(g, home, a) = left.place[a] BY <3>1 DEF StaysPut
    <3>5. /\ px <= len => left.place[a] + px <= home.from[a] + len
          /\ px > len => left.place[a] = home.from[a]
      BY <3>3, <3>4, <2>1, PlaceInIs
    <3>6. left.place[a] \in Int BY <3>2, <3>3
    <3>7. past \in Int /\ (px > len => past = px - len) /\ (px <= len => past <= 0)
      BY <3>3, <3>5, <3>6, <2>1
    <3>8. CASE px > len
      <4>1. u * past = u * px - u * len BY <3>7, <3>8, <3>3, <2>1
      <4>2. u * px \in Int /\ u * len \in Int BY <3>3, <2>1
      <4>3. 2 * (u * past) <= Unit + u
        <5> HIDE DEF past, u, px, len
        <5> QED BY <4>1, <4>2, <3>3, <2>1 DEF u
      <4> QED BY <4>3, <3>1 DEF StaysPut, Inside
    <3>9. CASE px <= len
      <4>1. past < 0 => u * past + u <= u * 0 BY <3>7, <2>1, Parts
      <4>2. u * 0 = 0 BY <2>1
      <4>3. past = 0 \/ past < 0 BY <3>7, <3>9
      <4>4. u * past <= 0 /\ u * past \in Int
        <5>1. u * past \in Int BY <3>7, <2>1
        <5> HIDE DEF past
        <5> QED BY <5>1, <4>1, <4>2, <4>3, <2>1
      <4>5. 2 * (u * past) <= Unit + u
        <5> HIDE DEF past
        <5> QED BY <4>4, <2>1
      <4> QED BY <4>5, <3>1 DEF StaysPut, Inside
    <3> QED BY <3>8, <3>9, <3>3, <2>1
  <2> QED BY <2>2, <2>3 DEF PlacedWell, PlacementInv
<1> QED BY <1>1, <1>2, OpensAll, PTL DEF PlacementSpec
=============================================================================
