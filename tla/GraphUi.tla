------------------------------- MODULE GraphUi -------------------------------
(***************************************************************************)
(* The graph window's server (src-tauri/src/services/graph_ui.rs,          *)
(* cbm_ui_config.rs): Lounge starts codebase-memory-mcp with --ui=true     *)
(* --port=N, which writes both into a config.json that every other session *)
(* of that program on the machine reads; Lounge remembers the file, keeps  *)
(* the copy in its settings, and puts it back once the server answers.     *)
(* Crashes, exits, other programs on the port, a shared daemon that starts *)
(* or stops, edits of the file and failing reads and writes come between   *)
(* any two awaits.  The hygiene of the startup is a task of its own, which *)
(* enabling does not wait for.  One call enables at a time: the button is  *)
(* busy meanwhile.                                                         *)
(***************************************************************************)
EXTENDS FiniteSetsExt, Integers

CONSTANTS
  Port,       \* the ports of the band, naturals above 0
  MaxChanges  \* bound: crashes, edits, failing reads and writes, and changes of the
              \* daemon and of the port's holder

ASSUME GraphConstants == Port \subseteq Nat \ {0} /\ Port # {} /\ MaxChanges \in Nat

VARIABLES
  file,       \* config.json: absent, legible or broken; the port of our footprint,
              \* or 0 and the version of what its owner wrote
  marker,     \* graph_ui_cbm_config_migrated
  kept,       \* graph_ui_cbm_config_snapshot, in the settings
  snap,       \* cbm_config_snapshot, in memory
  uiChild,    \* the server Lounge started
  foreign,    \* the port another program listens on, or 0
  daemon,     \* a shared daemon is active
  startup,    \* the startup task
  loaded,     \* the copy it has loaded from the settings
  step, call, \* the enabling call: its mode, its port, its first or second try
  over,       \* history: a daemon has been active since before the call
  promised,   \* history: the version the file must keep, -1 for none
  changes

graphVars == <<file, marker, kept, snap, uiChild, foreign, daemon, startup, loaded, step, call,
               over, promised, changes>>
shared == <<file, promised>>
hygiene == <<startup, loaded, marker>>
outside == <<foreign, daemon, over>>

UnmarkedFile(k) == [kind |-> k, port |-> 0, ver |-> 0]
NoFile == UnmarkedFile("absent")
Footprint(p) == [kind |-> "legible", port |-> p, ver |-> 0]
NoSnap == [port |-> 0, was |-> NoFile]
NoChild == [stage |-> "none", port |-> 0]
NoCall == [mode |-> "auto", sel |-> 0, again |-> FALSE]

\* An older release may have left its footprint, with or without a copy of the file,
\* where no migration has run.
GraphInit ==
  /\ marker \in BOOLEAN
  /\ file \in {UnmarkedFile(k) : k \in {"absent", "legible", "broken"}} \cup
              {Footprint(p) : p \in IF marker THEN {} ELSE Port}
  /\ kept \in {NoSnap} \cup {[port |-> file.port, was |-> UnmarkedFile(k)] :
                               k \in IF file.port # 0 THEN {"absent", "legible"} ELSE {}}
  /\ snap = NoSnap /\ uiChild = NoChild /\ foreign = 0 /\ daemon = FALSE
  /\ startup = "load" /\ loaded = NoSnap
  /\ step = "idle" /\ call = NoCall /\ over = FALSE /\ promised = 0 /\ changes = 0

-----------------------------------------------------------------------------
(* The file and the settings.                                              *)

Changed == changes < MaxChanges /\ changes' = changes + 1

\* Mutant: restore without comparing.
RestoredBlindly(f, s) == IF s.port # 0 THEN s.was ELSE f

\* Compare and restore: only what still shows the footprint of the snapshot's
\* port is put back, removed where there was no file.
RestoredFile(f, s) == IF s.port # 0 /\ f.port = s.port THEN s.was ELSE f

\* The one-time migration: a footprint of any port of the band goes back to a clean
\* snapshot, else to "off, 9749", which is no version anybody wrote.
Migrated(f, s) ==
  IF f.port = 0 THEN f
  ELSE IF s.port # 0 /\ s.was.kind = "legible" /\ s.was.port = 0 THEN s.was
  ELSE [f EXCEPT !.port = 0]

\* The file becomes f, or the read or the write fails: a footprint then stays.
FileBecomes(f) ==
  \/ file' = f /\ UNCHANGED <<promised, changes>>
  \/ f # file /\ Changed /\ promised' = -1 /\ UNCHANGED file

\* A failing write of the settings is logged at most.
KeptBecomes(s) ==
  \/ kept' = s /\ UNCHANGED changes
  \/ s # kept /\ Changed /\ UNCHANGED kept

\* restore_cbm_config_best_effort: take the snapshot, then restore; it is gone either way.
GiveBack == snap' = NoSnap /\ FileBecomes(RestoredFile(file, snap))

-----------------------------------------------------------------------------
(* The startup task: loads the copy, repairs the file, marks, clears.      *)

Load ==
  /\ step # "down" /\ startup = "load" /\ startup' = "repair" /\ loaded' = kept
  /\ UNCHANGED <<marker, kept, snap, uiChild, step, call, changes, shared, outside>>

AfterRepair == IF loaded.port # 0 THEN "clear" ELSE "done"

\* After the migration: crash recovery, whose failure is logged.
Recover ==
  /\ step # "down" /\ startup = "repair" /\ marker /\ startup' = AfterRepair
  /\ FileBecomes(RestoredFile(file, loaded))
  /\ UNCHANGED <<marker, loaded, kept, snap, uiChild, step, call, outside>>

\* The migration, whose failure ends the task.
Migrate ==
  /\ step # "down" /\ startup = "repair" /\ ~marker
  /\ FileBecomes(Migrated(file, loaded))
  /\ startup' = IF file.kind = "broken" \/ changes' # changes THEN "done" ELSE "mark"
  /\ UNCHANGED <<marker, loaded, kept, snap, uiChild, step, call, outside>>

Mark ==
  /\ step # "down" /\ startup = "mark"
  /\ \/ marker' = TRUE /\ startup' = AfterRepair /\ UNCHANGED changes
     \/ Changed /\ startup' = "done" /\ UNCHANGED marker
  /\ UNCHANGED <<loaded, kept, snap, uiChild, step, call, shared, outside>>

ClearKept ==
  /\ step # "down" /\ startup = "clear" /\ startup' = "done" /\ KeptBecomes(NoSnap)
  /\ UNCHANGED <<marker, loaded, snap, uiChild, step, call, shared, outside>>

-----------------------------------------------------------------------------
(* Enabling.                                                               *)

Owned(p) == uiChild.stage = "up" /\ uiChild.port = p

\* The preference is what the user or the startup task last made it: any port, any mode.
Enable ==
  /\ step = "idle" /\ step' = "probe" /\ over' = daemon
  /\ \E m \in {"auto", "user"}, p \in Port : call' = [mode |-> m, sel |-> p, again |-> FALSE]
  /\ UNCHANGED <<hygiene, kept, snap, uiChild, foreign, daemon, changes, shared>>

\* The answer may be a few seconds old.
ProbeDaemon ==
  /\ step = "probe"
  /\ \/ step' = "idle"
     \/ step' = "select" /\ ~Owned(call.sel)
  /\ UNCHANGED <<hygiene, kept, snap, uiChild, call, changes, shared, outside>>

\* select_graph_ui_port: 0 is "no port".
Selected(preferred, avoid) ==
  LET free == Port \ {foreign, avoid}
  IN  CASE preferred \in free -> preferred
        [] preferred \notin free /\ call.mode = "auto" /\ free # {} -> Min(free)
        [] OTHER -> 0

Select ==
  /\ step = "select"
  /\ LET p == Selected(call.sel, 0)
     IN  /\ step' = IF p = 0 \/ Owned(p) THEN "idle" ELSE "recheck"
         /\ call' = [call EXCEPT !.sel = p]
  /\ UNCHANGED <<hygiene, kept, snap, uiChild, changes, shared, outside>>

\* A fresh probe: no answer blocks like an active daemon.
Recheck ==
  /\ step = "recheck"
  /\ \/ step' = "idle"
     \/ step' = "snapshot" /\ ~daemon
  /\ UNCHANGED <<hygiene, kept, snap, uiChild, call, changes, shared, outside>>

\* What a copy taken while the startup task runs may undo, or be undone by, is promised
\* to nobody.
Snapshot ==
  /\ step = "snapshot" /\ step' = "spawn" /\ (snap.port # 0 \/ file.kind # "broken")
  /\ snap' = [port |-> call.sel, was |-> IF snap.port # 0 THEN snap.was ELSE file]
  /\ KeptBecomes(IF snap.port # 0 THEN kept ELSE snap')
  /\ promised' = IF startup # "done" THEN -1 ELSE promised
  /\ UNCHANGED <<hygiene, file, uiChild, call, outside>>

\* No path, or a file that cannot be read or parsed: the server is started without a copy.
SkipSnapshot ==
  /\ step = "snapshot" /\ step' = "spawn" /\ snap.port = 0
  /\ IF file.kind = "broken" THEN UNCHANGED changes ELSE Changed
  /\ promised' = IF startup # "done" THEN -1 ELSE promised
  /\ UNCHANGED <<hygiene, file, kept, snap, uiChild, call, outside>>

SpawnGraphUi ==
  /\ step = "spawn"
  /\ \/ /\ uiChild' = [stage |-> "new", port |-> call.sel] /\ step' = "wait"
        /\ UNCHANGED <<shared, snap, changes>>
     \/ step' = "undo" /\ GiveBack /\ UNCHANGED uiChild
  /\ UNCHANGED <<hygiene, kept, call, outside>>

KillSpawnedChild == uiChild' = NoChild /\ GiveBack

UiReady ==
  /\ step = "wait" /\ (Owned(call.sel) \/ foreign = call.sel) /\ step' = "own"
  /\ UNCHANGED <<hygiene, kept, snap, uiChild, call, changes, shared, outside>>

GiveUp ==
  /\ \/ step = "wait" /\ ~Owned(call.sel)
     \/ step = "own"
  /\ KillSpawnedChild /\ step' = "undo"
  /\ UNCHANGED <<hygiene, kept, call, outside>>

AdoptUi ==
  /\ step = "own" /\ Owned(call.sel)
  /\ GiveBack /\ step' = "forget"
  /\ UNCHANGED <<hygiene, kept, uiChild, call, outside>>

Forget ==
  /\ step = "forget" /\ KeptBecomes(NoSnap) /\ step' = "idle"
  /\ UNCHANGED <<hygiene, snap, uiChild, call, shared, outside>>

\* After a failure: one more port, in the automatic mode only.
Undo ==
  /\ step = "undo" /\ KeptBecomes(NoSnap)
  /\ LET next == IF call.again \/ call.mode = "user" THEN 0 ELSE Selected(call.sel + 1, call.sel)
     IN  /\ step' = IF next = 0 THEN "idle" ELSE "recheck"
         /\ call' = IF next = 0 THEN call ELSE [call EXCEPT !.sel = next, !.again = TRUE]
  /\ UNCHANGED <<hygiene, snap, uiChild, shared, outside>>

-----------------------------------------------------------------------------
(* The server, the exit, and what happens outside.                         *)

\* What the server overwrites is promised only where Lounge has a copy of it.
ChildWrites ==
  /\ uiChild.stage = "new" /\ uiChild' = [uiChild EXCEPT !.stage = "wrote"]
  /\ file' = Footprint(uiChild.port)
  /\ promised' = IF snap.port = 0 THEN -1 ELSE promised
  /\ UNCHANGED <<hygiene, kept, snap, step, call, changes, outside>>

ChildServes ==
  /\ uiChild.stage = "wrote" /\ foreign # uiChild.port
  /\ uiChild' = [uiChild EXCEPT !.stage = "up"]
  /\ UNCHANGED <<hygiene, kept, snap, step, call, changes, shared, outside>>

Ends == step # "down" /\ step' = "down" /\ startup' = "load" /\ loaded' = NoSnap /\ call' = NoCall

\* The main window closes and the process exits: the snapshot in the settings stays.
Exit ==
  /\ Ends /\ KillSpawnedChild
  /\ UNCHANGED <<marker, kept, outside>>

LoungeStarts ==
  /\ step = "down" /\ step' = "idle"
  /\ UNCHANGED <<hygiene, kept, snap, uiChild, call, changes, shared, outside>>

\* The process dies.  Its server sees the end of its stdin and goes, having written
\* the file or not by the time Lounge is started again.  A footprint whose copy did not
\* reach the settings stays.
Crash ==
  /\ Changed /\ Ends
  /\ \/ UNCHANGED file
     \/ uiChild.stage = "new" /\ file' = Footprint(uiChild.port)
  /\ promised' = IF /\ file'.port # 0 /\ (uiChild.stage = "new" \/ snap.port # 0)
                    /\ snap.port = 0 \/ kept # snap
                 THEN -1 ELSE promised
  /\ uiChild' = NoChild /\ snap' = NoSnap
  /\ UNCHANGED <<marker, kept, outside>>

ServerDies ==
  /\ Changed /\ uiChild.stage \in {"new", "wrote", "up"} /\ uiChild' = NoChild
  /\ UNCHANGED <<hygiene, kept, snap, step, call, shared, outside>>

\* Between Lounge's read of the file and its server's write an edit is lost, and promised nothing.
Doomed == step = "spawn" \/ uiChild.stage = "new"

EditFile ==
  /\ Changed
  /\ \E k \in {"legible", "broken"} : file' = [kind |-> k, port |-> 0, ver |-> changes']
  /\ promised' = IF Doomed THEN -1 ELSE changes'
  /\ UNCHANGED <<hygiene, kept, snap, uiChild, step, call, outside>>

DaemonTurns ==
  /\ Changed /\ daemon' = ~daemon /\ over' = FALSE
  /\ UNCHANGED <<hygiene, kept, snap, uiChild, step, call, foreign, shared>>

PortTaken(p) ==
  /\ Changed /\ foreign' = p /\ p # foreign /\ ~Owned(p)
  /\ UNCHANGED <<hygiene, kept, snap, uiChild, step, call, daemon, over, shared>>

GraphNext ==
  \/ Load \/ Recover \/ Migrate \/ Mark \/ ClearKept
  \/ Enable \/ ProbeDaemon \/ Select \/ Recheck
  \/ Snapshot \/ SkipSnapshot \/ SpawnGraphUi
  \/ UiReady \/ GiveUp \/ AdoptUi \/ Forget \/ Undo
  \/ ChildWrites \/ ChildServes \/ Exit \/ LoungeStarts
  \/ Crash \/ ServerDies \/ EditFile \/ DaemonTurns
  \/ \E p \in Port \cup {0} : PortTaken(p)

GraphSpec == GraphInit /\ [][GraphNext]_graphVars

-----------------------------------------------------------------------------
File == [kind : {"absent", "legible", "broken"}, port : Port \cup {0}, ver : 0..MaxChanges]
Snap == [port : Port \cup {0}, was : File]

\* Every variable of the graph server has its type.
GraphTypeOK ==
  /\ file \in File /\ marker \in BOOLEAN /\ kept \in Snap /\ snap \in Snap /\ loaded \in Snap
  /\ uiChild \in [stage : {"none", "new", "wrote", "up"}, port : Port \cup {0}]
  /\ foreign \in Port \cup {0} /\ daemon \in BOOLEAN
  /\ startup \in {"load", "repair", "mark", "clear", "done"}
  /\ step \in {"down", "idle", "probe", "select", "recheck", "snapshot", "spawn", "wait", "own",
              "forget", "undo"}
  /\ call \in [mode : {"auto", "user"}, sel : Port \cup {0}, again : BOOLEAN]
  /\ over \in BOOLEAN /\ promised \in -1..MaxChanges /\ changes \in 0..MaxChanges

\* A call made under a daemon that goes on starts no server, whatever was cached
\* (graph_ui.rs:1421-1425).  And unless Lounge could not copy the file its server wrote over,
\* could not put the copy back or into the settings in time, or took it while the startup task
\* was at work - until the file's owner writes it again: the footprint shows only while a
\* server is awaited, Lounge is down or the startup task is at work, and what others wrote,
\* but for the moment before our server overwrites it, is never undone by the restore of a
\* snapshot taken earlier, in this run of Lounge or after a crash.
ConfigGivenBack ==
  /\ step \in {"snapshot", "spawn", "wait", "own"} => ~over
  /\ promised # -1 =>
       /\ file.port # 0 => step \in {"down", "wait", "own"} \/ startup # "done"
       /\ file.port = 0 => file.ver = promised
=============================================================================
