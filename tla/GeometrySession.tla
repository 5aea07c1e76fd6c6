---------------------------- MODULE GeometrySession ----------------------------
(***************************************************************************)
(* Where the windows were (src-tauri/src/services/window_geometry.rs): a   *)
(* cache in memory, filled by window events and by the command that makes  *)
(* the graph window anew, and a file it is merged into, after a pause in   *)
(* the events (PERSIST_DEBOUNCE) or at once.  A timer knows by its         *)
(* generation whether something came after it.                             *)
(*                                                                         *)
(* Main is the thread of the window events, UiCommand that of the command; *)
(* a timer is named by its generation.  A place is what is read of a       *)
(* window, its monitor included; it is read without a lock, and kept       *)
(* under one, so of two threads that read a window the later reading may   *)
(* be kept first.                                                          *)
(***************************************************************************)
EXTENDS Naturals

CONSTANTS
  Window, Place, Nowhere,
  Graph,          \* the window the command makes anew
  Main, UiCommand,
  MaxGeneration,  \* bound: events and flushes
  MaxCaptures     \* bound: readings of a window

ASSUME GeometryConstants ==
  /\ Graph \in Window /\ Nowhere \notin Window \cup Place \cup Nat \cup {Main, UiCommand}
  /\ Main # UiCommand /\ {Main, UiCommand} \cap Nat = {}
  /\ MaxGeneration \in Nat /\ MaxCaptures \in Nat

Timer == 1..MaxGeneration
Thread == {Main, UiCommand} \cup Timer
Unread == [w \in Window |-> Nowhere]

VARIABLES
  places,      \* the cache: the place kept last of each window
  reading,     \* what Main and UiCommand have read and not kept yet
  generation,
  writer,      \* who holds write_lock; Nowhere: nobody
  copy,        \* the writer's copy of the cache
  stage,       \* where each thread is
  saved,       \* the places in the file, none if it is corrupt
  corrupt,     \* it is no JSON
  captures,
  last,        \* history: the place read last of each window
  raced,       \* history: windows whose last reading began while another was under way
  failed,      \* history: the last write failed
  discarded,   \* history: a good file was put in quarantine
  exited       \* the app has ended

readingVars == <<reading, captures, last, raced>>
geometryVars == <<places, generation, writer, copy, stage, saved, corrupt, failed, discarded, exited,
                  readingVars>>

Reader == {Main, UiCommand}
Unheld == [win |-> Nowhere, place |-> Nowhere]

GeometryInit ==
  /\ reading = [t \in Reader |-> Unheld] /\ last = Unread /\ raced = {}
  /\ places = Unread /\ generation = 0
  /\ writer = Nowhere /\ copy = Unread
  /\ stage = [t \in Thread |-> "idle"]
  /\ saved = Unread /\ corrupt \in BOOLEAN
  /\ captures = 0 /\ failed = FALSE /\ discarded = FALSE /\ exited = FALSE

Turn(t, from, to) == stage[t] \in from /\ stage' = [stage EXCEPT ![t] = to]
HistoryKept == UNCHANGED <<readingVars, failed, discarded, exited>>

-----------------------------------------------------------------------------
(* A window is read, unless it is minimised, maximised or cannot be read.   *)
Read(t, w, p) ==
  /\ t = UiCommand => w = Graph
  /\ captures < MaxCaptures /\ captures' = captures + 1
  /\ Turn(t, IF t = Main THEN {"idle", "captured"} ELSE {"idle"}, "reading")
  /\ reading' = [reading EXCEPT ![t] = [win |-> w, place |-> p]]
  /\ last' = [last EXCEPT ![w] = p]
  /\ raced' = IF \E x \in Reader : reading[x].win = w THEN raced \cup {w} ELSE raced \ {w}
  /\ UNCHANGED <<places, generation, writer, copy, saved, corrupt, failed, discarded, exited>>

(* cache_entry.                                                            *)
Keep(t) ==
  /\ Turn(t, {"reading"}, "captured")
  /\ places' = [places EXCEPT ![reading[t].win] = reading[t].place]
  /\ reading' = [reading EXCEPT ![t] = Unheld]
  /\ UNCHANGED <<generation, writer, copy, saved, corrupt, captures, last, raced, failed, discarded,
                 exited>>

(* Moved or resized: a new timer, which makes those before it stale.       *)
ScheduleDebounce ==
  /\ generation < MaxGeneration
  /\ generation' = generation + 1
  /\ stage[Main] \in {"idle", "captured"}
  /\ stage' = [stage EXCEPT ![Main] = "idle", ![generation + 1] = "asleep"]
  /\ UNCHANGED <<places, writer, copy, saved, corrupt>> /\ HistoryKept

Wake(g) ==
  /\ Turn(g, {"asleep"}, IF generation = g THEN "awake" ELSE "idle")
  /\ UNCHANGED <<places, generation, writer, copy, saved, corrupt>> /\ HistoryKept

-----------------------------------------------------------------------------
(* flush: the generation, then the lock, then the copy, then the file.     *)
(* Loading and saving are one step: only the quarantine below, without the *)
(* lock, could come between, and it does to the file what it would before. *)

(* Mutant of BumpsAt: timers are made stale when the file is written.       *)
BumpsLate(step) == step = "write"
BumpsAt(step) == step = "start"
Bump(step) == generation' = IF BumpsAt(step) THEN generation + 1 ELSE generation

Flush(t) ==
  /\ generation < MaxGeneration /\ Bump("start")
  /\ Turn(t, IF t = Main THEN {"idle", "captured"} ELSE {"captured", "awake"}, "flushing")
  /\ UNCHANGED <<places, writer, copy, saved, corrupt>> /\ HistoryKept

TakeLock(t) ==
  /\ stage[t] = "flushing" /\ writer = Nowhere
  /\ writer' = t /\ copy' = places
  /\ UNCHANGED <<places, generation, stage, saved, corrupt>> /\ HistoryKept

Merged == [w \in Window |-> IF copy[w] # Nowhere THEN copy[w] ELSE saved[w]]

(* An empty cache is not written.  A file that cannot be read is left       *)
(* alone, one that is no JSON put aside.                                   *)
WriteFile(t) ==
  /\ writer = t /\ writer' = Nowhere /\ copy' = Unread
  /\ Bump("write")
  /\ Turn(t, {"flushing"}, IF t = Main THEN "flushed" ELSE "idle")
  /\ \/ copy = Unread /\ UNCHANGED <<saved, corrupt, failed>>
     \/ copy # Unread /\ saved' = Merged /\ corrupt' = FALSE /\ failed' = FALSE
     \/ copy # Unread /\ corrupt' \in {corrupt, FALSE} /\ failed' = TRUE /\ UNCHANGED saved
  /\ UNCHANGED <<places, readingVars, discarded, exited>>

Return ==
  /\ Turn(Main, {"flushed"}, "idle")
  /\ UNCHANGED <<places, generation, writer, copy, saved, corrupt>> /\ HistoryKept

-----------------------------------------------------------------------------
(* The command opens the graph window: load_geometry_store_or_default reads *)
(* the file without the lock, and puts it aside if it was no JSON then.    *)

LoadForPlacement ==
  /\ corrupt /\ Turn(UiCommand, {"idle"}, "spoilt")
  /\ UNCHANGED <<places, generation, writer, copy, saved, corrupt>> /\ HistoryKept

Quarantine ==
  /\ Turn(UiCommand, {"spoilt"}, "idle")
  /\ saved' = Unread /\ corrupt' = FALSE
  /\ discarded' = (discarded \/ saved # Unread)
  /\ UNCHANGED <<places, generation, writer, copy, readingVars, failed, exited>>

(* Quit follows a flush of Main's; what other threads do is cut off.       *)
Quit ==
  /\ stage[Main] = "flushed" /\ exited' = TRUE
  /\ UNCHANGED <<places, generation, writer, copy, stage, saved, corrupt, readingVars, failed, discarded>>

GeometryNext ==
  /\ ~exited
  /\ \/ \E t \in Reader : Keep(t) \/ \E w \in Window, p \in Place : Read(t, w, p)
     \/ ScheduleDebounce \/ \E g \in Timer : Wake(g)
     \/ \E t \in Thread : Flush(t) \/ TakeLock(t) \/ WriteFile(t)
     \/ Return \/ LoadForPlacement \/ Quarantine \/ Quit

GeometrySpec == GeometryInit /\ [][GeometryNext]_geometryVars

-----------------------------------------------------------------------------
PlaceOf == [Window -> Place \cup {Nowhere}]
Stages == {"idle", "reading", "captured", "asleep", "awake", "flushing", "flushed", "spoilt"}
GeometryTypeOK ==
  /\ places \in PlaceOf /\ copy \in PlaceOf /\ saved \in PlaceOf /\ last \in PlaceOf
  /\ reading \in [Reader -> {Unheld} \cup [win : Window, place : Place]]
  /\ generation \in 0..MaxGeneration /\ writer \in Thread \cup {Nowhere}
  /\ stage \in [Thread -> Stages] /\ raced \subseteq Window
  /\ corrupt \in BOOLEAN /\ failed \in BOOLEAN /\ discarded \in BOOLEAN /\ exited \in BOOLEAN
  /\ captures \in 0..MaxCaptures

(* Nothing is left to do that would write the file, or the app has ended.   *)
Settled ==
  /\ stage[UiCommand] = "idle"
  /\ \/ exited
     \/ /\ \A t \in Thread : stage[t] \in {"idle", "flushed", "asleep"}
        /\ \A g \in Timer : stage[g] = "asleep" => g # generation

(* However events, timers, closing windows and the command interleave, what *)
(* was kept last of a window is then in the file, and it is what was read  *)
(* last, unless the thread of the events and the command read the window   *)
(* at the same time; unless the last write failed, or the command put a    *)
(* file aside that had been repaired since.                                *)
Remembered ==
  ~failed /\ ~discarded /\ Settled =>
    \A w \in Window : /\ places[w] \in {Nowhere, saved[w]}
                      /\ last[w] \in {Nowhere, saved[w]} \/ w \in raced
=============================================================================
