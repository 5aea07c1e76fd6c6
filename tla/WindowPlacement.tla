---------------------------- MODULE WindowPlacement ----------------------------
(***************************************************************************)
(* Where a window is opened (the pure functions of                         *)
(* src-tauri/src/services/window_geometry.rs), and where it is then        *)
(* opened the next times, if nobody moves it in between.                   *)
(*                                                                         *)
(* Places and sizes on a monitor are in pixels, sizes that are saved are   *)
(* logical: divided by its scale.  Fractions are exact: a logical pixel is *)
(* Unit units and a pixel of a monitor m.pixel of them, its scale is their *)
(* quotient, and so any fraction; a saved size is in units.  This is the   *)
(* physical placement of Windows and X11 (ApplyOs).                        *)
(***************************************************************************)
EXTENDS Integers

CONSTANTS
  Unit,
  Monitor,  \* records: pixel, and per axis the position and length of the work area
  Position, Size,       \* where a window may have been left, in pixels
  MinSize,  \* MIN_WIDTH_LOGICAL and MIN_HEIGHT_LOGICAL, made small
  Strip     \* TOP_STRIP_PHYS, made small

Axis == {"x", "y"}

ASSUME PlacementConstants ==
  /\ Unit \in Nat \ {0}
  /\ \A m \in Monitor :
       /\ m.pixel \in Nat \ {0}
       /\ \A a \in Axis : /\ m.from[a] \in Int /\ m.length[a] \in Nat
                          /\ m.pixel * m.length[a] >= 2 * Unit  \* two logical pixels
  /\ Position \subseteq Int /\ Size \subseteq Nat \ {0}
  /\ MinSize \in [Axis -> Nat \ {0, 1}] /\ Strip \in Nat \ {0}

VARIABLES
  home,    \* the monitor the window was last on, still there or not
  there,
  primary,
  left,    \* how it was left: place and size in pixels, per axis
  placed,  \* how it is opened: place in pixels, saved size, per axis
  before,  \* history: and how it was the time before
  opened   \* history: how often

placementVars == <<home, there, primary, left, placed, before, opened>>

Lesser(a, b) == IF a < b THEN a ELSE b
Greater(a, b) == IF a > b THEN a ELSE b
Within(v, low, high) == Lesser(Greater(v, low), high)
HalfTowardsZero(n) == IF n >= 0 THEN n \div 2 ELSE -((-n) \div 2)

RoundedTo(part, size) == Greater(1, (2 * size + part) \div (2 * part))
ToLogical(pixels, pixel) == pixel * pixels
ToPhysical(size, pixel) == RoundedTo(pixel, size)
Rounded(size) == Unit * RoundedTo(Unit, size)

WorkArea(m, a) == ToLogical(m.length[a], m.pixel)
EffectiveMin(m, a) == Lesser(MinSize[a] * Unit, Greater(WorkArea(m, a), Unit))
ClampSize(m, a, size) == Rounded(Within(size, EffectiveMin(m, a), WorkArea(m, a)))

Saved(g, m) == [place |-> g.place, size |-> [a \in Axis |-> ToLogical(g.size[a], m.pixel)]]

-----------------------------------------------------------------------------
(* Enough of the window, or its title bar, is in the work area.             *)

Common(p, n, q, k) == Greater(0, Lesser(p + n, q + k) - Greater(p, q))
Restorable(g, m) ==
  LET size == [a \in Axis |-> ToPhysical(g.size[a], m.pixel)]
      part == [a \in Axis |-> Common(g.place[a], size[a], m.from[a], m.length[a])]
      bar  == Common(g.place["y"], Strip, m.from["y"], m.length["y"])
  IN /\ \A a \in Axis : g.size[a] >= Unit
     /\ \/ 4 * part["x"] * part["y"] >= size["x"] * size["y"]
        \/ part["x"] > 0 /\ bar > 0

(* The place is made to fit the size that was saved, and then the size the  *)
(* work area.                                                              *)
Room(g, m, a) == m.length[a] - ToPhysical(g.size[a], m.pixel)

(* Mutant of PlaceIn: a window larger than the work area is not put at its  *)
(* origin.                                                                 *)
PlaceUnpinned(g, m, a) == Within(g.place[a], m.from[a], m.from[a] + Room(g, m, a))
PlaceIn(g, m, a) ==
  IF Room(g, m, a) >= 0 THEN Within(g.place[a], m.from[a], m.from[a] + Room(g, m, a))
                        ELSE m.from[a]

ClampToWorkArea(g, m) ==
  [place |-> [a \in Axis |-> PlaceIn(g, m, a)],
   size |-> [a \in Axis |-> ClampSize(m, a, g.size[a])]]

DefaultCentered(m) ==
  LET size == [a \in Axis |-> ClampSize(m, a, (9 * WorkArea(m, a)) \div 10)]
  IN [place |-> [a \in Axis |->
        m.from[a] + HalfTowardsZero(m.length[a] - ToPhysical(size[a], m.pixel))],
      size |-> size]

-----------------------------------------------------------------------------
Nothing == [place |-> [a \in Axis |-> 0], size |-> [a \in Axis |-> 0]]

PlacementInit ==
  /\ home \in Monitor /\ primary \in Monitor /\ there \in BOOLEAN
  /\ left \in [place : [Axis -> Position], size : [Axis -> Size]]
  /\ placed = Nothing /\ before = Nothing /\ opened = 0

Restores == there /\ Restorable(Saved(left, home), home)

(* resolve_open_placement; the window is then read as it is (OpenPlacement, *)
(* read_window_saved_geometry).                                            *)
OpenWindow ==
  /\ opened < 3 /\ opened' = opened + 1
  /\ home' = IF Restores THEN home ELSE primary
  /\ there' = TRUE
  /\ placed' = IF Restores THEN ClampToWorkArea(Saved(left, home), home)
                           ELSE DefaultCentered(primary)
  /\ left' = [place |-> placed'.place,
              size |-> [a \in Axis |-> ToPhysical(placed'.size[a], home'.pixel)]]
  /\ before' = placed
  /\ UNCHANGED primary

PlacementNext == OpenWindow
PlacementSpec == PlacementInit /\ [][PlacementNext]_placementVars

-----------------------------------------------------------------------------
Distance(m, n) == Greater(m - n, n - m)

(* A window is opened with its origin in the work area, or before it by a   *)
(* quarter of a logical pixel and of a pixel at most (it is larger than the *)
(* work area, and centred); the second time its origin is in the work area *)
(* and it all is but for half of both, the errors of two roundings, while  *)
(* the first time it may not be: a window saved below the minimum is placed *)
(* before it grows.  It is as large the second time as it was the first,   *)
(* and from then on it is opened where it was, so that nothing drifts from *)
(* start to start, at whatever scales.                                     *)
PlacedWell ==
  LET slack == Unit + home.pixel
  IN /\ opened >= 1 => \A a \in Axis :
          /\ left.place[a] < home.from[a] + home.length[a]
          /\ 4 * (home.pixel * (home.from[a] - left.place[a])) <= slack
     /\ opened >= 2 => \A a \in Axis :
          /\ home.from[a] <= left.place[a]
          /\ 2 * (home.pixel * (left.place[a] + left.size[a] - (home.from[a] + home.length[a]))) <= slack
          /\ ToPhysical(before.size[a], home.pixel) = left.size[a]
     /\ opened = 3 => placed = before
=============================================================================
