------------------------------- MODULE MCDesktop -------------------------------
(***************************************************************************)
(* What the desktop application asks, starts and remembers: the commands   *)
(* and routings that wait for the user, the server of the graph window,    *)
(* the tools it and the index are called through, where windows are        *)
(* opened, and how that is remembered.  They have no state and no step in  *)
(* common, so a behaviour moves one of them, the focus, and leaves the     *)
(* others where they start.                                                *)
(*                                                                         *)
(* Confirmations: two tokens; or one token, and two executors of one task  *)
(* that ask for approval twice.                                            *)
(*                                                                         *)
(* Placement: monitors at scales of 1, 1.75, 1.25, 0.75 and 4, and windows  *)
(* left inside them, across their edges and off them, smaller than the     *)
(* minimum and larger than the work area, which at the scale of 4 is       *)
(* smaller than the minimum.                                               *)
(***************************************************************************)
EXTENDS DestructiveConfirm, GraphUi, MemoryBridge, GeometrySession, WindowPlacement, TLC

CONSTANTS e1, e2, t1

VARIABLE focus

desktopVars == <<focus, confirmVars, graphVars, bridgeVars, geometryVars, placementVars>>

MCAskedBy == [e \in {e1, e2} |-> t1]
MCSymmetry == Permutations({e1, e2})

MCUnit == 2100
MCMonitor == {
  [pixel |-> 2100, from |-> [x |-> 0, y |-> 2], length |-> [x |-> 40, y |-> 28]],
  [pixel |-> 1200, from |-> [x |-> -31, y |-> 0], length |-> [x |-> 31, y |-> 47]],
  [pixel |-> 1680, from |-> [x |-> 40, y |-> -7], length |-> [x |-> 19, y |-> 23]],
  [pixel |-> 2800, from |-> [x |-> 5, y |-> 40], length |-> [x |-> 18, y |-> 7]],
  [pixel |-> 525, from |-> [x |-> 0, y |-> 60], length |-> [x |-> 34, y |-> 90]]}
MCPosition == {-32, -7, 0, 18, 41}
MCSize == {1, 9, 16, 23, 31, 60}
MCMinSize == [x |-> 20, y |-> 12]

(* The windows are large; where another component moves, they are not there *)
(* at all.                                                                 *)
NoPlacement ==
  home = 0 /\ there = 0 /\ primary = 0 /\ left = 0 /\ placed = 0 /\ before = 0 /\ opened = 0
NoPlaces ==
  /\ places = 0 /\ reading = 0 /\ last = 0 /\ raced = 0 /\ generation = 0 /\ writer = 0 /\ copy = 0 /\ stage = 0 /\ saved = 0
  /\ corrupt = FALSE /\ captures = 0 /\ failed = TRUE /\ discarded = FALSE /\ exited = FALSE
DesktopInit ==
  /\ focus \in {"confirm", "graph", "bridge", "places", "placement"}
  /\ ConfirmInit /\ (focus # "confirm" => asks = MaxAsks)
  /\ GraphInit /\ (focus # "graph" => marker /\ file = NoFile)
  /\ BridgeInit /\ (focus # "bridge" => transport = "cli" /\ ui = "none")
  /\ IF focus = "places" THEN GeometryInit ELSE NoPlaces
  /\ IF focus = "placement" THEN PlacementInit ELSE NoPlacement

DesktopNext ==
  /\ UNCHANGED focus
  /\ \/ focus = "confirm" /\ ConfirmNext
        /\ UNCHANGED <<graphVars, bridgeVars, geometryVars, placementVars>>
     \/ focus = "graph" /\ GraphNext
        /\ UNCHANGED <<confirmVars, bridgeVars, geometryVars, placementVars>>
     \/ focus = "bridge" /\ BridgeNext
        /\ UNCHANGED <<confirmVars, graphVars, geometryVars, placementVars>>
     \/ focus = "places" /\ GeometryNext
        /\ UNCHANGED <<confirmVars, graphVars, bridgeVars, placementVars>>
     \/ focus = "placement" /\ PlacementNext
        /\ UNCHANGED <<confirmVars, graphVars, bridgeVars, geometryVars>>

DesktopSpec == DesktopInit /\ [][DesktopNext]_desktopVars

=============================================================================
