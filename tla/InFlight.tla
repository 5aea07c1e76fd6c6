------------------------------- MODULE InFlight -------------------------------
(***************************************************************************)
(* The registry of tools/call requests in flight in McpServer              *)
(* (src-tauri/src/bridge/mcp_server.rs): the map from request key to the   *)
(* sender of its cancel channel, and the FIFO that bounds the map.  The    *)
(* two have a lock each; a step below is one section under those locks.    *)
(* McpHttp drives it from HTTP requests, Orchestrator from calls on tasks. *)
(*                                                                         *)
(* A call is one request key (session id and JSON-RPC id); a client uses   *)
(* an id once.                                                             *)
(***************************************************************************)
EXTENDS Naturals, Sequences, FiniteSets, FiniteSetsExt, SeqFilter, CancelChannels

CONSTANTS
  MaxInFlight,           \* MAX_IN_FLIGHT
  MaxInFlightPerSession  \* MAX_IN_FLIGHT_PER_SESSION

ASSUME InFlightConstants ==
  /\ MaxInFlight \in Nat \ {0}
  /\ MaxInFlightPerSession \in Nat \ {0}

VARIABLES
  order,      \* in_flight_order
  leaving     \* on_session_disconnect per session: its phase, the keys it collected

inFlightVars == <<channelVars, order, leaving>>

Listed == {order[i] : i \in DOMAIN order}

InFlightInit ==
  /\ ChannelsInit
  /\ order = << >>
  /\ leaving = [s \in Caller |-> [phase |-> "no", keys |-> {}]]

-----------------------------------------------------------------------------
(* The front of the FIFO that a new call pushes out while the map is full:  *)
(* popped keys that a cancel removed from the map before free nothing.      *)
Front(n) == {order[i] : i \in 1..n}
(* Mutant of PushedOut: one key too few.                                    *)
PushedOutLate == Front(Min({n \in 0..Len(order) :
  n = Len(order) \/ Cardinality(inFlight \ Front(n)) <= MaxInFlight}))
PushedOut == Front(Min({n \in 0..Len(order) :
  n = Len(order) \/ Cardinality(inFlight \ Front(n)) < MaxInFlight}))

(* The oldest key of the session when it has its share of the FIFO.         *)
Displaced(c, fifo) ==
  LET mine == Kept(fifo, OfSession(SessionOf[c], Call))
  IN IF Len(mine) >= MaxInFlightPerSession THEN {Head(mine)} ELSE {}

(* An evicted sender is dropped: the call runs on and hears no cancel.      *)
Register(c) ==
  LET out == PushedOut
      fifo == Without(order, out)
      gone == out \cup Displaced(c, fifo)
  IN /\ inFlight' = (inFlight \ gone) \cup {c}
     /\ order' = Append(Without(order, gone \cup {c}), c)
     /\ UNCHANGED <<signal, leaving>>

(* clear_inflight: the map lock is released before the FIFO lock is taken.  *)
ClearMap(c) ==
  /\ Close(c)
  /\ UNCHANGED <<order, leaving>>
ClearOrder(c) ==
  /\ order' = Without(order, {c})
  /\ UNCHANGED <<inFlight, signal, leaving>>

(* notifications/cancelled; the key stays in the FIFO until the call ends.  *)
Cancelled(c, kind) ==
  /\ Cancel(c, kind)
  /\ UNCHANGED <<order, leaving>>

-----------------------------------------------------------------------------
(* on_session_disconnect: collects the keys, then removes those still there *)
(* and signals them, then marks the session in the store.                   *)
CollectKeys(s) ==
  /\ leaving[s].phase = "no"
  /\ leaving' = [leaving EXCEPT ![s] = [phase |-> "collected", keys |-> OfSession(s, inFlight)]]
  /\ UNCHANGED <<inFlight, order, signal>>

(* Mutant of SignalKeys: the map is not looked up again.                    *)
SignalCollected(s) ==
  LET keysOf == leaving[s].keys
  IN /\ leaving[s].phase = "collected"
     /\ inFlight' = inFlight \ keysOf
     /\ order' = Without(order, keysOf)
     /\ signal' = [c \in Call |-> IF c \in keysOf THEN "SessionDisconnect" ELSE signal[c]]
     /\ leaving' = [leaving EXCEPT ![s] = [phase |-> "signalled", keys |-> {}]]
SignalKeys(s) ==
  LET keysOf == leaving[s].keys
  IN /\ leaving[s].phase = "collected"
     /\ inFlight' = inFlight \ keysOf
     /\ order' = Without(order, keysOf)
     /\ signal' = [c \in Call |-> IF c \in keysOf \cap inFlight
                                  THEN "SessionDisconnect" ELSE signal[c]]
     /\ leaving' = [leaving EXCEPT ![s] = [phase |-> "signalled", keys |-> {}]]

Left(s) ==
  /\ leaving[s].phase = "signalled"
  /\ leaving' = [leaving EXCEPT ![s].phase = "no"]
  /\ UNCHANGED <<inFlight, order, signal>>

-----------------------------------------------------------------------------
InFlightTypeOK ==
  /\ inFlight \subseteq Call
  /\ order \in Seq(Call)
  /\ signal \in [Call -> CancelKind \cup {NoCancel}]
  /\ leaving \in [Caller -> [phase : {"no", "collected", "signalled"}, keys : SUBSET Call]]

(* Every call that can be cancelled can also be evicted, no key is listed   *)
(* twice, and neither limit is exceeded, whatever order cancels, clears,    *)
(* disconnects and dropped connections come in (MAX_IN_FLIGHT,              *)
(* MAX_IN_FLIGHT_PER_SESSION).                                              *)
Bounded ==
  /\ inFlight \subseteq Listed
  /\ Cardinality(Listed) = Len(order)
  /\ Cardinality(inFlight) <= MaxInFlight
  /\ \A s \in Caller : Cardinality(OfSession(s, Listed)) <= MaxInFlightPerSession
=============================================================================
