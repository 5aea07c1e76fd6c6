---------------------------- MODULE CancelChannels ----------------------------
(***************************************************************************)
(* What the MCP server promises about cancelling: a call that begins opens *)
(* a channel, at most one cancel comes through it, to nobody but that call *)
(* and only while it is open, and a disconnect tells calls of the session  *)
(* that left and no others.  A channel may be closed early, when its entry *)
(* is evicted: the call then runs on unreachable.                          *)
(*                                                                         *)
(* McpHttp implements this (McpHttp!Channels) and Orchestrator uses it.    *)
(***************************************************************************)
EXTENDS Naturals, FiniteSets

CONSTANTS
  Call,          \* requests that register
  SessionOf,     \* the MCP session of each
  ClientReason   \* what CancelKind::from_reason makes of the clients' reasons

Caller == {SessionOf[c] : c \in Call}
CancelKind == {"UserStop", "DeadlineExceeded", "SessionDisconnect", "Other"}
NoCancel == "None"

ASSUME ChannelConstants ==
  /\ SessionOf \in [Call -> Caller]
  /\ IsFiniteSet(Call)
  /\ ClientReason \subseteq CancelKind \ {"SessionDisconnect"}

VARIABLES
  inFlight,  \* McpServer.in_flight: the calls whose channel has its sender
  signal     \* the value in the channel of each call that runs

channelVars == <<inFlight, signal>>

OfSession(s, C) == {c \in C : SessionOf[c] = s}

ChannelsInit ==
  /\ inFlight = {}
  /\ signal = [c \in Call |-> NoCancel]

(* A new call may push others out.                                          *)
Open(c) ==
  /\ \E out \in SUBSET inFlight : inFlight' = (inFlight \ out) \cup {c}
  /\ UNCHANGED signal

(* The call is over: its channel is gone.                                   *)
Close(c) ==
  /\ inFlight' = inFlight \ {c}
  /\ signal' = [signal EXCEPT ![c] = NoCancel]

Cancel(c, kind) ==
  /\ c \in inFlight
  /\ inFlight' = inFlight \ {c}
  /\ signal' = [signal EXCEPT ![c] = kind]

(* The calls of the session that were in flight when it left and still are. *)
Disconnect(s) == \E told \in SUBSET OfSession(s, inFlight) :
  /\ inFlight' = inFlight \ told
  /\ signal' = [c \in Call |-> IF c \in told THEN "SessionDisconnect" ELSE signal[c]]

ChannelsNext ==
  \/ \E c \in Call : Open(c) \/ Close(c) \/ \E kind \in ClientReason : Cancel(c, kind)
  \/ \E s \in Caller : Disconnect(s)

ChannelsSpec == ChannelsInit /\ [][ChannelsNext]_channelVars
=============================================================================
