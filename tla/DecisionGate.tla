---------------------------- MODULE DecisionGate ----------------------------
(***************************************************************************)
(* Loading the decision model into memory (src-tauri/src/kernel/           *)
(* decision_engine.rs, DecisionGate; src-tauri/src/lib.rs, run_laya_load   *)
(* and the watchdog): the start of the application and every click on      *)
(* "enable" load it, the watchdog offers it when memory comes free, the    *)
(* user declines.  Session, status and flags each have a lock or atomic of *)
(* their own, so a step here is one access to them.                        *)
(***************************************************************************)
CONSTANT Load   \* the calls of run_laya_load

VARIABLES
  loaded,     \* a session is installed
  shown,      \* the status; "noram" and "available" carry the reason ram
  declined,
  inFlight,   \* load_in_flight
  gateReady,  \* what the dispatcher was told
  load,       \* per call: where it is, why it failed
  watch,      \* the watchdog: where it is, whether it saw the offer, and enough memory
  raced       \* history: a load could begin beside another one

gateVars == <<loaded, shown, declined, inFlight, gateReady, load, watch, raced>>

Running(l) == load[l].pc \in {"mark", "load", "fail", "show", "untell", "install", "ready", "keep"}
Ending(l) == load[l].pc \in {"show", "untell", "ready", "keep"}  \* the flag is given back

GateInit ==
  /\ loaded = FALSE /\ shown = "cold" /\ declined = FALSE /\ inFlight = FALSE /\ gateReady = FALSE
  /\ load = [l \in Load |-> [pc |-> "ask", why |-> "cold"]]
  /\ watch = [pc |-> "idle", offered |-> FALSE, ram |-> FALSE]
  /\ raced = FALSE

LoadAt(l, p) == load[l].pc = p
LoadGoto(l, p) == load' = [load EXCEPT ![l].pc = p]

-----------------------------------------------------------------------------
(* request_enable, which run_laya_load reaches after the files.            *)

AskEnable(l) ==
  /\ LoadAt(l, "ask")
  /\ declined' = FALSE
  /\ LoadGoto(l, IF loaded THEN "over" ELSE "peek")
  /\ UNCHANGED <<loaded, shown, inFlight, gateReady, watch, raced>>

Peek(l) ==
  /\ LoadAt(l, "peek")
  /\ LoadGoto(l, IF shown = "loading" THEN "begin" ELSE "reset")
  /\ UNCHANGED <<loaded, shown, declined, inFlight, gateReady, watch, raced>>

(* load_in_flight is cleared, by a call or the watchdog, perhaps beside a  *)
(* load of another.                                                        *)
ClearFlag(others) ==
  /\ inFlight' = FALSE
  /\ raced' = (raced \/ \E l \in others : Running(l))

ResetFlag(l) ==
  /\ LoadAt(l, "reset") /\ LoadGoto(l, "begin")
  /\ ClearFlag(Load \ {l})
  /\ UNCHANGED <<loaded, shown, declined, gateReady, watch>>

(* begin_load: the session, then the compare-and-swap of the flag, which   *)
(* may fall between the stores that end a load.                            *)
BeginLoad(l) ==
  /\ LoadAt(l, "begin")
  /\ LoadGoto(l, IF loaded THEN "over" ELSE "claim")
  /\ UNCHANGED <<loaded, shown, declined, inFlight, gateReady, watch, raced>>

(* Mutant of MayClaim: the flag is stored and not compared.                *)
MayClaimAlways == TRUE
MayClaim == ~inFlight
Claim(l) ==
  /\ LoadAt(l, "claim")
  /\ IF MayClaim
     THEN /\ inFlight' = TRUE /\ LoadGoto(l, "mark")
          /\ raced' = (raced \/ loaded \/ \E m \in Load : Ending(m))
     ELSE LoadGoto(l, "over") /\ UNCHANGED <<inFlight, raced>>
  /\ UNCHANGED <<loaded, shown, declined, gateReady, watch>>

MarkLoading(l) ==
  /\ LoadAt(l, "mark") /\ LoadGoto(l, "load")
  /\ declined' = FALSE /\ shown' = "loading"
  /\ UNCHANGED <<loaded, inFlight, gateReady, watch, raced>>

-----------------------------------------------------------------------------
(* The load itself: memory may be short, before or in load_session, and    *)
(* files missing or damaged.                                               *)

LoadSession(l) ==
  /\ LoadAt(l, "load")
  /\ \/ LoadGoto(l, "install")
     \/ \E why \in {"noram", "cold"} : load' = [load EXCEPT ![l].pc = "fail", ![l].why = why]
  /\ UNCHANGED <<loaded, shown, declined, inFlight, gateReady, watch, raced>>

(* fail_load, then the dispatcher is told.                                 *)
FailLoad(l) ==
  /\ \/ LoadAt(l, "fail") /\ LoadGoto(l, "show") /\ inFlight' = FALSE
        /\ UNCHANGED <<raced, shown, gateReady>>
     \/ LoadAt(l, "show") /\ LoadGoto(l, "untell") /\ shown' = load[l].why
        /\ UNCHANGED <<inFlight, raced, gateReady>>
     \/ LoadAt(l, "untell") /\ LoadGoto(l, "over") /\ gateReady' = FALSE
        /\ UNCHANGED <<inFlight, raced, shown>>
  /\ UNCHANGED <<loaded, declined, watch>>

(* install, then the dispatcher is told.                                   *)
Install(l) ==
  /\ \/ LoadAt(l, "install") /\ LoadGoto(l, "ready") /\ declined' = FALSE /\ inFlight' = FALSE
        /\ UNCHANGED <<loaded, shown, raced, gateReady>>
     \/ LoadAt(l, "ready") /\ LoadGoto(l, "keep") /\ shown' = "ready"
        /\ UNCHANGED <<loaded, declined, inFlight, raced, gateReady>>
     \/ LoadAt(l, "keep") /\ LoadGoto(l, "tell") /\ loaded' = TRUE
        /\ UNCHANGED <<shown, declined, inFlight, raced, gateReady>>
     \/ LoadAt(l, "tell") /\ LoadGoto(l, "over") /\ gateReady' = TRUE
        /\ UNCHANGED <<loaded, shown, declined, inFlight, raced>>
  /\ UNCHANGED watch

LoadStep(l) ==
  \/ AskEnable(l) \/ Peek(l) \/ ResetFlag(l) \/ BeginLoad(l) \/ Claim(l)
  \/ MarkLoading(l) \/ LoadSession(l) \/ FailLoad(l) \/ Install(l)

-----------------------------------------------------------------------------
(* The watchdog's tick: the status, then the memory, then what to do.      *)

WatchAt(p) == watch.pc = p
WatchGoto(p) == watch' = [watch EXCEPT !.pc = p]

WatchLook ==
  /\ WatchAt("idle") /\ shown \in {"noram", "available"}
  /\ \E ram \in BOOLEAN :
       watch' = [pc |-> "decide", offered |-> shown = "available", ram |-> ram]
  /\ UNCHANGED <<loaded, shown, declined, inFlight, gateReady, load, raced>>

WatchDecide ==
  /\ WatchAt("decide")
  /\ declined' = (declined /\ watch.ram)
  /\ WatchGoto(IF ~declined /\ watch.ram /\ ~loaded /\ shown = "noram" THEN "offer"
               ELSE IF ~declined /\ ~watch.ram /\ watch.offered THEN "fail" ELSE "idle")
  /\ UNCHANGED <<loaded, shown, inFlight, gateReady, load, raced>>

(* mark_available, or fail_load for an offer that memory no longer allows. *)
WatchAct ==
  /\ \/ WatchAt("offer") /\ WatchGoto("idle") /\ shown' = "available" /\ UNCHANGED <<inFlight, raced>>
     \/ WatchAt("fail") /\ WatchGoto("show") /\ ClearFlag(Load) /\ UNCHANGED shown
     \/ WatchAt("show") /\ WatchGoto("idle") /\ shown' = "noram" /\ UNCHANGED <<inFlight, raced>>
  /\ UNCHANGED <<loaded, declined, gateReady, load>>

Decline ==
  /\ declined' = TRUE /\ shown' = "noram"
  /\ UNCHANGED <<loaded, inFlight, gateReady, load, watch, raced>>

GateNext ==
  \/ \E l \in Load : LoadStep(l)
  \/ WatchLook \/ WatchDecide \/ WatchAct
  \/ Decline

GateSpec == GateInit /\ [][GateNext]_gateVars

-----------------------------------------------------------------------------
LoadPlace == {"ask", "peek", "reset", "begin", "claim", "mark", "load", "fail", "show",
              "untell", "install", "ready", "keep", "tell", "over"}
GateTypeOK ==
  /\ loaded \in BOOLEAN /\ declined \in BOOLEAN /\ inFlight \in BOOLEAN
  /\ gateReady \in BOOLEAN /\ raced \in BOOLEAN
  /\ shown \in {"cold", "noram", "available", "loading", "ready"}
  /\ load \in [Load -> [pc : LoadPlace, why : {"cold", "noram"}]]
  /\ watch \in [pc : {"idle", "decide", "offer", "fail", "show"}, offered : BOOLEAN, ram : BOOLEAN]

(* A session in memory is used: once no load runs, the dispatcher holds    *)
(* the gate for ready, whatever was clicked, declined and short of memory  *)
(* in between.  A load that fails beside one that succeeds would take it   *)
(* back for good, for request_enable does nothing once there is a session; *)
(* this is left only to a flag that was cleared under a running load, or   *)
(* taken from one that had not told its end yet (decision_engine.rs:490).  *)
SessionServed ==
  loaded /\ (\A l \in Load : ~Running(l) /\ ~LoadAt(l, "tell")) /\ ~raced => gateReady
=============================================================================
