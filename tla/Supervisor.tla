------------------------------ MODULE Supervisor ------------------------------
(***************************************************************************)
(* The local services and their restarts (src-tauri/src/services/          *)
(* supervisor.rs, nats_manager.rs, ollama.rs): one service, NATS with or   *)
(* without session credentials, or the LMR, which has no monitor port and  *)
(* answers a probe only if it is one.  The supervisor ticks, the UI asks   *)
(* for ensure_all, both under the mutex of the ServiceManager; processes   *)
(* die and other programs take the port between any two awaits.            *)
(***************************************************************************)
EXTENDS Naturals

CONSTANTS
  MaxRestarts,   \* MAX_RESTART_ATTEMPTS
  MaxUpsets      \* bound: deaths of a working child, and takings of the port

ASSUME SuperConstants == MaxRestarts \in Nat \ {0} /\ MaxUpsets \in Nat

VARIABLES
  kind,       \* "nats", "nats_auth" or "lmr"
  installed,  \* the binary is there
  server,     \* what listens: who, whether the monitor port does too, whether
              \* it accepts our credentials, whether its argv holds --pass
  child,      \* our process: "none", "starting", "up", or "dead" and not reaped
  conf,       \* nats-server.conf is on disk
  authActive, \* activate_nats_auth
  backoff,    \* attempts, exhausted, and whether the wait is over
  pc, by,     \* where ensure is, and for whom
  seen,       \* what ensure saw of the client and the monitor port
  withMonitor,
  streak,     \* history: recoveries that failed in a row
  upsets

superVars == <<kind, installed, server, child, conf, authActive, backoff, pc, by, seen,
               withMonitor, streak, upsets>>
setting == <<kind, installed>>
processes == <<server, child, conf, authActive>>

Nobody == [who |-> "none", monitor |-> FALSE, accepts |-> FALSE, pass |-> FALSE]
Fresh == [attempts |-> 0, exhausted |-> FALSE, ready |-> TRUE]
Foreign == {[who |-> "other", monitor |-> m, accepts |-> FALSE, pass |-> FALSE] : m \in BOOLEAN} \cup
           {[who |-> "nats", monitor |-> m, accepts |-> a, pass |-> p] : m, a, p \in BOOLEAN}

SuperInit ==
  /\ kind \in {"nats", "nats_auth", "lmr"} /\ installed \in BOOLEAN
  /\ server = Nobody /\ child = "none" /\ conf = FALSE /\ authActive = FALSE
  /\ backoff = Fresh /\ pc = "idle" /\ by = "ui"
  /\ seen = [client |-> FALSE, monitor |-> FALSE] /\ withMonitor = TRUE
  /\ streak = 0 /\ upsets = 0

Answers == server.who # "none" /\ (kind = "lmr" => server.who # "other")
MonitorUp == kind = "lmr" \/ server.monitor
FullyHealthy == Answers /\ MonitorUp
AuthConnects == server.who \in {"child", "nats"} /\ server.accepts

-----------------------------------------------------------------------------
(* Backoff.                                                                *)

Reset == backoff' = Fresh
Fail(b) == [attempts |-> b.attempts + 1, exhausted |-> b.attempts + 1 >= MaxRestarts, ready |-> FALSE]
WindowOver ==
  /\ ~backoff.ready /\ ~backoff.exhausted
  /\ backoff' = [backoff EXCEPT !.ready = TRUE]
  /\ UNCHANGED <<setting, processes, pc, by, seen, withMonitor, streak, upsets>>

(* What the supervisor makes of the end of ensure; the UI only shows it.    *)
(* Mutant: a recovery that worked leaves the count of attempts.             *)
AfterRecoveryKept(ok) == IF ok THEN [backoff EXCEPT !.ready = TRUE] ELSE Fail(backoff)
AfterRecovery(ok) == IF ok THEN Fresh ELSE Fail(backoff)
Done(ok) ==
  /\ pc' = "idle"
  /\ IF by = "supervisor"
     THEN backoff' = AfterRecovery(ok) /\ streak' = IF ok THEN 0 ELSE streak + 1
     ELSE UNCHANGED <<backoff, streak>>

(* supervise_once: recover_nats or recover_lmr.                            *)
Tick ==
  /\ pc = "idle"
  /\ \/ /\ FullyHealthy \/ ~installed
        /\ Reset /\ streak' = 0
        /\ UNCHANGED <<pc, by>>
     \/ /\ ~FullyHealthy /\ installed /\ backoff.ready /\ ~backoff.exhausted
        /\ pc' = "ensure" /\ by' = "supervisor"
        /\ UNCHANGED <<backoff, streak>>
  /\ UNCHANGED <<setting, processes, seen, withMonitor, upsets>>
EnsureServices ==
  /\ pc = "idle"
  /\ pc' = "ensure" /\ by' = "ui"
  /\ UNCHANGED <<setting, processes, backoff, seen, withMonitor, streak, upsets>>

-----------------------------------------------------------------------------
(* ensure_inner.                                                           *)

(* Reap, and look at both ports.                                           *)
Probe ==
  /\ pc = "ensure"
  /\ child' = IF child = "dead" THEN "none" ELSE child
  /\ seen' = [client |-> Answers, monitor |-> MonitorUp]
  /\ authActive' = (authActive /\ kind = "nats_auth")
  /\ pc' = "decide"
  /\ UNCHANGED <<setting, server, conf, backoff, by, withMonitor, streak, upsets>>

(* Kills by port what looks like a nats-server, then our own child, whose   *)
(* conf goes with it.                                                      *)
Killable == server.who \in {"child", "nats"}
KillAll ==
  /\ server' = IF Killable THEN Nobody ELSE server
  /\ child' = "none"
  /\ conf' = (conf /\ child = "none")
KillChild ==
  /\ server' = IF server.who = "child" THEN Nobody ELSE server
  /\ child' = "none"
  /\ conf' = FALSE

MarkAuth(ok) == authActive' = IF kind = "nats_auth" /\ ok THEN TRUE ELSE authActive

(* A server that answers is taken as it is if both ports do and it knows    *)
(* our credentials, or, without a monitor, if there is nothing to kill.     *)
Adopts ==
  /\ seen.client
  /\ \/ seen.monitor /\ (kind = "nats_auth" => ~server.pass /\ AuthConnects)
     \/ ~seen.monitor /\ ~Killable
Adopt ==
  /\ pc = "decide" /\ Adopts
  /\ MarkAuth(AuthConnects)
  /\ Done(TRUE)
  /\ UNCHANGED <<setting, server, child, conf, by, seen, withMonitor, upsets>>
Replace ==
  /\ pc = "decide" /\ ~Adopts
  /\ IF seen.client THEN KillAll ELSE UNCHANGED <<server, child, conf>>
  /\ pc' = "spawn" /\ withMonitor' = TRUE
  /\ UNCHANGED <<setting, authActive, backoff, by, seen, streak, upsets>>

(* spawn_and_wait.  The old child, if any, dies when its handle is dropped. *)
Spawn ==
  /\ pc = "spawn"
  /\ IF ~installed
     THEN Done(TRUE) /\ UNCHANGED <<server, child, conf>>
     ELSE /\ conf' = (kind = "nats_auth" \/ conf)
          /\ server' = IF server.who = "child" THEN Nobody ELSE server
          /\ child' = "starting"
          /\ pc' = "wait"
          /\ UNCHANGED <<backoff, streak>>
  /\ UNCHANGED <<setting, authActive, by, seen, withMonitor, upsets>>
Ready ==
  /\ pc = "wait" /\ Answers /\ (kind = "nats_auth" => AuthConnects)
  /\ MarkAuth(TRUE)
  /\ Done(TRUE)
  /\ UNCHANGED <<setting, server, child, conf, by, seen, withMonitor, upsets>>

(* Not up in time, or up and the handshake fails: once more without the     *)
(* monitor.                                                                *)
NotReady ==
  /\ pc = "wait" /\ (~Answers \/ (kind = "nats_auth" /\ ~AuthConnects))
  /\ KillChild
  /\ IF withMonitor /\ kind # "lmr"
     THEN pc' = "spawn" /\ withMonitor' = FALSE /\ UNCHANGED <<backoff, streak>>
     ELSE Done(FALSE) /\ UNCHANGED withMonitor
  /\ UNCHANGED <<setting, authActive, by, seen, upsets>>

EnsureStep == Probe \/ Adopt \/ Replace \/ Spawn \/ Ready \/ NotReady

-----------------------------------------------------------------------------
(* Processes.                                                              *)

Upset == upsets < MaxUpsets /\ upsets' = upsets + 1
Elsewhere == UNCHANGED <<setting, conf, authActive, backoff, pc, by, seen, withMonitor, streak>>

ChildBinds ==
  /\ child = "starting" /\ server = Nobody
  /\ child' = "up"
  /\ server' = [who |-> "child", monitor |-> withMonitor, accepts |-> TRUE, pass |-> FALSE]
  /\ Elsewhere /\ UNCHANGED upsets
ChildDies ==
  /\ \/ child = "starting" /\ UNCHANGED upsets
     \/ child = "up" /\ Upset
  /\ child' = "dead"
  /\ server' = IF server.who = "child" THEN Nobody ELSE server
  /\ Elsewhere
ForeignTakes ==
  /\ server = Nobody /\ Upset
  /\ server' \in Foreign
  /\ Elsewhere /\ UNCHANGED child
ForeignLeaves ==
  /\ server.who \in {"nats", "other"}
  /\ server' = Nobody
  /\ Elsewhere /\ UNCHANGED <<child, upsets>>

SuperNext ==
  \/ WindowOver \/ Tick \/ EnsureServices \/ EnsureStep
  \/ ChildBinds \/ ChildDies \/ ForeignTakes \/ ForeignLeaves

SuperSafety == SuperInit /\ [][SuperNext]_superVars

-----------------------------------------------------------------------------
SuperTypeOK ==
  /\ kind \in {"nats", "nats_auth", "lmr"} /\ installed \in BOOLEAN /\ withMonitor \in BOOLEAN
  /\ server \in Foreign \cup {Nobody} \cup
       {[who |-> "child", monitor |-> m, accepts |-> TRUE, pass |-> FALSE] : m \in BOOLEAN}
  /\ child \in {"none", "starting", "up", "dead"}
  /\ (server.who = "child") = (child = "up")
  /\ conf \/ authActive => kind = "nats_auth"
  /\ pc \in {"idle", "ensure", "decide", "spawn", "wait"} /\ by \in {"supervisor", "ui"}
  /\ backoff \in [attempts : 0..MaxRestarts, exhausted : BOOLEAN, ready : BOOLEAN]
  /\ streak \in 0..MaxRestarts

(* The supervisor gives a service up only after MaxRestarts recoveries that *)
(* failed in a row: one of its own that worked, or a tick that finds the    *)
(* service healthy, starts the count anew (supervisor.rs: Backoff.reset); a *)
(* start from the UI does neither, whether it works or fails.              *)
GivenUpLate == backoff.exhausted => streak >= MaxRestarts

(* Once it has given up it begins no recovery, and it does not give up in   *)
(* the middle of one of its own (supervisor.rs:23).                         *)
GivenUpRests == backoff.exhausted => pc = "idle" \/ by # "supervisor"

(* The supervisor gives a service up only after MaxRestarts recoveries that *)
(* failed in a row, and then rests; until it does, the service answers again and again; and *)
(* when the service works again, however it got there, giving up is over    *)
(* (supervisor.rs:23: until manual help or health comes).                   *)
Recovers ==
  /\ [](GivenUpLate /\ GivenUpRests)
  /\ []<>(Answers \/ backoff.exhausted \/ ~installed)
  /\ <>[]FullyHealthy => <>[](~backoff.exhausted)
=============================================================================
