------------------------------ MODULE MCServices ------------------------------
(***************************************************************************)
(* The services that work in the background: the titles of experiences,    *)
(* the registry of live workers, the supervisor of local services, the     *)
(* files of the decision model and its loading.  Each has state of its own *)
(* and no step in common with the others, so a behaviour moves one of      *)
(* them, the focus, and leaves the others where they start.                *)
(***************************************************************************)
EXTENDS ExperienceTitles, WorkerRegistry, Supervisor, LayaFiles, DecisionGate

CONSTANTS weights, tokenizer

MCArtifacts == <<weights, tokenizer>>

VARIABLE focus

servicesVars == <<focus, titleVars, registryVars, superVars, filesVars, gateVars>>

\* A service that does not move starts where it has nothing to do.
ServicesInit ==
  /\ focus \in {"titles", "registry", "supervisor", "files", "gate"}
  /\ TitlesInit /\ (focus # "titles" => halted /\ NeedsTitle = Experience)
  /\ RegistryInit /\ (focus # "registry" => \A w \in Worker : ~tool[w].available)
  /\ SuperInit /\ (focus # "supervisor" => kind = "nats" /\ ~installed)
  /\ FilesInit /\ (focus # "files" => \A f \in File : file[f] = "none")
  /\ GateInit

ServicesNext ==
  /\ UNCHANGED focus
  /\ \/ focus = "titles" /\ TitlesNext /\ UNCHANGED <<registryVars, superVars, filesVars, gateVars>>
     \/ focus = "registry" /\ RegistryNext /\ UNCHANGED <<titleVars, superVars, filesVars, gateVars>>
     \/ focus = "supervisor" /\ SuperNext /\ UNCHANGED <<titleVars, registryVars, filesVars, gateVars>>
     \/ focus = "files" /\ FilesNext /\ UNCHANGED <<titleVars, registryVars, superVars, gateVars>>
     \/ focus = "gate" /\ GateNext /\ UNCHANGED <<titleVars, registryVars, superVars, filesVars>>

-----------------------------------------------------------------------------
(* Fairness, of the service that moves: the tasks Lounge spawned, its      *)
(* timers, the messages NATS delivers, the blocking pool's writes and the  *)
(* heartbeats of a live worker.  Users, edits, halts and deaths have none. *)

\* One worker task, the backlog fillers, and the end of a call that records: it queues the row
\* or is dropped, whichever comes first.
TitlesFairness ==
  /\ WF_titleVars(focus = "titles" /\ WorkerStep)
  /\ WF_titleVars(focus = "titles" /\ FillerStep)
  /\ \A x \in Experience : WF_titleVars(focus = "titles" /\ (EnqueueTitle(x) \/ HandlerDropped(x)))

\* Strong for what arrives: a worker that goes on sending gets through now and then.
RegistryFairness ==
  /\ WF_registryVars(focus = "registry" /\ Sweep)
  /\ \A w \in Worker :
       /\ WF_registryVars(focus = "registry" /\ Heartbeat(w))
       /\ WF_registryVars(focus = "registry" /\ Expire(w) /\ proc[w] = "down")
       /\ \A k \in {"online", "offline"} :
            WF_registryVars(focus = "registry" /\ UpsertConnectedTool(w, k, k = "online"))
       /\ WF_registryVars(focus = "registry" /\ DeactivateConnectedTool(w))
       /\ \A a \in {"register", "heartbeat", "unregister"} :
            SF_registryVars(focus = "registry" /\ ApplyRegistration([from |-> w, action |-> a]))

\* Strong for the tick: the manager's mutex is fair, so a tick gets it between the UI's calls.
SuperFairness ==
  /\ SF_superVars(focus = "supervisor" /\ Tick)
  /\ WF_superVars(focus = "supervisor" /\ WindowOver)
  /\ WF_superVars(focus = "supervisor" /\ EnsureStep)

ServicesSpec ==
  /\ ServicesInit /\ [][ServicesNext]_servicesVars
  /\ TitlesFairness /\ RegistryFairness /\ SuperFairness

=============================================================================
