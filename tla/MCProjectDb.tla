------------------------------ MODULE MCProjectDb ------------------------------
(***************************************************************************)
(* The project database: opening it, by two processes, and the queues that *)
(* fill its index.  The queues start on an open database, so a behaviour   *)
(* moves one of the two, the focus, and leaves the other where it starts.  *)
(***************************************************************************)
EXTENDS MCIndexQueue, SchemaMigration

CONSTANTS e1, e2, id1, id2

MCFiledUnder == [r \in Found |-> IF r = e1 THEN id1 ELSE id2]

VARIABLE focus

projectDbVars == <<focus, vars, migrationVars>>

ProjectDbInit ==
  /\ focus \in {"index", "migration"}
  /\ QueueInit /\ (focus # "index" => \A j \in Job : job[j].phase = "none")
  /\ MigrationInit /\ (focus # "migration" => release = "none")

ProjectDbNext ==
  /\ UNCHANGED focus
  /\ \/ focus = "index" /\ QueueNext /\ UNCHANGED migrationVars
     \/ focus = "migration" /\ MigrationNext /\ UNCHANGED vars

\* QueueFairness and MigrationFairness, of the one that moves.
ProjectDbFairness ==
  /\ WF_vars(focus = "index" /\ LoopStep)
  /\ WF_vars(focus = "index" /\ ScannerStep /\ UNCHANGED queueVars)
  /\ \A j \in Job : WF_vars(focus = "index" /\ RunnerStep(j))
  /\ \A p \in Opener : WF_migrationVars(focus = "migration" /\ Goes(p))

ProjectDbSpec ==
  ProjectDbInit /\ [][ProjectDbNext]_projectDbVars /\ ProjectDbFairness

=============================================================================
