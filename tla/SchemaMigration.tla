---------------------------- MODULE SchemaMigration ----------------------------
(***************************************************************************)
(* Opening the database (migrate_schema in src-tauri/src/db/experiences.rs *)
(* and what it calls): the desktop app and every lounge-mcp open the same  *)
(* file and bring it to the current release, each statement committing on  *)
(* its own unless it is between BEGIN IMMEDIATE and COMMIT.  A process may *)
(* fail or die between two statements and be started again.                *)
(*                                                                         *)
(* Of the columns that are added only three of one migration are kept;     *)
(* the steps made of IF NOT EXISTS statements alone, and the migrations    *)
(* that read everything again inside one transaction, are left out.        *)
(***************************************************************************)
EXTENDS Naturals, FiniteSets

CONSTANTS
  Opener,     \* the processes that open the database
  Found, Later,   \* the experiences of before the upgrade, and those recorded later
  OldId,      \* the ids, not yet canonical, under which one repository is known
  Canonical,  \* its canonical id
  FiledUnder, \* the project id of each old experience
  Releases,   \* the states of the database at the first opening
  MaxDeaths   \* bound: how often a process dies or an operation of SQLite fails

Added == <<"status", "reviewed", "is_pinned">>  \* additions, in order
Required == "agent_id"
AllColumns == {"id", Required} \cup {Added[i] : i \in DOMAIN Added}

ASSUME MigrationConstants ==
  /\ FiledUnder \in [Found -> OldId]
  /\ Canonical \notin OldId /\ Found \cap Later = {}
  /\ Releases \subseteq {"none", "bare", "ungoverned", "unmapped", "mapped"}
  /\ MaxDeaths \in Nat

VARIABLES
  exps, legacy,  \* tables experiences, experiences_legacy: columns and rows
  reviewed,      \* the column reviewed of each experience
  project,       \* the column project_id of each experience
  aliases,       \* project_aliases: "none", "legacy" or "modern"
  index,         \* the project ids in project_index
  ignored,       \* the project ids under which one symbol is ignored
  hidden,        \* the project ids hidden in project_flags
  remapped,      \* MIGRATION_PROJECT_ID_CANONICAL_V1
  backup,        \* project_id_canonical_v1_row_backup, of the experiences
  fts,           \* vault_fts: is it there, how often each row is in it, its
                 \* triggers, VAULT_FTS_SCHEMA_VERSION_KEY
  opening,       \* per process: where it is, the columns it has read, added_reviewed
  deaths,
  release,       \* history: what the database was
  torn           \* history: which migrations were cut off half-way

tableVars == <<exps, legacy, reviewed, project>>
identityVars == <<aliases, index, ignored, hidden, remapped, backup>>
historyVars == <<release, torn>>
migrationVars == <<tableVars, identityVars, fts, opening, deaths, historyVars>>

Row == Found \cup Later
NoTable == [cols |-> {}, rows |-> {}]
Closed == [pc |-> "off", cols |-> {}, added |-> FALSE]
Unindexed == [r \in Row |-> 0]

ColumnsOf(rel) == CASE rel = "none" -> {} [] rel = "bare" -> {"id"}
                    [] rel = "ungoverned" -> {"id", Required} [] OTHER -> AllColumns

MigrationInit ==
  /\ release \in Releases
  /\ exps = [cols |-> ColumnsOf(release), rows |-> IF release = "none" THEN {} ELSE Found]
  /\ legacy = NoTable
  /\ reviewed = [r \in Row |-> r \in Found /\ release \in {"unmapped", "mapped"}]
  /\ remapped = (release = "mapped")
  /\ project = [r \in Row |-> IF r \in Found /\ ~remapped THEN FiledUnder[r] ELSE Canonical]
  /\ backup = IF remapped THEN {<<r, FiledUnder[r]>> : r \in Found} ELSE {}
  /\ aliases \in CASE remapped -> {"legacy"} [] release = "unmapped" -> {"none", "legacy"}
                   [] OTHER -> {"none"}
  /\ index \in CASE remapped -> {{Canonical}} [] release = "none" -> {{}} [] OTHER -> {{}, OldId}
  /\ ignored \in {{}, index} /\ hidden = index
  /\ fts = [there |-> FALSE, count |-> Unindexed, triggers |-> FALSE, current |-> FALSE]
  /\ opening = [p \in Opener |-> Closed]
  /\ deaths = 0
  /\ torn = {}

At(p, l) == opening[p].pc = l
Goto(p, l) == opening' = [opening EXCEPT ![p].pc = l]
ThereIs(table) == table.cols # {}

(* The error goes up to open: the process is without a store and ends.      *)
CutOff(p) ==
  /\ opening' = [opening EXCEPT ![p] = Closed]
  /\ torn' = torn \cup
       (IF opening[p].pc \in {"recreate", "copy"} THEN {"copy"} ELSE {}) \cup
       (IF opening[p].added THEN {"review"} ELSE {}) \cup
       (IF opening[p].pc \in {"untable", "table", "triggers", "fill"} THEN {"search"} ELSE {})
Fails(p) == CutOff(p) /\ UNCHANGED <<tableVars, identityVars, fts, deaths, release>>

-----------------------------------------------------------------------------
(* project_aliases is looked for in one statement and created in another.   *)

Open(p) ==
  /\ At(p, "off")
  /\ Goto(p, IF aliases = "none" THEN "aliases" ELSE "look")
  /\ UNCHANGED <<tableVars, identityVars, fts, deaths, historyVars>>

CreateAliases(p) ==
  /\ At(p, "aliases")
  /\ \/ aliases # "none" /\ Fails(p)
     \/ /\ aliases = "none" /\ aliases' = "modern"
        /\ Goto(p, "look")
        /\ UNCHANGED <<tableVars, index, ignored, hidden, remapped, backup, fts, deaths, historyVars>>

-----------------------------------------------------------------------------
(* The table of experiences is created, rebuilt or extended.                *)

FindTable(p) ==
  /\ At(p, "look")
  /\ Goto(p, IF ThereIs(exps) THEN "columns" ELSE "create")
  /\ UNCHANGED <<tableVars, identityVars, fts, deaths, historyVars>>

CreateIfMissing == exps' = IF ThereIs(exps) THEN exps ELSE [cols |-> AllColumns, rows |-> {}]

Create(p) ==
  /\ At(p, "create")
  /\ CreateIfMissing
  /\ Goto(p, "canonical")
  /\ UNCHANGED <<legacy, reviewed, project, identityVars, fts, deaths, historyVars>>

ReadColumns(p) ==
  /\ At(p, "columns")
  /\ Goto(p, IF Required \in exps.cols THEN "govern" ELSE "rename")
  /\ UNCHANGED <<tableVars, identityVars, fts, deaths, historyVars>>

(* rebuild_legacy.  Triggers on the table follow it to its new name.        *)
Rename(p) ==
  /\ At(p, "rename")
  /\ \/ (~ThereIs(exps) \/ ThereIs(legacy)) /\ Fails(p)
     \/ /\ ThereIs(exps) /\ ~ThereIs(legacy)
        /\ legacy' = exps /\ exps' = NoTable
        /\ fts' = [fts EXCEPT !.triggers = FALSE]
        /\ Goto(p, "recreate")
        /\ UNCHANGED <<reviewed, project, identityVars, deaths, historyVars>>

Recreate(p) ==
  /\ At(p, "recreate")
  /\ CreateIfMissing
  /\ Goto(p, "copy")
  /\ UNCHANGED <<legacy, reviewed, project, identityVars, fts, deaths, historyVars>>

(* The columns copied are those read before the rename: they are not those  *)
(* of a table another process has rebuilt meanwhile.  The legacy table      *)
(* cannot go meanwhile: nobody else can rename while it is there.           *)
Copyable == Required \notin legacy.cols /\ legacy.rows \cap exps.rows = {}
CopyRows ==
  /\ exps' = [exps EXCEPT !.rows = @ \cup legacy.rows]
  /\ reviewed' = [r \in Row |-> reviewed[r] /\ r \notin legacy.rows]
  /\ fts' = [fts EXCEPT !.count = [r \in Row |->
       IF fts.triggers /\ r \in legacy.rows THEN @[r] + 1 ELSE @[r]]]

(* Mutant of Copy: the error of the copy is ignored.                        *)
CopyOrNot(p) ==
  /\ At(p, "copy")
  /\ IF Copyable THEN CopyRows ELSE UNCHANGED <<exps, reviewed, fts>>
  /\ Goto(p, "drop")
  /\ UNCHANGED <<legacy, project, identityVars, deaths, historyVars>>

Copy(p) ==
  /\ At(p, "copy")
  /\ \/ ~Copyable /\ Fails(p)
     \/ /\ Copyable
        /\ CopyRows
        /\ Goto(p, "drop")
        /\ UNCHANGED <<legacy, project, identityVars, deaths, historyVars>>

Drop(p) ==
  /\ At(p, "drop")
  /\ legacy' = NoTable
  /\ Goto(p, "govern")
  /\ UNCHANGED <<exps, reviewed, project, identityVars, fts, deaths, historyVars>>

(* migrate_experience_governance: the columns are read, and added one by    *)
(* one; then K4, and what else needs the table.                            *)
Govern(p) ==
  /\ At(p, "govern")
  /\ opening' = [opening EXCEPT ![p].pc = "alter", ![p].cols = exps.cols]
  /\ UNCHANGED <<tableVars, identityVars, fts, deaths, historyVars>>

Missing(p) == {i \in DOMAIN Added : Added[i] \notin opening[p].cols}
NextMissing(p) == Added[CHOOSE i \in Missing(p) : \A j \in Missing(p) : i <= j]
Alter(p) ==
  /\ At(p, "alter") /\ Missing(p) # {}
  /\ LET c == NextMissing(p)
     IN \/ (~ThereIs(exps) \/ c \in exps.cols) /\ Fails(p)
        \/ /\ ThereIs(exps) /\ c \notin exps.cols
           /\ exps' = [exps EXCEPT !.cols = @ \cup {c}]
           /\ opening' = [opening EXCEPT ![p].cols = @ \cup {c}, ![p].added = @ \/ c = "reviewed"]
           /\ UNCHANGED <<legacy, reviewed, project, identityVars, fts, deaths, historyVars>>

(* An UPDATE of every row, which the triggers follow.                       *)
MarkReviewed ==
  /\ reviewed' = [r \in Row |-> reviewed[r] \/ r \in exps.rows]
  /\ fts' = [fts EXCEPT !.count = [r \in Row |->
       IF fts.triggers /\ r \in exps.rows THEN 1 ELSE @[r]]]
Backfill(p) ==
  /\ At(p, "alter") /\ Missing(p) = {}
  /\ \/ ~ThereIs(exps) /\ Fails(p)
     \/ /\ ThereIs(exps)
        /\ IF opening[p].added THEN MarkReviewed ELSE UNCHANGED <<reviewed, fts>>
        /\ opening' = [opening EXCEPT ![p].pc = "canonical", ![p].added = FALSE]
        /\ UNCHANGED <<exps, legacy, project, identityVars, deaths, historyVars>>

-----------------------------------------------------------------------------
(* migrate_project_ids_to_canonical: the flag and the kind of the alias     *)
(* table are read before the transaction.                                  *)

ReadDone(p) ==
  /\ At(p, "canonical")
  /\ Goto(p, CASE ~remapped -> "remap" [] remapped /\ aliases = "legacy" -> "upgrade"
               [] OTHER -> "search")
  /\ UNCHANGED <<tableVars, identityVars, fts, deaths, historyVars>>

UpgradeAliases(p) ==
  /\ At(p, "upgrade")
  /\ aliases' = "modern"
  /\ Goto(p, "search")
  /\ UNCHANGED <<tableVars, index, ignored, hidden, remapped, backup, fts, deaths, historyVars>>

(* Ids with a repository become its canonical id.  Of the tables rewritten, *)
(* project_flags merges ids that meet; ignored_symbols has a UNIQUE key.    *)
Remapped == index \cap OldId
Renamed(S) == IF S \cap Remapped = {} THEN S ELSE (S \ Remapped) \cup {Canonical}
Collide(S) == Cardinality(S \cap (Remapped \cup {Canonical})) > 1 /\ S \cap Remapped # {}
Affected == {r \in exps.rows : project[r] \in Remapped}
Rewrite ==
  /\ aliases' = "modern"
  /\ backup' = backup \cup {<<r, project[r]>> : r \in Affected}
  /\ project' = [r \in Row |-> IF r \in Affected THEN Canonical ELSE project[r]]
  /\ index' = Renamed(index) /\ ignored' = Renamed(ignored) /\ hidden' = Renamed(hidden)
  /\ remapped' = TRUE

(* Mutant of Remap: flags that meet are not merged.                         *)
RemapUnmerged(p) ==
  /\ At(p, "remap")
  /\ \/ (Collide(ignored) \/ Collide(hidden)) /\ Fails(p)
     \/ /\ ~Collide(ignored) /\ ~Collide(hidden)
        /\ Rewrite
        /\ Goto(p, "search")
        /\ UNCHANGED <<exps, legacy, reviewed, fts, deaths, historyVars>>

Remap(p) ==
  /\ At(p, "remap")
  /\ \/ Collide(ignored) /\ Fails(p)
     \/ /\ ~Collide(ignored)
        /\ Rewrite
        /\ Goto(p, "search")
        /\ UNCHANGED <<exps, legacy, reviewed, fts, deaths, historyVars>>

-----------------------------------------------------------------------------
(* migrate_vault_fts: no transaction, and the flag comes last.              *)

SearchKept == UNCHANGED <<tableVars, identityVars, deaths, historyVars>>

ReadVersion(p) ==
  /\ At(p, "search")
  /\ Goto(p, IF fts.current /\ fts.there THEN "ready" ELSE "clear")
  /\ UNCHANGED fts /\ SearchKept
DropTriggers(p) ==
  /\ At(p, "clear")
  /\ fts' = [fts EXCEPT !.triggers = FALSE] /\ Goto(p, "untable") /\ SearchKept
DropSearch(p) ==
  /\ At(p, "untable")
  /\ fts' = [fts EXCEPT !.there = FALSE, !.count = Unindexed] /\ Goto(p, "table") /\ SearchKept
CreateSearch(p) ==
  /\ At(p, "table")
  /\ \/ fts.there /\ Fails(p)
     \/ ~fts.there /\ fts' = [fts EXCEPT !.there = TRUE] /\ Goto(p, "triggers") /\ SearchKept
CreateTriggers(p) ==
  /\ At(p, "triggers")
  /\ \/ (fts.triggers \/ ~ThereIs(exps)) /\ Fails(p)
     \/ /\ ~fts.triggers /\ ThereIs(exps)
        /\ fts' = [fts EXCEPT !.triggers = TRUE] /\ Goto(p, "fill") /\ SearchKept
FillSearch(p) ==
  /\ At(p, "fill")
  /\ \/ (~fts.there \/ ~ThereIs(exps)) /\ Fails(p)
     \/ /\ fts.there /\ ThereIs(exps)
        /\ fts' = [fts EXCEPT !.count = [r \in Row |-> IF r \in exps.rows THEN @[r] + 1 ELSE @[r]]]
        /\ Goto(p, "version") /\ SearchKept
SetVersion(p) ==
  /\ At(p, "version")
  /\ fts' = [fts EXCEPT !.current = TRUE]
  /\ Goto(p, "ready") /\ SearchKept

-----------------------------------------------------------------------------
(* A process that has opened the database records an experience, under the  *)
(* id the repository has now.                                              *)
Record(p, r) ==
  /\ At(p, "ready") /\ r \in Later \ (exps.rows \cup legacy.rows)
  /\ ThereIs(exps) /\ (fts.triggers => fts.there)
  /\ exps' = [exps EXCEPT !.rows = @ \cup {r}]
  /\ fts' = IF fts.triggers THEN [fts EXCEPT !.count[r] = @ + 1] ELSE fts
  /\ UNCHANGED <<legacy, reviewed, project, identityVars, opening, deaths, historyVars>>

Die(p) ==
  /\ ~At(p, "off") /\ deaths < MaxDeaths /\ deaths' = deaths + 1
  /\ CutOff(p)
  /\ UNCHANGED <<tableVars, identityVars, fts, release>>

OpeningStep(p) ==
  \/ Open(p) \/ CreateAliases(p)
  \/ FindTable(p) \/ Create(p) \/ ReadColumns(p)
  \/ Rename(p) \/ Recreate(p) \/ Copy(p) \/ Drop(p)
  \/ Govern(p) \/ Alter(p) \/ Backfill(p)
  \/ ReadDone(p) \/ UpgradeAliases(p) \/ Remap(p)
  \/ ReadVersion(p) \/ DropTriggers(p) \/ DropSearch(p) \/ CreateSearch(p) \/ CreateTriggers(p)
  \/ FillSearch(p) \/ SetVersion(p)

MigrationNext ==
  \E p \in Opener : OpeningStep(p) \/ Die(p) \/ \E r \in Later : Record(p, r)

(* A process that is opening the database goes on; nobody has to start it.  *)
Goes(p) == ~At(p, "off") /\ OpeningStep(p)
MigrationFairness == \A p \in Opener : WF_migrationVars(Goes(p))
MigrationSafety == MigrationInit /\ [][MigrationNext]_migrationVars
MigrationSpec == MigrationSafety /\ MigrationFairness

-----------------------------------------------------------------------------
OpenerPlace == {
  "off", "aliases", "look", "columns", "create", "rename", "recreate", "copy", "drop", "govern",
  "alter", "canonical", "upgrade", "remap", "search", "clear", "untable", "table", "triggers",
  "fill", "version", "ready"}
OpenerState == [pc : OpenerPlace, cols : SUBSET AllColumns, added : BOOLEAN]
Table == [cols : SUBSET AllColumns, rows : SUBSET Row]
SearchState == [there : BOOLEAN, count : [Row -> Nat], triggers : BOOLEAN, current : BOOLEAN]

MigrationTypeOK ==
  /\ exps \in Table /\ legacy \in Table
  /\ reviewed \in [Row -> BOOLEAN] /\ project \in [Row -> OldId \cup {Canonical}]
  /\ aliases \in {"none", "legacy", "modern"} /\ remapped \in BOOLEAN
  /\ {index, ignored, hidden} \subseteq SUBSET (OldId \cup {Canonical})
  /\ backup \subseteq Row \X OldId
  /\ fts \in SearchState
  /\ opening \in [Opener -> OpenerState]
  /\ deaths \in 0..MaxDeaths /\ torn \subseteq {"copy", "review", "search"}

AtRest == \A p \in Opener : opening[p].pc \in {"off", "ready"}
Before == IF release = "none" THEN {} ELSE Found

(* No row of before the upgrade is destroyed, whatever runs into what; and  *)
(* none is left behind in experiences_legacy unless a rebuild was cut off.  *)
NoRowLost ==
  /\ Before \subseteq exps.rows \cup legacy.rows
  /\ AtRest /\ "copy" \notin torn => legacy.rows \subseteq exps.rows

(* A new project id can be taken back (docs/mcp.md:37).                     *)
Reversible == \A r \in Before :
  project[r] # FiledUnder[r] => <<r, FiledUnder[r]>> \in backup

(* K4 (protocol.rs:494), as far as it goes: a process that did add the      *)
(* column marks the rows it found, unless it is cut off before.             *)
FoundReviewed ==
  AtRest /\ release # "bare" /\ "review" \notin torn => \A r \in Before \cap exps.rows :
    "reviewed" \in exps.cols => reviewed[r]

(* A search index that is called current, and so is not made again, has     *)
(* every experience, unless somebody was cut off making it.                 *)
SearchComplete ==
  AtRest /\ fts.current /\ fts.there /\ torn \cap {"copy", "search"} = {} =>
    \A r \in exps.rows : fts.count[r] > 0

(* What an upgrade keeps, with two processes at it and either cut off at    *)
(* any statement.                                                          *)
UpgradeKeeps == NoRowLost /\ Reversible /\ FoundReviewed /\ SearchComplete

(* However the two got into each other's way and wherever they were cut    *)
(* off, a process the others leave alone from some point on, and that is    *)
(* started again when it fails, opens the database; unless a symbol is      *)
(* ignored under two ids of one repository: the rewrite then breaks a       *)
(* UNIQUE key, every time.                                                 *)
LeftAlone(p) == \A q \in Opener \ {p} : opening[q].pc \in {"off", "ready"}
Opens == \A p \in Opener :
  <>[]LeftAlone(p) /\ []<>(~At(p, "off")) => <>[](At(p, "ready") \/ Collide(ignored))
=============================================================================
