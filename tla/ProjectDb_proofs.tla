---------------------------- MODULE ProjectDb_proofs ----------------------------
(***************************************************************************)
(* Proofs about the project database: opening it (SchemaMigration), for    *)
(* every number of processes and of rows and wherever they are cut off;    *)
(* and the index queue with the scan queue it feeds (IndexQueue,           *)
(* HealthScan), for every number of jobs, scans, repositories, pages and   *)
(* permits.                                                                *)
(***************************************************************************)
EXTENDS IndexQueue, SchemaMigration, SeqFilter_proofs

-----------------------------------------------------------------------------
(* Opening the database.                                                   *)

USE MigrationConstants

IsAt(S) == \E p \in Opener : opening[p].pc \in S
Rebuilding == {"recreate", "copy", "drop"}
Early == {"off", "aliases", "look", "columns", "rename"}
Making == {"untable", "table", "triggers", "fill"}

TablesInv == /\ ~ThereIs(exps) => exps = NoTable
             /\ ~ThereIs(legacy) => legacy = NoTable

RebuildInv ==
  /\ \A p, q \in Opener : {opening[p].pc, opening[q].pc} \subseteq Rebuilding => p = q
  /\ IsAt(Rebuilding) => ThereIs(legacy)
  /\ IsAt({"copy", "drop"}) => ThereIs(exps)
  /\ Before \subseteq exps.rows \cup legacy.rows
  /\ "copy" \notin torn /\ ~IsAt({"recreate", "copy"}) => legacy.rows \subseteq exps.rows
  /\ IsAt({"drop"}) => legacy.rows \subseteq exps.rows

ReviewInv ==
  /\ \A p \in Opener : opening[p].added => At(p, "alter")
  /\ release # "bare" =>
       /\ ~IsAt({"rename"} \cup Rebuilding)
       /\ ThereIs(exps) => Required \in exps.cols
       /\ IsAt({"columns"}) => ThereIs(exps)
       /\ "review" \notin torn /\ "reviewed" \in exps.cols =>
            (\E p \in Opener : opening[p].added) \/ \A r \in Before \cap exps.rows : reviewed[r]

Bare == ThereIs(exps) /\ Required \notin exps.cols
Stale == IsAt({"recreate", "copy"}) /\ Required \in legacy.cols
SearchInv ==
  /\ Bare => ~fts.current /\ \A p \in Opener : opening[p].pc \in Early
  /\ torn \cap {"copy", "search"} = {} /\ ~Stale =>
       /\ fts.current \/ IsAt({"fill", "version"}) =>
            fts.triggers \/ IsAt({"untable", "table", "triggers"})
       /\ fts.current \/ IsAt({"triggers", "fill", "version"}) => fts.there \/ IsAt({"table"})
       /\ (fts.current \/ IsAt({"version"})) /\ ~IsAt(Making) =>
            \A r \in exps.rows : fts.count[r] > 0
MigInv == MigrationTypeOK /\ TablesInv /\ RebuildInv /\ Reversible /\ ReviewInv /\ SearchInv

-----------------------------------------------------------------------------
(* How a process moves.                                                    *)
Moves(p, to) ==
  /\ opening' \in [Opener -> OpenerState]
  /\ \A q \in Opener : opening'[q].pc = IF q = p THEN to ELSE opening[q].pc
AddedStays == \A q \in Opener : opening'[q].added = opening[q].added

(* Going on to the next statement moves one process and nothing else. *)
LEMMA GotoMoves ==
  ASSUME MigrationTypeOK, NEW p \in Opener, NEW to \in OpenerPlace, Goto(p, to)
  PROVE  Moves(p, to) /\ AddedStays
<1>1. opening[p] \in OpenerState BY DEF MigrationTypeOK
<1>2. /\ [opening[p] EXCEPT !.pc = to] \in OpenerState
      /\ [opening[p] EXCEPT !.pc = to].pc = to
      /\ [opening[p] EXCEPT !.pc = to].added = opening[p].added
  BY <1>1 DEF OpenerState
<1>3. opening' = [opening EXCEPT ![p] = [opening[p] EXCEPT !.pc = to]] BY DEF Goto
<1> QED BY <1>2, <1>3 DEF MigrationTypeOK, Moves, AddedStays

(* A process that dies or gives up leaves the half-done work it was in
   behind, and nothing else. *)
LEMMA CutOffMoves ==
  ASSUME MigrationTypeOK, NEW p \in Opener, CutOff(p)
  PROVE  /\ Moves(p, "off")
         /\ \A q \in Opener : opening'[q].added = (q # p /\ opening[q].added)
         /\ torn \subseteq torn' /\ torn' \subseteq {"copy", "review", "search"}
         /\ opening[p].pc \in {"recreate", "copy"} => "copy" \in torn'
         /\ opening[p].added => "review" \in torn'
         /\ opening[p].pc \in Making => "search" \in torn'
<1>1. Closed \in OpenerState /\ Closed.pc = "off" /\ Closed.added = FALSE
  BY DEF Closed, OpenerState, OpenerPlace
<1>2. opening' = [opening EXCEPT ![p] = Closed] BY DEF CutOff
<1>3. Moves(p, "off") BY <1>1, <1>2 DEF MigrationTypeOK, Moves
<1>4. \A q \in Opener : opening'[q].added = IF q = p THEN FALSE ELSE opening[q].added
  BY <1>1, <1>2 DEF MigrationTypeOK
<1>5. \A q \in Opener : opening[q].added \in BOOLEAN BY DEF MigrationTypeOK, OpenerState
<1>6. \A q \in Opener : opening'[q].added = (q # p /\ opening[q].added) BY <1>4, <1>5
<1> QED BY <1>3, <1>6 DEF CutOff, Making, MigrationTypeOK

(* What a process is at when it alters.                                    *)
LEMMA AlterMoves ==
  ASSUME MigrationTypeOK, NEW p \in Opener
  PROVE  /\ Govern(p) => Moves(p, "alter") /\ AddedStays
         /\ \A c \in AllColumns :
              opening' = [opening EXCEPT ![p].cols = @ \cup {c}, ![p].added = @ \/ c = "reviewed"] =>
                /\ Moves(p, opening[p].pc)
                /\ \A q \in Opener : opening'[q].added =
                     (opening[q].added \/ (q = p /\ c = "reviewed"))
         /\ opening' = [opening EXCEPT ![p].pc = "canonical", ![p].added = FALSE] =>
              /\ Moves(p, "canonical")
              /\ \A q \in Opener : opening'[q].added = (q # p /\ opening[q].added)
<1> USE DEF MigrationTypeOK
<1>1. opening[p] \in OpenerState OBVIOUS
<1>2. ASSUME Govern(p) PROVE Moves(p, "alter") /\ AddedStays
  <2> DEFINE new == [opening[p] EXCEPT !.pc = "alter", !.cols = exps.cols]
  <2>1. exps.cols \subseteq AllColumns BY DEF Table
  <2>2. new \in OpenerState /\ new.pc = "alter" /\ new.added = opening[p].added
    BY <1>1, <2>1 DEF OpenerState, OpenerPlace
  <2>3. opening' = [opening EXCEPT ![p] = new] BY <1>2 DEF Govern
  <2> QED BY <2>2, <2>3 DEF Moves, AddedStays
<1>3. ASSUME NEW c \in AllColumns,
             opening' = [opening EXCEPT ![p].cols = @ \cup {c}, ![p].added = @ \/ c = "reviewed"]
      PROVE  /\ Moves(p, opening[p].pc)
             /\ \A q \in Opener : opening'[q].added =
                  (opening[q].added \/ (q = p /\ c = "reviewed"))
  <2> DEFINE new == [opening[p] EXCEPT !.cols = @ \cup {c}, !.added = @ \/ c = "reviewed"]
  <2>1. new \in OpenerState /\ new.pc = opening[p].pc
    BY <1>1 DEF OpenerState
  <2>2. new.added = (opening[p].added \/ c = "reviewed")
    BY <1>1 DEF OpenerState
  <2>3. opening' = [opening EXCEPT ![p] = new] BY <1>3
  <2> HIDE DEF new
  <2>4. \A q \in Opener : opening[q].added \in BOOLEAN BY DEF OpenerState
  <2> QED BY <2>1, <2>2, <2>3, <2>4 DEF Moves
<1>4. ASSUME opening' = [opening EXCEPT ![p].pc = "canonical", ![p].added = FALSE]
      PROVE  /\ Moves(p, "canonical")
             /\ \A q \in Opener : opening'[q].added = (q # p /\ opening[q].added)
  <2> DEFINE new == [opening[p] EXCEPT !.pc = "canonical", !.added = FALSE]
  <2>1. new \in OpenerState /\ new.pc = "canonical" /\ new.added = FALSE
    BY <1>1 DEF OpenerState, OpenerPlace
  <2>3. opening' = [opening EXCEPT ![p] = new] BY <1>4
  <2> HIDE DEF new
  <2>4. \A q \in Opener : opening[q].added \in BOOLEAN BY DEF OpenerState
  <2>5. \A q \in Opener : opening'[q] = IF q = p THEN new ELSE opening[q] BY <2>3
  <2> QED BY <2>1, <2>3, <2>4, <2>5 DEF Moves
<1> QED BY <1>2, <1>3, <1>4

-----------------------------------------------------------------------------
(* The steps by which only a place changes, and whether they may be taken.  *)
Tables == <<exps, legacy, reviewed, fts, torn, release>>
QuietTo(from) ==
  CASE from = "off" -> {"aliases", "look"} [] from = "aliases" -> {"look"}
    [] from = "look" -> IF ThereIs(exps) THEN {"columns"} ELSE {"create"}
    [] from = "columns" -> IF Required \in exps.cols THEN {"govern"} ELSE {"rename"}
    [] from = "govern" -> {"alter"} [] from = "canonical" -> {"remap", "upgrade", "search"}
    [] from \in {"upgrade", "remap"} -> {"search"}
    [] from = "search" -> {"ready", "clear"}
    [] OTHER -> {}
Quiet(p) == /\ UNCHANGED Tables /\ AddedStays
            /\ \E to \in QuietTo(opening[p].pc) : Moves(p, to)

(* The steps that open a database: quiet ones that only move the process,
   deaths, statements that change a table, and records of a later release. *)
LEMMA OpeningCases ==
  ASSUME MigrationTypeOK, NEW p \in Opener,
         OpeningStep(p) \/ Die(p) \/ \E r \in Later : Record(p, r)
  PROVE  \/ Quiet(p)
         \/ CutOff(p) /\ UNCHANGED <<tableVars, fts, release>>
         \/ /\ ~Fails(p)
            /\ \/ Create(p) \/ Rename(p) \/ Recreate(p) \/ Copy(p) \/ Drop(p)
               \/ Alter(p) \/ Backfill(p)
               \/ DropTriggers(p) \/ DropSearch(p) \/ CreateSearch(p) \/ CreateTriggers(p)
               \/ FillSearch(p) \/ SetVersion(p)
         \/ \E r \in Later : Record(p, r)
<1>0. ASSUME NEW to \in OpenerPlace, Goto(p, to), UNCHANGED Tables,
             to \in QuietTo(opening[p].pc)
      PROVE  Quiet(p)
  BY <1>0, GotoMoves DEF Quiet
<1>1. CASE Open(p) BY <1>1, <1>0
                   DEF Open, At, OpenerPlace, QuietTo, Tables, tableVars, historyVars
<1>2. CASE CreateAliases(p)
  BY <1>2, <1>0
     DEF CreateAliases, Fails, At, OpenerPlace, QuietTo, Tables, tableVars, historyVars
<1>3. CASE FindTable(p)
  BY <1>3, <1>0 DEF FindTable, At, OpenerPlace, QuietTo, Tables, tableVars, historyVars
<1>4. CASE ReadColumns(p)
  BY <1>4, <1>0 DEF ReadColumns, At, OpenerPlace, QuietTo, Tables, tableVars, historyVars
<1>5. CASE Govern(p)
  BY <1>5, AlterMoves DEF Quiet, Govern, At, QuietTo, Tables, tableVars, historyVars
<1>6. CASE ReadDone(p)
  BY <1>6, <1>0 DEF ReadDone, At, OpenerPlace, QuietTo, Tables, tableVars, historyVars
<1>7. CASE UpgradeAliases(p)
  BY <1>7, <1>0 DEF UpgradeAliases, At, OpenerPlace, QuietTo, Tables, tableVars, historyVars
<1>8. CASE Remap(p)
  BY <1>8, <1>0 DEF Remap, Fails, At, OpenerPlace, QuietTo, Tables, tableVars, historyVars
<1>9. CASE ReadVersion(p)
  BY <1>9, <1>0
     DEF ReadVersion, SearchKept, At, OpenerPlace, QuietTo, Tables, tableVars, historyVars
<1>10. CASE Die(p) BY <1>10 DEF Die
<1>11. CASE Fails(p) BY <1>11 DEF Fails
<1>19. CASE \E r \in Later : Record(p, r) BY <1>19
<1> QED BY <1>1, <1>2, <1>3, <1>4, <1>5, <1>6, <1>7, <1>8, <1>9, <1>10, <1>11, <1>19
  DEF OpeningStep

(* Where the other steps lead.                                             *)
LEMMA LoudMoves ==
  ASSUME MigrationTypeOK, NEW p \in Opener, ~Fails(p)
  PROVE  /\ Create(p) => Moves(p, "canonical") /\ AddedStays
         /\ Rename(p) => Moves(p, "recreate") /\ AddedStays
         /\ Recreate(p) => Moves(p, "copy") /\ AddedStays
         /\ Copy(p) => Moves(p, "drop") /\ AddedStays
         /\ Drop(p) => Moves(p, "govern") /\ AddedStays
         /\ DropTriggers(p) => Moves(p, "untable") /\ AddedStays
         /\ DropSearch(p) => Moves(p, "table") /\ AddedStays
         /\ CreateSearch(p) => Moves(p, "triggers") /\ AddedStays
         /\ CreateTriggers(p) => Moves(p, "fill") /\ AddedStays
         /\ FillSearch(p) => Moves(p, "version") /\ AddedStays
         /\ SetVersion(p) => Moves(p, "ready") /\ AddedStays
<1>1. ASSUME NEW to \in OpenerPlace, Goto(p, to) PROVE Moves(p, to) /\ AddedStays
  BY <1>1, GotoMoves
<1> USE <1>1 DEF OpenerPlace
<1>2. /\ Create(p) => Moves(p, "canonical") /\ AddedStays
      /\ Rename(p) => Moves(p, "recreate") /\ AddedStays
      /\ Recreate(p) => Moves(p, "copy") /\ AddedStays
      /\ Copy(p) => Moves(p, "drop") /\ AddedStays
      /\ Drop(p) => Moves(p, "govern") /\ AddedStays
  BY DEF Create, Rename, Recreate, Copy, Drop
<1>3. /\ DropTriggers(p) => Moves(p, "untable") /\ AddedStays
      /\ DropSearch(p) => Moves(p, "table") /\ AddedStays
      /\ CreateSearch(p) => Moves(p, "triggers") /\ AddedStays
      /\ CreateTriggers(p) => Moves(p, "fill") /\ AddedStays
      /\ FillSearch(p) => Moves(p, "version") /\ AddedStays
      /\ SetVersion(p) => Moves(p, "ready") /\ AddedStays
  BY DEF DropTriggers, DropSearch, CreateSearch, CreateTriggers, FillSearch, SetVersion
<1> QED BY <1>2, <1>3

(* What ALTER TABLE does: one column more. *)
LEMMA AlterDone ==
  ASSUME MigrationTypeOK, NEW p \in Opener, ~Fails(p), Alter(p)
  PROVE  /\ At(p, "alter") /\ Moves(p, "alter") /\ ThereIs(exps)
         /\ \E c \in AllColumns :
              /\ exps' = [exps EXCEPT !.cols = @ \cup {c}]
              /\ \A q \in Opener : opening'[q].added =
                   (opening[q].added \/ (q = p /\ c = "reviewed"))
         /\ UNCHANGED <<legacy, reviewed, project, identityVars, fts, deaths, historyVars>>
<1> DEFINE c == NextMissing(p)
<1>1. c \in AllColumns
  <2>1. Missing(p) # {} /\ Missing(p) \subseteq DOMAIN Added BY DEF Alter, Missing
  <2>2. \E i \in Missing(p) : \A j \in Missing(p) : i <= j
    BY <2>1 DEF Added
  <2> QED BY <2>1, <2>2 DEF NextMissing, AllColumns
<1>2. /\ exps' = [exps EXCEPT !.cols = @ \cup {c}] /\ ThereIs(exps)
      /\ opening' = [opening EXCEPT ![p].cols = @ \cup {c}, ![p].added = @ \/ c = "reviewed"]
      /\ UNCHANGED <<legacy, reviewed, project, identityVars, fts, deaths, historyVars>>
      /\ opening[p].pc = "alter"
  BY DEF Alter, At
<1> HIDE DEF c
<1> QED BY <1>1, <1>2, AlterMoves DEF At

(* What ends the columns: old rows count as reviewed if the column is new. *)
LEMMA BackfillDone ==
  ASSUME MigrationTypeOK, NEW p \in Opener, ~Fails(p), Backfill(p)
  PROVE  /\ At(p, "alter") /\ Moves(p, "canonical") /\ ThereIs(exps)
         /\ \A q \in Opener : opening'[q].added = (q # p /\ opening[q].added)
         /\ IF opening[p].added THEN MarkReviewed ELSE UNCHANGED <<reviewed, fts>>
         /\ UNCHANGED <<exps, legacy, project, identityVars, deaths, historyVars>>
BY AlterMoves DEF Backfill

(* Where every step leads is a place.                                      *)
LEMMA OpeningTyped ==
  ASSUME MigrationTypeOK, MigrationNext
  PROVE  opening' \in [Opener -> OpenerState]
<1>1. PICK p \in Opener : OpeningStep(p) \/ Die(p) \/ \E r \in Later : Record(p, r)
  BY DEF MigrationNext
<1>2. CASE Quiet(p) BY <1>2 DEF Quiet, Moves
<1>3. CASE CutOff(p) BY <1>3, CutOffMoves DEF Moves
<1>4. CASE \E r \in Later : Record(p, r) BY <1>4 DEF Record, MigrationTypeOK
<1>5. ASSUME ~Fails(p),
             Create(p) \/ Rename(p) \/ Recreate(p) \/ Copy(p) \/ Drop(p)
             \/ DropTriggers(p) \/ DropSearch(p) \/ CreateSearch(p) \/ CreateTriggers(p)
             \/ FillSearch(p) \/ SetVersion(p)
      PROVE  opening' \in [Opener -> OpenerState]
  BY <1>5, LoudMoves DEF Moves
<1>6. ASSUME ~Fails(p), Alter(p) \/ Backfill(p) PROVE opening' \in [Opener -> OpenerState]
  BY <1>6, AlterDone, BackfillDone DEF Moves
<1> QED BY <1>1, <1>2, <1>3, <1>4, <1>5, <1>6, OpeningCases

(* The types of what a step changes.                                       *)
LEMMA MigrationTyped ==
  ASSUME MigrationTypeOK, MigrationNext
  PROVE  MigrationTypeOK'
<1>0. PICK p \in Opener : OpeningStep(p) \/ Die(p) \/ \E r \in Later : Record(p, r)
  BY DEF MigrationNext
<1>1. opening' \in [Opener -> OpenerState] BY OpeningTyped
<1> DEFINE Identity ==
             /\ project \in [Row -> OldId \cup {Canonical}]
             /\ aliases \in {"none", "legacy", "modern"} /\ remapped \in BOOLEAN
             /\ {index, ignored, hidden} \subseteq SUBSET (OldId \cup {Canonical})
             /\ backup \subseteq Row \X OldId
           Tabled == exps \in Table /\ legacy \in Table /\ reviewed \in [Row -> BOOLEAN]
           Ends == deaths \in 0..MaxDeaths /\ torn \subseteq {"copy", "review", "search"}
<1>a. Identity /\ Tabled /\ Ends /\ fts \in SearchState BY DEF MigrationTypeOK
<1>2. Identity'
  <2>1. CASE UNCHANGED <<project, identityVars>> BY <2>1, <1>a DEF identityVars
  <2>2. CASE CreateAliases(p)
    BY <2>2, <1>a, <2>1 DEF CreateAliases, Fails, tableVars
  <2>3. CASE UpgradeAliases(p) BY <2>3, <1>a DEF UpgradeAliases, tableVars
  <2>4. CASE Rewrite
    <3>1. Affected \subseteq Row /\ \A r \in Affected : project[r] \in OldId
      BY <1>a DEF Affected, Table, Remapped
    <3>2. {<<r, project[r]>> : r \in Affected} \subseteq Row \X OldId BY <3>1
    <3>3. \A S \in SUBSET (OldId \cup {Canonical}) : Renamed(S) \subseteq OldId \cup {Canonical}
      BY DEF Renamed
    <3>4. project' \in [Row -> OldId \cup {Canonical}] BY <2>4, <1>a DEF Rewrite
    <3> QED BY <2>4, <3>2, <3>3, <3>4, <1>a DEF Rewrite
  <2>5. CASE Remap(p) BY <2>5, <2>4, <2>1 DEF Remap, Fails, tableVars
  <2>6. CASE Open(p) \/ FindTable(p) \/ Create(p) \/ ReadColumns(p) \/ Rename(p) \/ Recreate(p)
             \/ Copy(p) \/ Drop(p) \/ Govern(p)
    BY <2>6, <2>1
       DEF Open, FindTable, Create, ReadColumns, Rename, Recreate, Copy, Drop, Govern,
         Fails, tableVars
  <2>7. CASE Alter(p) \/ Backfill(p) \/ ReadDone(p) \/ Die(p) \/ \E r \in Later : Record(p, r)
    BY <2>7, <2>1 DEF Alter, Backfill, ReadDone, Die, Record, Fails, tableVars
  <2>8. CASE ReadVersion(p) \/ DropTriggers(p) \/ DropSearch(p) \/ CreateSearch(p)
             \/ CreateTriggers(p) \/ FillSearch(p) \/ SetVersion(p)
    BY <2>8, <2>1 DEF ReadVersion, DropTriggers, DropSearch, CreateSearch, CreateTriggers,
         FillSearch, SetVersion, SearchKept, Fails, tableVars
  <2> HIDE DEF Identity
  <2> QED BY <1>0, <2>2, <2>3, <2>5, <2>6, <2>7, <2>8 DEF OpeningStep
<1>3. Ends'
  <2>1. CASE Die(p) BY <2>1, <1>a, CutOffMoves DEF Die
  <2>2. CASE ~Die(p) /\ CutOff(p) 
    <3>1. deaths' = deaths
      BY <2>2, <1>0
         DEF OpeningStep, Open, CreateAliases, FindTable, Create, ReadColumns, Rename,
           Recreate, Copy, Drop, Govern, Alter, Backfill, ReadDone, UpgradeAliases, Remap,
           ReadVersion, DropTriggers, DropSearch, CreateSearch, CreateTriggers, FillSearch,
           SetVersion, SearchKept, Fails, Record
    <3> QED BY <3>1, <2>2, <1>a, CutOffMoves
  <2>3. CASE ~Die(p) /\ ~CutOff(p)
    <3>1. deaths' = deaths /\ torn' = torn
      BY <2>3, <1>0
         DEF OpeningStep, Open, CreateAliases, FindTable, Create, ReadColumns, Rename,
           Recreate, Copy, Drop, Govern, Alter, Backfill, ReadDone, UpgradeAliases, Remap,
           ReadVersion, DropTriggers, DropSearch, CreateSearch, CreateTriggers, FillSearch,
           SetVersion, SearchKept, Fails, Record, historyVars
    <3> QED BY <3>1, <1>a
  <2> QED BY <2>1, <2>2, <2>3
<1> HIDE DEF Identity, Ends
<1>4. Tabled' /\ fts' \in SearchState
  <2>0. {r \in Row : FALSE} = {} /\ {} \subseteq Row OBVIOUS
  <2>1. CASE UNCHANGED <<exps, legacy, reviewed, fts>> BY <2>1, <1>a
  <2>2. CASE Quiet(p) BY <2>1, <2>2 DEF Quiet, Tables
  <2>3. CASE UNCHANGED <<tableVars, fts>> BY <2>1, <2>3 DEF tableVars
  <2>4. CASE \E r \in Later : Record(p, r)
    <3>1. PICK r \in Later : Record(p, r) BY <2>4
    <3>2. r \in Row BY DEF Row
    <3>3. [exps EXCEPT !.rows = @ \cup {r}] \in Table BY <3>2, <1>a DEF Table
    <3>4. [fts EXCEPT !.count[r] = @ + 1] \in SearchState BY <3>2, <1>a DEF SearchState
    <3> QED BY <3>1, <3>3, <3>4, <1>a DEF Record
  <2>5. NoTable \in Table /\ [cols |-> AllColumns, rows |-> {}] \in Table
    BY DEF NoTable, Table
  <2>6. \A b \in BOOLEAN : /\ [fts EXCEPT !.triggers = b] \in SearchState
                           /\ [fts EXCEPT !.there = b] \in SearchState
                           /\ [fts EXCEPT !.current = b] \in SearchState
    BY <1>a DEF SearchState
  <2>7. CASE Create(p) \/ Recreate(p)
    BY <2>7, <2>5, <1>a DEF Create, Recreate, CreateIfMissing
  <2>8. CASE ~Fails(p) /\ (Rename(p) \/ Drop(p))
    BY <2>8, <2>5, <2>6, <1>a DEF Rename, Drop
  <2>9. CASE ~Fails(p) /\ Copy(p)
    <3>1. [exps EXCEPT !.rows = @ \cup legacy.rows] \in Table BY <1>a DEF Table
    <3> DEFINE more == [r \in Row |->
                          IF fts.triggers /\ r \in legacy.rows THEN fts.count[r] + 1
                          ELSE fts.count[r]]
    <3>2. more \in [Row -> Nat] BY <1>a DEF SearchState
    <3> HIDE DEF more
    <3>3. [fts EXCEPT !.count = more] \in SearchState BY <3>2, <1>a DEF SearchState
    <3>4. [r \in Row |-> reviewed[r] /\ r \notin legacy.rows] \in [Row -> BOOLEAN] OBVIOUS
    <3>5. /\ exps' = [exps EXCEPT !.rows = @ \cup legacy.rows]
          /\ fts' = [fts EXCEPT !.count = more] /\ legacy' = legacy
          /\ reviewed' = [r \in Row |-> reviewed[r] /\ r \notin legacy.rows]
      BY <2>9 DEF Copy, CopyRows, more
    <3> QED BY <3>1, <3>3, <3>4, <3>5, <1>a
  <2>10. CASE ~Fails(p) /\ Alter(p)
    <3>1. PICK c \in AllColumns : exps' = [exps EXCEPT !.cols = @ \cup {c}]
      BY <2>10, AlterDone
    <3>2. [exps EXCEPT !.cols = @ \cup {c}] \in Table BY <1>a DEF Table
    <3> QED BY <2>10, <3>1, <3>2, AlterDone, <1>a
  <2>11. CASE ~Fails(p) /\ Backfill(p)
    <3> DEFINE once == [r \in Row |-> IF fts.triggers /\ r \in exps.rows THEN 1 ELSE fts.count[r]]
    <3>2. once \in [Row -> Nat] BY <1>a DEF SearchState
    <3>3. MarkReviewed => fts' = [fts EXCEPT !.count = once] BY DEF MarkReviewed
    <3> HIDE DEF once
    <3>4. [fts EXCEPT !.count = once] \in SearchState BY <3>2, <1>a DEF SearchState
    <3>5. [r \in Row |-> reviewed[r] \/ r \in exps.rows] \in [Row -> BOOLEAN] OBVIOUS
    <3>6. MarkReviewed => reviewed' \in [Row -> BOOLEAN] /\ fts' \in SearchState
      BY <3>3, <3>4, <3>5 DEF MarkReviewed
    <3> QED BY <2>11, <3>6, BackfillDone, <1>a
  <2>12. CASE \/ DropTriggers(p) \/ SetVersion(p)
              \/ ~Fails(p) /\ (CreateSearch(p) \/ CreateTriggers(p))
    BY <2>12, <2>6, <1>a DEF DropTriggers, SetVersion, CreateSearch, CreateTriggers, SearchKept,
         tableVars
  <2>13. CASE DropSearch(p)
    <3>1. Unindexed \in [Row -> Nat] BY DEF Unindexed
    <3>2. [fts EXCEPT !.there = FALSE, !.count = Unindexed] \in SearchState
      BY <3>1, <1>a DEF SearchState
    <3> QED BY <2>13, <3>2, <1>a DEF DropSearch, SearchKept, tableVars
  <2>14. CASE ~Fails(p) /\ FillSearch(p)
    <3> DEFINE more == [r \in Row |-> IF r \in exps.rows THEN fts.count[r] + 1 ELSE fts.count[r]]
    <3>1. more \in [Row -> Nat] BY <1>a DEF SearchState
    <3>2. fts' = [fts EXCEPT !.count = more] BY <2>14 DEF FillSearch
    <3> HIDE DEF more
    <3>3. [fts EXCEPT !.count = more] \in SearchState BY <3>1, <1>a DEF SearchState
    <3> QED BY <2>14, <3>2, <3>3, <1>a DEF FillSearch, SearchKept, tableVars
  <2> HIDE DEF Tabled
  <2> QED BY <1>0, <2>2, <2>3, <2>4, <2>7, <2>8, <2>9, <2>10, <2>11, <2>12, <2>13, <2>14,
       OpeningCases DEF tableVars
<1> HIDE DEF Tabled
<1> QED BY <1>1, <1>2, <1>3, <1>4 DEF MigrationTypeOK, Identity, Tabled, Ends
-----------------------------------------------------------------------------
(* The tables while one process rebuilds.                                  *)
LEMMA RebuildStep ==
  ASSUME MigrationTypeOK, TablesInv, RebuildInv, MigrationNext
  PROVE  TablesInv' /\ RebuildInv'
<1>0. PICK p \in Opener : OpeningStep(p) \/ Die(p) \/ \E r \in Later : Record(p, r)
  BY DEF MigrationNext
<1>a. exps \in Table /\ legacy \in Table BY DEF MigrationTypeOK
<1>b. NoTable.cols = {} /\ NoTable.rows = {} BY DEF NoTable
<1>c. AllColumns # {} BY DEF AllColumns
<1>d. ASSUME NEW to, Moves(p, to), UNCHANGED <<exps, legacy, torn, release>>,
             opening[p].pc \notin Rebuilding, to \notin Rebuilding
      PROVE  TablesInv' /\ RebuildInv'
  <2>1. TablesInv' BY <1>d DEF TablesInv, ThereIs
  <2>2. \A q \in Opener : \A S \in SUBSET Rebuilding :
          (opening'[q].pc \in S) = (opening[q].pc \in S)
    BY <1>d DEF Moves
  <2>3. ASSUME NEW S \in SUBSET Rebuilding PROVE IsAt(S)' = IsAt(S)
    BY <2>2 DEF IsAt
  <2>5. /\ IsAt(Rebuilding)' = IsAt(Rebuilding)
        /\ IsAt({"copy", "drop"})' = IsAt({"copy", "drop"})
        /\ IsAt({"recreate", "copy"})' = IsAt({"recreate", "copy"})
        /\ IsAt({"drop"})' = IsAt({"drop"})
    BY <2>3 DEF Rebuilding
  <2>4. \A q, s \in Opener :
          {opening'[q].pc, opening'[s].pc} \subseteq Rebuilding => q = s
    BY <2>2 DEF RebuildInv, Rebuilding
  <2> QED BY <1>d, <2>1, <2>5, <2>4 DEF RebuildInv, ThereIs, Before
<1>1. CASE Quiet(p)
  <2>1. PICK to \in QuietTo(opening[p].pc) : Moves(p, to) BY <1>1 DEF Quiet
  <2>2. opening[p].pc \notin Rebuilding /\ to \notin Rebuilding
    BY DEF QuietTo, Rebuilding
  <2> QED BY <1>1, <1>d, <2>1, <2>2 DEF Quiet, Tables
<1>2. CASE CutOff(p) /\ UNCHANGED <<tableVars, fts, release>>
  <2>1. /\ Moves(p, "off") /\ torn \subseteq torn'
        /\ opening[p].pc \in {"recreate", "copy"} => "copy" \in torn'
    BY <1>2, CutOffMoves
  <2>2. \A q \in Opener : opening'[q].pc \in Rebuilding =>
          q # p /\ opening'[q].pc = opening[q].pc
    BY <2>1 DEF Moves, Rebuilding
  <2>3. \A q, s \in Opener :
          {opening'[q].pc, opening'[s].pc} \subseteq Rebuilding => q = s
    BY <2>2 DEF RebuildInv
  <2>4. /\ IsAt(Rebuilding)' => IsAt(Rebuilding)
        /\ IsAt({"copy", "drop"})' => IsAt({"copy", "drop"})
        /\ IsAt({"drop"})' => IsAt({"drop"})
    BY <2>2 DEF IsAt, Rebuilding
  <2>5. "copy" \notin torn' /\ ~IsAt({"recreate", "copy"})' =>
          "copy" \notin torn /\ ~IsAt({"recreate", "copy"})
    BY <2>1 DEF IsAt, Moves
  <2> QED BY <1>2, <2>3, <2>4, <2>5 DEF TablesInv, RebuildInv, ThereIs, Before, tableVars
<1>3. CASE ~Fails(p) /\ Create(p)
  <2>1. Moves(p, "canonical") /\ opening[p].pc = "create" BY <1>3, LoudMoves DEF Create, At
  <2>2. \A q \in Opener : \A S \in SUBSET Rebuilding :
          (opening'[q].pc \in S) = (opening[q].pc \in S)
    BY <2>1 DEF Moves, Rebuilding
  <2>3. ASSUME NEW S \in SUBSET Rebuilding PROVE IsAt(S)' = IsAt(S)
    BY <2>2 DEF IsAt
  <2>4. /\ IsAt(Rebuilding)' = IsAt(Rebuilding)
        /\ IsAt({"copy", "drop"})' = IsAt({"copy", "drop"})
        /\ IsAt({"recreate", "copy"})' = IsAt({"recreate", "copy"})
        /\ IsAt({"drop"})' = IsAt({"drop"})
    BY <2>3 DEF Rebuilding
  <2>5. \A q, s \in Opener :
          {opening'[q].pc, opening'[s].pc} \subseteq Rebuilding => q = s
    BY <2>2 DEF RebuildInv, Rebuilding
  <2>6. /\ legacy' = legacy /\ torn' = torn /\ release' = release
        /\ exps'.rows = exps.rows /\ exps'.cols # {}
    BY <1>3, <1>b, <1>c DEF Create, CreateIfMissing, historyVars, TablesInv, ThereIs
  <2> QED BY <2>4, <2>5, <2>6 DEF TablesInv, RebuildInv, ThereIs, Before
<1>4. CASE ~Fails(p) /\ Rename(p)
  <2>1. /\ Moves(p, "recreate") /\ ThereIs(exps) /\ ~ThereIs(legacy)
        /\ legacy' = exps /\ exps' = NoTable /\ torn' = torn /\ release' = release
    BY <1>4, LoudMoves DEF Rename, historyVars
  <2>2. ~IsAt(Rebuilding) /\ legacy.rows = {} BY <2>1, <1>b DEF RebuildInv, TablesInv
  <2>3. \A q \in Opener : /\ opening'[q].pc \notin {"copy", "drop"}
                          /\ opening'[q].pc \in Rebuilding => q = p
                          /\ opening'[p].pc = "recreate"
    BY <2>1, <2>2 DEF Moves, IsAt, Rebuilding
  <2>4. \A q, s \in Opener :
          {opening'[q].pc, opening'[s].pc} \subseteq Rebuilding => q = s
    BY <2>3
  <2>5. /\ ~IsAt({"copy", "drop"})' /\ ~IsAt({"drop"})'
        /\ IsAt({"recreate", "copy"})'
    BY <2>3 DEF IsAt
  <2> QED BY <2>1, <2>2, <2>4, <2>5 DEF TablesInv, RebuildInv, ThereIs, Before
<1>5. ASSUME opening[p].pc \in Rebuilding, NEW to, Moves(p, to)
      PROVE  /\ \A q \in Opener : opening'[q].pc \in Rebuilding => q = p /\ opening'[q].pc = to
             /\ opening'[p].pc = to
             /\ \A q, s \in Opener :
                  {opening'[q].pc, opening'[s].pc} \subseteq Rebuilding => q = s
  BY <1>5 DEF Moves, RebuildInv
<1>6. CASE ~Fails(p) /\ Recreate(p)
  <2>1. /\ Moves(p, "copy") /\ opening[p].pc = "recreate" /\ CreateIfMissing
        /\ legacy' = legacy /\ torn' = torn /\ release' = release
    BY <1>6, LoudMoves DEF Recreate, At, historyVars
  <2>2. /\ IsAt({"recreate", "copy"})' /\ ~IsAt({"drop"})'
        /\ \A q, s \in Opener :
             {opening'[q].pc, opening'[s].pc} \subseteq Rebuilding => q = s
    BY <2>1, <1>5 DEF Rebuilding, IsAt
  <2>3. ThereIs(legacy) BY <2>1 DEF RebuildInv, IsAt, Rebuilding
  <2>4. exps'.rows = exps.rows /\ exps'.cols # {}
    BY <2>1, <1>b, <1>c DEF CreateIfMissing, TablesInv, ThereIs
  <2> QED BY <2>1, <2>2, <2>3, <2>4 DEF TablesInv, RebuildInv, ThereIs, Before
<1>7. CASE ~Fails(p) /\ Copy(p)
  <2>1. /\ Moves(p, "drop") /\ opening[p].pc = "copy" /\ CopyRows
        /\ legacy' = legacy /\ torn' = torn /\ release' = release
    BY <1>7, LoudMoves DEF Copy, At, historyVars
  <2>2. \A q, s \in Opener :
          {opening'[q].pc, opening'[s].pc} \subseteq Rebuilding => q = s
    BY <2>1, <1>5 DEF Rebuilding
  <2>3. ThereIs(legacy) /\ ThereIs(exps) BY <2>1 DEF RebuildInv, IsAt, Rebuilding
  <2>4. exps'.rows = exps.rows \cup legacy.rows /\ exps'.cols = exps.cols
    BY <2>1, <1>a DEF CopyRows, Table
  <2> QED BY <2>1, <2>2, <2>3, <2>4 DEF TablesInv, RebuildInv, ThereIs, Before
<1>8. CASE ~Fails(p) /\ Drop(p)
  <2>1. /\ Moves(p, "govern") /\ opening[p].pc = "drop" /\ legacy' = NoTable
        /\ exps' = exps /\ torn' = torn /\ release' = release
    BY <1>8, LoudMoves DEF Drop, At, historyVars
  <2>2. /\ ~IsAt(Rebuilding)' /\ ~IsAt({"copy", "drop"})' /\ ~IsAt({"drop"})'
        /\ \A q, s \in Opener :
             {opening'[q].pc, opening'[s].pc} \subseteq Rebuilding => q = s
    BY <2>1, <1>5 DEF Rebuilding, IsAt
  <2>3. legacy.rows \subseteq exps.rows BY <2>1 DEF RebuildInv, IsAt
  <2> QED BY <2>1, <2>2, <2>3, <1>b DEF TablesInv, RebuildInv, ThereIs, Before
<1>9. ASSUME opening[p].pc \notin Rebuilding, NEW to, to \notin Rebuilding, Moves(p, to),
             exps'.rows \in SUBSET Row, exps.rows \subseteq exps'.rows, ThereIs(exps),
             exps.cols \subseteq exps'.cols, UNCHANGED <<legacy, torn, release>>
      PROVE  TablesInv' /\ RebuildInv'
  <2>2. \A q \in Opener : \A S \in SUBSET Rebuilding :
          (opening'[q].pc \in S) = (opening[q].pc \in S)
    BY <1>9 DEF Moves
  <2>3. ASSUME NEW S \in SUBSET Rebuilding PROVE IsAt(S)' = IsAt(S)
    BY <2>2 DEF IsAt
  <2>4. /\ IsAt(Rebuilding)' = IsAt(Rebuilding)
        /\ IsAt({"copy", "drop"})' = IsAt({"copy", "drop"})
        /\ IsAt({"recreate", "copy"})' = IsAt({"recreate", "copy"})
        /\ IsAt({"drop"})' = IsAt({"drop"})
    BY <2>3 DEF Rebuilding
  <2>5. \A q, s \in Opener :
          {opening'[q].pc, opening'[s].pc} \subseteq Rebuilding => q = s
    BY <2>2 DEF RebuildInv, Rebuilding
  <2>6. ThereIs(exps)' BY <1>9 DEF ThereIs
  <2> QED BY <1>9, <2>4, <2>5, <2>6 DEF TablesInv, RebuildInv, ThereIs, Before
<1>10. CASE ~Fails(p) /\ Alter(p)
  <2>1. PICK c \in AllColumns : exps' = [exps EXCEPT !.cols = @ \cup {c}] BY <1>10, AlterDone
  <2>2. exps'.rows = exps.rows /\ exps.cols \subseteq exps'.cols BY <2>1, <1>a DEF Table
  <2> QED BY <1>10, <1>9, <1>a, <2>2, AlterDone DEF At, Rebuilding, historyVars, Table
<1>11. CASE ~Fails(p) /\ Backfill(p)
  BY <1>11, <1>d, BackfillDone DEF At, Rebuilding, historyVars
<1>12. CASE \E r \in Later : Record(p, r)
  <2>1. PICK r \in Later : Record(p, r) BY <1>12
  <2>2. /\ exps' = [exps EXCEPT !.rows = @ \cup {r}] /\ opening' = opening /\ ThereIs(exps)
        /\ opening[p].pc = "ready" /\ UNCHANGED <<legacy, torn, release>>
    BY <2>1 DEF Record, At, historyVars
  <2>3. exps'.rows = exps.rows \cup {r} /\ exps'.cols = exps.cols BY <2>2, <1>a DEF Table
  <2>4. r \in Row BY DEF Row
  <2>5. Moves(p, "ready") BY <2>2 DEF Moves, MigrationTypeOK
  <2> QED BY <1>9, <1>a, <2>2, <2>3, <2>4, <2>5 DEF Rebuilding, Table
<1>13. CASE /\ ~Fails(p)
            /\ \/ DropTriggers(p) \/ DropSearch(p) \/ CreateSearch(p) \/ CreateTriggers(p)
               \/ FillSearch(p) \/ SetVersion(p)
  <2>1. PICK to \in {"untable", "table", "triggers", "fill", "version", "ready"} : Moves(p, to)
    BY <1>13, LoudMoves
  <2>2. /\ opening[p].pc \notin Rebuilding /\ to \notin Rebuilding
        /\ UNCHANGED <<exps, legacy, torn, release>>
    BY <1>13 DEF DropTriggers, DropSearch, CreateSearch, CreateTriggers, FillSearch, SetVersion,
       SearchKept, At, Rebuilding, tableVars, historyVars
  <2> QED BY <1>d, <2>1, <2>2
<1> QED BY <1>0, <1>1, <1>2, <1>3, <1>4, <1>6, <1>7, <1>8, <1>10, <1>11, <1>12, <1>13,
        OpeningCases

(* The ids that the rewrite can take back.                                 *)
LEMMA ReversibleStep ==
  ASSUME MigrationTypeOK, Reversible, MigrationNext
  PROVE  Reversible'
<1>0. PICK p \in Opener : OpeningStep(p) \/ Die(p) \/ \E r \in Later : Record(p, r)
  BY DEF MigrationNext
<1>1. release' = release
  BY <1>0 DEF OpeningStep, Open, CreateAliases, FindTable, Create, ReadColumns, Rename,
     Recreate, Copy, Drop, Govern, Alter, Backfill, ReadDone, UpgradeAliases, Remap,
     ReadVersion, DropTriggers, DropSearch, CreateSearch, CreateTriggers, FillSearch,
     SetVersion, SearchKept, Fails, Record, Die, historyVars
<1>2. CASE UNCHANGED <<project, backup>> BY <1>1, <1>2 DEF Reversible, Before
<1>3. CASE Rewrite
  <2>1. Before \subseteq Row BY DEF Before, Row
  <2>2. \A r \in Before : project'[r] = IF r \in Affected THEN Canonical ELSE project[r]
    BY <2>1, <1>3 DEF Rewrite
  <2>3. backup \subseteq backup' /\ \A r \in Affected : <<r, project[r]>> \in backup'
    BY <1>3 DEF Rewrite
  <2> QED BY <1>1, <2>2, <2>3 DEF Reversible, Before
<1>4. CASE ~Remap(p)
  BY <1>0, <1>2, <1>4
     DEF OpeningStep, Open, CreateAliases, FindTable, Create, ReadColumns, Rename,
     Recreate, Copy, Drop, Govern, Alter, Backfill, ReadDone, UpgradeAliases,
     ReadVersion, DropTriggers, DropSearch, CreateSearch, CreateTriggers, FillSearch,
     SetVersion, SearchKept, Fails, Record, Die, tableVars, identityVars
<1>5. CASE Remap(p) BY <1>2, <1>3, <1>5 DEF Remap, Fails, tableVars, identityVars
<1> QED BY <1>4, <1>5

(* Who has added the column marks the rows, and nobody rebuilds.           *)
LEMMA ReviewStep ==
  ASSUME MigrationTypeOK, TablesInv, RebuildInv, ReviewInv, MigrationNext
  PROVE  ReviewInv'
<1>0. PICK p \in Opener : OpeningStep(p) \/ Die(p) \/ \E r \in Later : Record(p, r)
  BY DEF MigrationNext
<1>a. exps \in Table BY DEF MigrationTypeOK
<1>b. NoTable.cols = {} /\ NoTable.rows = {} BY DEF NoTable
<1> DEFINE Away == \A q \in Opener : opening[q].pc \notin {"rename"} \cup Rebuilding
           Columned == ThereIs(exps) => Required \in exps.cols
           Found1 == \A q \in Opener : opening[q].pc = "columns" => ThereIs(exps)
           Adding == \E q \in Opener : opening[q].added
           Marked == "review" \notin torn /\ "reviewed" \in exps.cols =>
                       Adding \/ \A r \in Before \cap exps.rows : reviewed[r]
           Adders == \A q \in Opener : opening[q].added => opening[q].pc = "alter"
<1>c. Adders /\ (release # "bare" => Away /\ Columned /\ Found1 /\ Marked)
  BY DEF ReviewInv, IsAt, At
<1>d. ASSUME Adders',
             release # "bare" => Away' /\ Columned' /\ Found1' /\ Marked', release' = release
      PROVE  ReviewInv'
  BY <1>d DEF ReviewInv, IsAt, At
<1>e. ASSUME NEW to, Moves(p, to), AddedStays, opening[p].pc # "alter",
             release # "bare" =>
               /\ to \notin {"rename"} \cup Rebuilding
               /\ to = "columns" => ThereIs(exps)
               /\ \/ exps'.cols = exps.cols
                  \/ exps'.rows = {} /\ Required \in exps'.cols
               /\ \A r \in Before \cap exps'.rows : r \in exps.rows /\ reviewed'[r] = reviewed[r],
             torn' = torn, release' = release
      PROVE  ReviewInv'
  <2>1. Adders' BY <1>c, <1>e DEF Moves, AddedStays
  <2>2. Adding' = Adding BY <1>e DEF AddedStays
  <2> SUFFICES ASSUME release # "bare" PROVE Away' /\ Columned' /\ Found1' /\ Marked'
    BY <1>d, <1>e, <2>1
  <2>3. Away' BY <1>c, <1>e DEF Moves
  <2>4. Columned' /\ (ThereIs(exps) => ThereIs(exps)') BY <1>c, <1>e DEF ThereIs
  <2>5. Found1' BY <1>c, <1>e, <2>4 DEF Moves
  <2>6. Before' = Before BY <1>e DEF Before
  <2> HIDE DEF Adding
  <2>7. Marked' BY <1>c, <1>e, <2>2, <2>6
  <2> QED BY <2>3, <2>4, <2>5, <2>7
<1>1. CASE Quiet(p)
  <2>1. PICK to \in QuietTo(opening[p].pc) : Moves(p, to) BY <1>1 DEF Quiet
  <2>2. /\ opening[p].pc # "alter" /\ to \notin Rebuilding
        /\ to = "columns" => ThereIs(exps)
        /\ to = "rename" => opening[p].pc = "columns" /\ Required \notin exps.cols
    BY DEF QuietTo, Rebuilding
  <2>3. release # "bare" => to # "rename" BY <1>c, <2>2
  <2>4. UNCHANGED <<exps, reviewed, torn, release>> /\ AddedStays BY <1>1 DEF Quiet, Tables
  <2> HIDE DEF Adders, Away, Columned, Found1, Marked
  <2> QED BY <1>e, <2>1, <2>2, <2>3, <2>4
<1>2. CASE CutOff(p) /\ UNCHANGED <<tableVars, fts, release>>
  <2>1. /\ Moves(p, "off") /\ torn \subseteq torn'
        /\ \A q \in Opener : opening'[q].added = (q # p /\ opening[q].added)
        /\ opening[p].added => "review" \in torn'
    BY <1>2, CutOffMoves
  <2>2. Adders' BY <1>c, <2>1 DEF Moves
  <2> SUFFICES ASSUME release # "bare" PROVE Away' /\ Columned' /\ Found1' /\ Marked'
    BY <1>d, <1>2, <2>2
  <2>3. Away' BY <1>c, <2>1 DEF Moves, Rebuilding
  <2>4. Columned' BY <1>c, <1>2 DEF ThereIs, tableVars
  <2>5. Found1' BY <1>c, <1>2, <2>1 DEF Moves, ThereIs, tableVars
  <2>6. "review" \notin torn' /\ Adding => Adding' BY <2>1
  <2>7. Before' = Before BY <1>2 DEF Before
  <2> HIDE DEF Adding
  <2>8. Marked' BY <1>c, <1>2, <2>1, <2>6, <2>7 DEF tableVars
  <2> QED BY <2>3, <2>4, <2>5, <2>8
<1>3. CASE ~Fails(p) /\ Create(p)
  <2>1. Moves(p, "canonical") /\ AddedStays /\ opening[p].pc = "create"
    BY <1>3, LoudMoves DEF Create, At
  <2>2. Required \in AllColumns BY DEF AllColumns
  <2>3. \/ exps' = exps
        \/ exps'.rows = {} /\ Required \in exps'.cols
    BY <1>3, <2>2 DEF Create, CreateIfMissing
  <2> QED BY <1>3, <1>e, <2>1, <2>3 DEF Create, historyVars, Rebuilding
<1>4. CASE ~Fails(p) /\ (Rename(p) \/ Recreate(p) \/ Copy(p) \/ Drop(p))
  <2>1. /\ opening[p].pc \in {"rename"} \cup Rebuilding
        /\ UNCHANGED <<torn, release>>
    BY <1>4 DEF Rename, Recreate, Copy, Drop, At, Rebuilding, historyVars
  <2>2. PICK to \in {"recreate", "copy", "drop", "govern"} : Moves(p, to) /\ AddedStays
    BY <1>4, LoudMoves
  <2>3. release = "bare" BY <1>c, <2>1
  <2>4. opening[p].pc # "alter" BY <2>1 DEF Rebuilding
  <2> QED BY <1>e, <2>1, <2>2, <2>3, <2>4
<1>5. CASE ~Fails(p) /\ Alter(p)
  <2>1. PICK c \in AllColumns : 
          /\ exps' = [exps EXCEPT !.cols = @ \cup {c}]
          /\ \A q \in Opener : opening'[q].added =
               (opening[q].added \/ (q = p /\ c = "reviewed"))
    BY <1>5, AlterDone
  <2>2. /\ opening[p].pc = "alter" /\ Moves(p, "alter")
        /\ UNCHANGED <<reviewed, torn, release>>
    BY <1>5, AlterDone DEF At, historyVars
  <2>3. exps'.rows = exps.rows /\ exps'.cols = exps.cols \cup {c} BY <2>1, <1>a DEF Table
  <2>4. Adders' BY <1>c, <2>1, <2>2 DEF Moves
  <2> SUFFICES ASSUME release # "bare" PROVE Away' /\ Columned' /\ Found1' /\ Marked'
    BY <1>d, <2>2, <2>4
  <2>5. Away' BY <1>c, <2>2 DEF Moves, Rebuilding
  <2>6. ThereIs(exps) BY <1>5, AlterDone
  <2>7. Columned' /\ Found1' BY <1>c, <2>3, <2>6 DEF ThereIs
  <2>8. c = "reviewed" \/ Adding => Adding' BY <2>1
  <2>9. Before' = Before BY <2>2 DEF Before
  <2> HIDE DEF Adding
  <2>10. Marked' BY <1>c, <2>2, <2>3, <2>8, <2>9
  <2> QED BY <2>5, <2>7, <2>10
<1>6. CASE ~Fails(p) /\ Backfill(p)
  <2>1. /\ opening[p].pc = "alter" /\ Moves(p, "canonical")
        /\ \A q \in Opener : opening'[q].added = (q # p /\ opening[q].added)
        /\ IF opening[p].added THEN MarkReviewed ELSE UNCHANGED <<reviewed, fts>>
        /\ UNCHANGED <<exps, torn, release>>
    BY <1>6, BackfillDone DEF At, historyVars
  <2>2. Adders' BY <1>c, <2>1 DEF Moves
  <2> SUFFICES ASSUME release # "bare" PROVE Away' /\ Columned' /\ Found1' /\ Marked'
    BY <1>d, <2>1, <2>2
  <2>3. Away' BY <1>c, <2>1 DEF Moves, Rebuilding
  <2>4. Columned' /\ Found1' BY <1>c, <2>1 DEF ThereIs, Moves
  <2>5. Before' = Before BY <2>1 DEF Before
  <2>6. exps.rows \subseteq Row BY <1>a DEF Table
  <2>7. CASE opening[p].added
    <3>1. \A r \in exps.rows : reviewed'[r] BY <2>1, <2>6, <2>7 DEF MarkReviewed
    <3>2. Marked' BY <2>1, <3>1
    <3> QED BY <2>3, <2>4, <3>2
  <2>8. CASE ~opening[p].added
    <3>1. Adding => Adding' BY <2>1, <2>8
    <3> HIDE DEF Adding
    <3>2. Marked' BY <1>c, <2>1, <2>5, <2>8, <3>1
    <3> QED BY <2>3, <2>4, <3>2
  <2> QED BY <2>7, <2>8
<1>7. CASE \E r \in Later : Record(p, r)
  <2>1. PICK r \in Later : Record(p, r) BY <1>7
  <2>2. /\ exps' = [exps EXCEPT !.rows = @ \cup {r}] /\ opening' = opening
        /\ opening[p].pc = "ready" /\ UNCHANGED <<reviewed, torn, release>>
    BY <2>1 DEF Record, At, historyVars
  <2>3. exps'.rows = exps.rows \cup {r} /\ exps'.cols = exps.cols BY <2>2, <1>a DEF Table
  <2>4. r \notin Before BY DEF Before
  <2>5. Moves(p, "ready") /\ AddedStays BY <2>2 DEF Moves, AddedStays, MigrationTypeOK
  <2> QED BY <1>e, <2>2, <2>3, <2>4, <2>5 DEF Rebuilding
<1>8. CASE /\ ~Fails(p)
           /\ \/ DropTriggers(p) \/ DropSearch(p) \/ CreateSearch(p) \/ CreateTriggers(p)
              \/ FillSearch(p) \/ SetVersion(p)
  <2>1. PICK to \in {"untable", "table", "triggers", "fill", "version", "ready"} :
          Moves(p, to) /\ AddedStays
    BY <1>8, LoudMoves
  <2>2. /\ opening[p].pc # "alter" /\ to \notin {"rename", "columns"} \cup Rebuilding
        /\ UNCHANGED <<exps, reviewed, torn, release>>
    BY <1>8 DEF DropTriggers, DropSearch, CreateSearch, CreateTriggers, FillSearch, SetVersion,
       SearchKept, At, Rebuilding, tableVars, historyVars
  <2> QED BY <1>e, <2>1, <2>2
<1> QED BY <1>0, <1>1, <1>2, <1>3, <1>4, <1>5, <1>6, <1>7, <1>8, OpeningCases

(* A table of before the governance columns is one nobody has passed.      *)
LEMMA BareStep ==
  ASSUME MigrationTypeOK, TablesInv, RebuildInv, SearchInv, MigrationNext
  PROVE  Bare' => ~fts'.current /\ \A q \in Opener : opening'[q].pc \in Early
<1>0. PICK p \in Opener : OpeningStep(p) \/ Die(p) \/ \E r \in Later : Record(p, r)
  BY DEF MigrationNext
<1>a. exps \in Table /\ fts \in SearchState BY DEF MigrationTypeOK
<1>b. Bare => ~fts.current /\ \A q \in Opener : opening[q].pc \in Early BY DEF SearchInv
<1>c. Required \in AllColumns BY DEF AllColumns
<1>d. ASSUME NEW to, Moves(p, to), Bare' => Bare,
             Bare /\ opening[p].pc \in Early => to \in Early /\ fts'.current = fts.current
      PROVE  Bare' => ~fts'.current /\ \A q \in Opener : opening'[q].pc \in Early
  BY <1>b, <1>d DEF Moves
<1>1. CASE Quiet(p)
  <2>1. PICK to \in QuietTo(opening[p].pc) : Moves(p, to) BY <1>1 DEF Quiet
  <2>2. Bare' = Bare /\ fts' = fts BY <1>1 DEF Quiet, Tables, Bare, ThereIs
  <2>3. Bare /\ opening[p].pc \in Early => to \in Early BY DEF QuietTo, Early, Bare
  <2> QED BY <1>d, <2>1, <2>2, <2>3
<1>2. CASE CutOff(p) /\ UNCHANGED <<tableVars, fts, release>>
  <2>1. Moves(p, "off") BY <1>2, CutOffMoves
  <2>2. Bare' = Bare /\ fts' = fts BY <1>2 DEF tableVars, Bare, ThereIs
  <2> QED BY <1>d, <2>1, <2>2 DEF Early
<1>3. CASE ~Fails(p) /\ (Create(p) \/ Recreate(p))
  <2>1. /\ CreateIfMissing /\ fts' = fts /\ opening[p].pc \notin Early
        /\ \E to : Moves(p, to)
    BY <1>3, LoudMoves DEF Create, Recreate, At, Early
  <2>2. Bare' => Bare BY <1>c, <2>1 DEF CreateIfMissing, Bare, ThereIs
  <2> QED BY <1>d, <2>1, <2>2
<1>4. CASE ~Fails(p) /\ Rename(p)
  <2>1. exps' = NoTable BY <1>4 DEF Rename
  <2> QED BY <2>1 DEF Bare, ThereIs, NoTable
<1>5. CASE ~Fails(p) /\ (Copy(p) \/ Drop(p))
  <2>1. /\ opening[p].pc \notin Early /\ exps'.cols = exps.cols
        /\ \E to : Moves(p, to)
    BY <1>5, <1>a, LoudMoves DEF Copy, CopyRows, Drop, At, Early, Table
  <2>2. Bare' = Bare BY <2>1 DEF Bare, ThereIs
  <2> QED BY <1>d, <2>1, <2>2
<1>6. CASE ~Fails(p) /\ Alter(p)
  <2>1. opening[p].pc = "alter" /\ Moves(p, "alter") /\ ThereIs(exps)
    BY <1>6, AlterDone DEF At
  <2>2. PICK c \in AllColumns : exps' = [exps EXCEPT !.cols = @ \cup {c}] BY <1>6, AlterDone
  <2>3. exps'.cols = exps.cols \cup {c} BY <2>2, <1>a DEF Table
  <2>4. Bare' => Bare BY <2>1, <2>3 DEF Bare
  <2> QED BY <1>d, <2>1, <2>4 DEF Early
<1>7. CASE ~Fails(p) /\ Backfill(p)
  <2>1. opening[p].pc = "alter" /\ Moves(p, "canonical") /\ exps' = exps
    BY <1>7, BackfillDone DEF At
  <2>2. Bare' = Bare BY <2>1 DEF Bare, ThereIs
  <2> QED BY <1>d, <2>1, <2>2 DEF Early
<1>8. CASE \E r \in Later : Record(p, r)
  <2>1. PICK r \in Later : Record(p, r) BY <1>8
  <2>2. opening' = opening /\ opening[p].pc = "ready" /\ exps'.cols = exps.cols
    BY <2>1, <1>a DEF Record, At, Table
  <2>3. Moves(p, "ready") BY <2>2 DEF Moves, MigrationTypeOK
  <2>4. Bare' = Bare BY <2>2 DEF Bare, ThereIs
  <2> QED BY <1>d, <2>2, <2>3, <2>4 DEF Early
<1>9. CASE /\ ~Fails(p)
           /\ \/ DropTriggers(p) \/ DropSearch(p) \/ CreateSearch(p) \/ CreateTriggers(p)
              \/ FillSearch(p) \/ SetVersion(p)
  <2>1. \E to : Moves(p, to) BY <1>9, LoudMoves
  <2>2. opening[p].pc \notin Early /\ exps' = exps
    BY <1>9 DEF DropTriggers, DropSearch, CreateSearch, CreateTriggers, FillSearch, SetVersion,
       SearchKept, At, Early, tableVars
  <2>3. Bare' = Bare BY <2>2 DEF Bare, ThereIs
  <2> QED BY <1>d, <2>1, <2>2, <2>3
<1> QED BY <1>0, <1>1, <1>2, <1>3, <1>4, <1>5, <1>6, <1>7, <1>8, <1>9, OpeningCases

(* The search index while it is made again.                                *)
LEMMA SearchStep ==
  ASSUME MigrationTypeOK, TablesInv, RebuildInv, SearchInv, MigrationNext
  PROVE  SearchInv'
<1>0. PICK p \in Opener : OpeningStep(p) \/ Die(p) \/ \E r \in Later : Record(p, r)
  BY DEF MigrationNext
<1>a. exps \in Table /\ legacy \in Table /\ fts \in SearchState BY DEF MigrationTypeOK
<1> DEFINE Other(l) == \E q \in Opener : q # p /\ opening[q].pc = l
           Unhurt == torn \cap {"copy", "search"} = {}
           Counted == \A r \in exps.rows : fts.count[r] > 0
           From(l) == opening[p].pc = l
           Beside == Other("recreate") \/ Other("copy")
           Remaking == Other("untable") \/ Other("table") \/ Other("triggers") \/ Other("fill")
           Clean(to) == Unhurt' /\ ~((to \in {"recreate", "copy"} \/ Beside) /\ Required \in legacy'.cols)
           Trigs(to) ==
             fts'.current \/ to \in {"fill", "version"} \/ Other("fill") \/ Other("version") =>
               \/ fts'.triggers \/ to \in {"untable", "table", "triggers"}
               \/ Other("untable") \/ Other("table") \/ Other("triggers")
           There(to) ==
             fts'.current \/ to \in {"triggers", "fill", "version"}
               \/ Other("triggers") \/ Other("fill") \/ Other("version") =>
                 fts'.there \/ to = "table" \/ Other("table")
           Filled(to) ==
             (fts'.current \/ to = "version" \/ Other("version"))
             /\ ~(to \in {"untable", "table", "triggers", "fill"} \/ Remaking) => Counted'
<1>b. SUFFICES ASSUME
        Unhurt /\ ~((From("recreate") \/ From("copy") \/ Beside) /\ Required \in legacy.cols) =>
          /\ fts.current \/ From("fill") \/ From("version") \/ Other("fill") \/ Other("version") =>
               \/ fts.triggers \/ From("untable") \/ From("table") \/ From("triggers")
               \/ Other("untable") \/ Other("table") \/ Other("triggers")
          /\ fts.current \/ From("triggers") \/ From("fill") \/ From("version")
               \/ Other("triggers") \/ Other("fill") \/ Other("version") =>
                 fts.there \/ From("table") \/ Other("table")
          /\ (fts.current \/ From("version") \/ Other("version"))
             /\ ~(From("untable") \/ From("table") \/ From("triggers") \/ From("fill") \/ Remaking) =>
               Counted
      PROVE SearchInv'
  <2>3. /\ IsAt({"fill", "version"}) =
             (From("fill") \/ From("version") \/ Other("fill") \/ Other("version"))
        /\ IsAt({"untable", "table", "triggers"}) =
             (\/ From("untable") \/ From("table") \/ From("triggers")
              \/ Other("untable") \/ Other("table") \/ Other("triggers"))
        /\ IsAt({"triggers", "fill", "version"}) =
             (\/ From("triggers") \/ From("fill") \/ From("version")
              \/ Other("triggers") \/ Other("fill") \/ Other("version"))
    BY DEF IsAt
  <2>4. /\ IsAt({"table"}) = (From("table") \/ Other("table"))
        /\ IsAt({"version"}) = (From("version") \/ Other("version"))
        /\ IsAt(Making) =
             (From("untable") \/ From("table") \/ From("triggers") \/ From("fill") \/ Remaking)
        /\ Stale = ((From("recreate") \/ From("copy") \/ Beside) /\ Required \in legacy.cols)
    BY DEF IsAt, Making, Stale
  <2>5. SearchInv => (torn \cap {"copy", "search"} = {} /\ ~Stale =>
       /\ fts.current \/ IsAt({"fill", "version"}) =>
            fts.triggers \/ IsAt({"untable", "table", "triggers"})
       /\ fts.current \/ IsAt({"triggers", "fill", "version"}) => fts.there \/ IsAt({"table"})
       /\ (fts.current \/ IsAt({"version"})) /\ ~IsAt(Making) =>
            \A r \in exps.rows : fts.count[r] > 0)
    BY DEF SearchInv
  <2> HIDE DEF Other, From, Beside, Remaking
  <2> QED BY <2>3, <2>4, <2>5
<1>c. ASSUME NEW to, Moves(p, to), Clean(to) => Trigs(to) /\ There(to) /\ Filled(to)
      PROVE  SearchInv'
  <2>1. \A q \in Opener : opening'[q].pc = IF q = p THEN to ELSE opening[q].pc
    BY <1>c DEF Moves
  <2>2. Bare' => ~fts'.current /\ \A q \in Opener : opening'[q].pc \in Early BY BareStep
  <2>3. /\ IsAt({"fill", "version"})' =
             (to \in {"fill", "version"} \/ Other("fill") \/ Other("version"))
        /\ IsAt({"untable", "table", "triggers"})' =
             (\/ to \in {"untable", "table", "triggers"}
              \/ Other("untable") \/ Other("table") \/ Other("triggers"))
        /\ IsAt({"triggers", "fill", "version"})' =
             (\/ to \in {"triggers", "fill", "version"}
              \/ Other("triggers") \/ Other("fill") \/ Other("version"))
    BY <2>1 DEF IsAt
  <2>4. /\ IsAt({"table"})' = (to = "table" \/ Other("table"))
        /\ IsAt({"version"})' = (to = "version" \/ Other("version"))
        /\ IsAt(Making)' = (to \in {"untable", "table", "triggers", "fill"} \/ Remaking)
        /\ Stale' = ((to \in {"recreate", "copy"} \/ Beside) /\ Required \in legacy'.cols)
    BY <2>1 DEF IsAt, Making, Stale
  <2> HIDE DEF Other, Beside, Remaking, Counted, Unhurt
  <2>5. torn' \cap {"copy", "search"} = {} /\ ~Stale' => Clean(to) BY <2>4 DEF Unhurt
  <2>6. Trigs(to) => (fts'.current \/ IsAt({"fill", "version"})' =>
           fts'.triggers \/ IsAt({"untable", "table", "triggers"})')
    BY <2>3
  <2>7. There(to) => (fts'.current \/ IsAt({"triggers", "fill", "version"})' =>
           fts'.there \/ IsAt({"table"})')
    BY <2>3, <2>4
  <2>8. Filled(to) => ((fts'.current \/ IsAt({"version"})') /\ ~IsAt(Making)' => Counted')
    BY <2>4
  <2> HIDE DEF Clean, Trigs, There, Filled
  <2> QED BY <1>c, <2>2, <2>5, <2>6, <2>7, <2>8 DEF SearchInv, Counted
<1> HIDE DEF Other, From, Clean, Trigs, There, Filled
<1>f. \A l : From(l) = (opening[p].pc = l) BY DEF From
<1> USE DEF Beside, Remaking

<1>d. ASSUME NEW to, Moves(p, to),
             {opening[p].pc, to} \cap
               {"recreate", "copy", "untable", "table", "triggers", "fill", "version"} = {},
             torn' = torn, legacy'.cols = legacy.cols \/ ~Beside,
             fts'.current = fts.current, fts'.there = fts.there, fts'.triggers = fts.triggers,
             fts.triggers /\ Counted => Counted'
      PROVE  SearchInv'
  <2>1. /\ ~From("recreate") /\ ~From("copy") /\ ~From("untable") /\ ~From("table")
        /\ ~From("triggers") /\ ~From("fill") /\ ~From("version")
    BY <1>d, <1>f
  <2>2. /\ to \notin {"recreate", "copy"} /\ to \notin {"fill", "version"}
        /\ to \notin {"untable", "table", "triggers"} /\ to \notin {"triggers", "fill", "version"}
        /\ to # "table" /\ to # "version" /\ to \notin {"untable", "table", "triggers", "fill"}
    BY <1>d
  <2>3. Unhurt' = Unhurt BY <1>d
  <2> HIDE DEF Counted, Unhurt
  <2>9. ASSUME Clean(to) PROVE Trigs(to) /\ There(to) /\ Filled(to)
    <3>1. Trigs(to)
      BY <1>b, <2>9, <1>d, <2>1, <2>2, <2>3 DEF Clean, Trigs
    <3>2. There(to)
      BY <1>b, <2>9, <1>d, <2>1, <2>2, <2>3 DEF Clean, There
    <3>3. Filled(to)
      BY <1>b, <2>9, <1>d, <2>1, <2>2, <2>3 DEF Clean, Filled
    <3> QED BY <3>1, <3>2, <3>3
  <2> QED BY <1>c, <2>1, <2>9, <1>d
<1>1. CASE Quiet(p)
  <2>1. PICK to \in QuietTo(opening[p].pc) : Moves(p, to) BY <1>1 DEF Quiet
  <2>2. UNCHANGED <<exps, legacy, fts, torn>> BY <1>1 DEF Quiet, Tables
  <2>3. {opening[p].pc, to} \cap
          {"recreate", "copy", "untable", "table", "triggers", "fill", "version"} = {}
    BY DEF QuietTo
  <2> QED BY <1>d, <2>1, <2>2, <2>3
<1>2. CASE CutOff(p) /\ UNCHANGED <<tableVars, fts, release>>
  <2>1. /\ Moves(p, "off") /\ torn \subseteq torn'
        /\ opening[p].pc \in {"recreate", "copy"} => "copy" \in torn'
        /\ opening[p].pc \in Making => "search" \in torn'
    BY <1>2, CutOffMoves
  <2>2. Unhurt' => /\ Unhurt /\ ~From("recreate") /\ ~From("copy")
                   /\ ~From("untable") /\ ~From("table") /\ ~From("triggers") /\ ~From("fill")
    BY <2>1, <1>f DEF Making
  <2>3. UNCHANGED <<exps, legacy, fts>> BY <1>2 DEF tableVars
  <2>4. Counted' = Counted BY <2>3
  <2> HIDE DEF Counted, Unhurt
  <2>9. ASSUME Clean("off") PROVE Trigs("off") /\ There("off") /\ Filled("off")
    <3>1. Trigs("off")
      BY <1>b, <2>9, <2>1, <2>2, <2>3, <2>4 DEF Clean, Trigs
    <3>2. There("off")
      BY <1>b, <2>9, <2>1, <2>2, <2>3, <2>4 DEF Clean, There
    <3>3. Filled("off")
      BY <1>b, <2>9, <2>1, <2>2, <2>3, <2>4 DEF Clean, Filled
    <3> QED BY <3>1, <3>2, <3>3
  <2> QED BY <1>c, <2>1, <2>9
<1>3. CASE ~Fails(p) /\ Create(p)
  <2>1. /\ Moves(p, "canonical") /\ opening[p].pc = "create" /\ CreateIfMissing
        /\ UNCHANGED <<legacy, fts, torn>>
    BY <1>3, LoudMoves DEF Create, At, historyVars
  <2>2. exps'.rows \subseteq exps.rows BY <2>1 DEF CreateIfMissing
  <2> QED BY <1>d, <2>1, <2>2
<1>4. CASE ~Fails(p) /\ Rename(p)
  <2>1. /\ Moves(p, "recreate") /\ ThereIs(exps) /\ legacy' = exps /\ exps' = NoTable
        /\ opening[p].pc = "rename" /\ torn' = torn
        /\ fts' = [fts EXCEPT !.triggers = FALSE]
    BY <1>4, LoudMoves DEF Rename, At, historyVars
  <2>2. CASE Required \in exps.cols
    <3>1. legacy'.cols = exps.cols BY <2>1
    <3>9. ASSUME Clean("recreate") PROVE Trigs("recreate") /\ There("recreate") /\ Filled("recreate")
      <4>1. Trigs("recreate")
        BY <3>9, <2>1, <2>2, <3>1 DEF Clean, Trigs
      <4>2. There("recreate")
        BY <3>9, <2>1, <2>2, <3>1 DEF Clean, There
      <4>3. Filled("recreate")
        BY <3>9, <2>1, <2>2, <3>1 DEF Clean, Filled
      <4> QED BY <4>1, <4>2, <4>3
    <3> QED BY <1>c, <2>1, <3>9
  <2>3. CASE Required \notin exps.cols
    <3>1. ~fts.current /\ \A q \in Opener : opening[q].pc \in Early
      BY <2>1, <2>3 DEF SearchInv, Bare
    <3>2. ~fts'.current BY <2>1, <3>1, <1>a DEF SearchState
    <3>3. /\ ~Other("fill") /\ ~Other("version") /\ ~Other("triggers")
      BY <3>1 DEF Other, Early
    <3>9. ASSUME Clean("recreate") PROVE Trigs("recreate") /\ There("recreate") /\ Filled("recreate")
      <4>1. Trigs("recreate")
        BY <3>9, <2>1, <3>2, <3>3 DEF Clean, Trigs
      <4>2. There("recreate")
        BY <3>9, <2>1, <3>2, <3>3 DEF Clean, There
      <4>3. Filled("recreate")
        BY <3>9, <2>1, <3>2, <3>3 DEF Clean, Filled
      <4> QED BY <4>1, <4>2, <4>3
    <3> QED BY <1>c, <2>1, <3>9
  <2> QED BY <2>2, <2>3
<1>5. CASE ~Fails(p) /\ Recreate(p)
  <2>1. /\ Moves(p, "copy") /\ opening[p].pc = "recreate" /\ CreateIfMissing
        /\ UNCHANGED <<legacy, fts, torn>>
    BY <1>5, LoudMoves DEF Recreate, At, historyVars
  <2>2. Counted => Counted' BY <2>1 DEF CreateIfMissing
  <2>3. /\ From("recreate") /\ ~From("copy") /\ ~From("untable") /\ ~From("table")
        /\ ~From("triggers") /\ ~From("fill") /\ ~From("version")
    BY <2>1, <1>f
  <2>4. Unhurt' = Unhurt BY <2>1
  <2> HIDE DEF Counted, Unhurt
  <2>9. ASSUME Clean("copy") PROVE Trigs("copy") /\ There("copy") /\ Filled("copy")
    <3>1. Trigs("copy")
      BY <1>b, <2>9, <2>1, <2>2, <2>3, <2>4 DEF Clean, Trigs
    <3>2. There("copy")
      BY <1>b, <2>9, <2>1, <2>2, <2>3, <2>4 DEF Clean, There
    <3>3. Filled("copy")
      BY <1>b, <2>9, <2>1, <2>2, <2>3, <2>4 DEF Clean, Filled
    <3> QED BY <3>1, <3>2, <3>3
  <2> QED BY <1>c, <2>1, <2>9
<1>6. CASE ~Fails(p) /\ Copy(p)
  <2>1. /\ Moves(p, "drop") /\ opening[p].pc = "copy" /\ Copyable /\ CopyRows
        /\ UNCHANGED <<legacy, torn>>
    BY <1>6, LoudMoves DEF Copy, At, historyVars
  <2>2. /\ exps'.rows = exps.rows \cup legacy.rows /\ exps'.rows \subseteq Row
        /\ fts'.current = fts.current /\ fts'.there = fts.there /\ fts'.triggers = fts.triggers
        /\ \A r \in Row : fts'.count[r] = IF fts.triggers /\ r \in legacy.rows
                                          THEN fts.count[r] + 1 ELSE fts.count[r]
    BY <2>1, <1>a DEF CopyRows, Table, SearchState
  <2>3. \A r \in Row : fts.count[r] \in Nat BY <1>a DEF SearchState
  <2>4. fts.triggers /\ Counted => Counted' BY <2>2, <2>3
  <2>5. /\ ~From("recreate") /\ From("copy") /\ ~From("untable") /\ ~From("table")
        /\ ~From("triggers") /\ ~From("fill") /\ ~From("version")
    BY <2>1, <1>f
  <2>6. Unhurt' = Unhurt /\ Required \notin legacy.cols BY <2>1 DEF Copyable
  <2> HIDE DEF Counted, Unhurt
  <2>9. ASSUME Clean("drop") PROVE Trigs("drop") /\ There("drop") /\ Filled("drop")
    <3>1. Trigs("drop")
      BY <1>b, <2>9, <2>1, <2>2, <2>4, <2>5, <2>6 DEF Clean, Trigs
    <3>2. There("drop")
      BY <1>b, <2>9, <2>1, <2>2, <2>4, <2>5, <2>6 DEF Clean, There
    <3>3. Filled("drop")
      BY <1>b, <2>9, <2>1, <2>2, <2>4, <2>5, <2>6 DEF Clean, Filled
    <3> QED BY <3>1, <3>2, <3>3
  <2> QED BY <1>c, <2>1, <2>9
<1>7. CASE ~Fails(p) /\ Drop(p)
  <2>1. /\ Moves(p, "govern") /\ opening[p].pc = "drop" /\ UNCHANGED <<exps, fts, torn>>
    BY <1>7, LoudMoves DEF Drop, At, historyVars
  <2>2. ~Beside BY <2>1 DEF RebuildInv, Rebuilding, Other
  <2> QED BY <1>d, <2>1, <2>2
<1>8. CASE ~Fails(p) /\ Alter(p)
  <2>1. /\ opening[p].pc = "alter" /\ Moves(p, "alter")
        /\ UNCHANGED <<legacy, fts, torn>>
        /\ \E c \in AllColumns : exps' = [exps EXCEPT !.cols = @ \cup {c}]
    BY <1>8, AlterDone DEF At, historyVars
  <2>2. exps'.rows = exps.rows BY <2>1, <1>a DEF Table
  <2> QED BY <1>d, <2>1, <2>2
<1>9. CASE ~Fails(p) /\ Backfill(p)
  <2>1. /\ opening[p].pc = "alter" /\ Moves(p, "canonical") /\ UNCHANGED <<exps, legacy, torn>>
        /\ MarkReviewed \/ fts' = fts
    BY <1>9, BackfillDone DEF At, historyVars
  <2>2. exps.rows \subseteq Row BY <1>a DEF Table
  <2>3. MarkReviewed =>
          /\ fts'.current = fts.current /\ fts'.there = fts.there /\ fts'.triggers = fts.triggers
          /\ \A r \in Row : fts'.count[r] = IF fts.triggers /\ r \in exps.rows
                                            THEN 1 ELSE fts.count[r]
    BY <1>a DEF MarkReviewed, SearchState
  <2>6. fts' = fts => Counted' = Counted BY <2>1
  <2>7. MarkReviewed /\ fts.triggers => Counted' BY <2>1, <2>2, <2>3
  <2> HIDE DEF Counted
  <2>4. fts.triggers /\ Counted => Counted' BY <2>1, <2>6, <2>7
  <2>5. /\ fts'.current = fts.current /\ fts'.there = fts.there /\ fts'.triggers = fts.triggers
    BY <2>1, <2>3
  <2> QED BY <1>d, <2>1, <2>4, <2>5
<1>10. CASE \E r \in Later : Record(p, r)
  <2>1. PICK r \in Later : Record(p, r) BY <1>10
  <2>2. /\ exps' = [exps EXCEPT !.rows = @ \cup {r}] /\ opening' = opening
        /\ opening[p].pc = "ready" /\ UNCHANGED <<legacy, torn>>
        /\ fts' = IF fts.triggers THEN [fts EXCEPT !.count[r] = @ + 1] ELSE fts
    BY <2>1 DEF Record, At, historyVars
  <2>3. r \in Row /\ exps'.rows = exps.rows \cup {r} /\ exps.rows \subseteq Row
    BY <2>2, <1>a DEF Table, Row
  <2>4. /\ fts'.current = fts.current /\ fts'.there = fts.there /\ fts'.triggers = fts.triggers
        /\ fts.triggers => \A x \in Row : fts'.count[x] = IF x = r THEN fts.count[r] + 1
                                                          ELSE fts.count[x]
    BY <2>2, <2>3, <1>a DEF SearchState
  <2>5. \A x \in Row : fts.count[x] \in Nat BY <1>a DEF SearchState
  <2>6. fts.triggers /\ Counted => Counted' BY <2>3, <2>4, <2>5
  <2>7. Moves(p, "ready") BY <2>2 DEF Moves, MigrationTypeOK
  <2> QED BY <1>d, <2>2, <2>4, <2>6, <2>7
<1>e. \A b \in BOOLEAN :
        /\ [fts EXCEPT !.triggers = b].triggers = b /\ [fts EXCEPT !.triggers = b].there = fts.there
        /\ [fts EXCEPT !.triggers = b].current = fts.current
        /\ [fts EXCEPT !.there = b].triggers = fts.triggers /\ [fts EXCEPT !.there = b].there = b
        /\ [fts EXCEPT !.there = b].current = fts.current
  BY <1>a DEF SearchState
<1>g. UNCHANGED <<legacy, torn>> => Unhurt' = Unhurt /\ legacy'.cols = legacy.cols OBVIOUS
<1>11. CASE ~Fails(p) /\ DropTriggers(p)
  <2>1. /\ Moves(p, "untable") /\ opening[p].pc = "clear" /\ UNCHANGED <<exps, legacy, torn>>
        /\ fts' = [fts EXCEPT !.triggers = FALSE]
    BY <1>11, LoudMoves DEF DropTriggers, SearchKept, At, tableVars, historyVars
  <2>2. /\ ~From("recreate") /\ ~From("copy") /\ ~From("untable") /\ ~From("table")
        /\ ~From("triggers") /\ ~From("fill") /\ ~From("version")
    BY <2>1, <1>f
  <2>3. fts'.current = fts.current /\ fts'.there = fts.there BY <2>1, <1>e
  <2> HIDE DEF Counted, Unhurt
  <2>9. ASSUME Clean("untable") PROVE Trigs("untable") /\ There("untable") /\ Filled("untable")
    <3>1. Trigs("untable")
      BY <1>b, <2>9, <1>g, <2>1, <2>2, <2>3 DEF Clean, Trigs
    <3>2. There("untable")
      BY <1>b, <2>9, <1>g, <2>1, <2>2, <2>3 DEF Clean, There
    <3>3. Filled("untable")
      BY <1>b, <2>9, <1>g, <2>1, <2>2, <2>3 DEF Clean, Filled
    <3> QED BY <3>1, <3>2, <3>3
  <2> QED BY <1>c, <2>1, <2>9
<1>12. CASE ~Fails(p) /\ DropSearch(p)
  <2>1. /\ Moves(p, "table") /\ opening[p].pc = "untable" /\ UNCHANGED <<exps, legacy, torn>>
        /\ fts' = [fts EXCEPT !.there = FALSE, !.count = Unindexed]
    BY <1>12, LoudMoves DEF DropSearch, SearchKept, At, tableVars, historyVars
  <2>2. ~From("recreate") /\ ~From("copy") BY <2>1, <1>f
  <2> HIDE DEF Counted, Unhurt
  <2>9. ASSUME Clean("table") PROVE Trigs("table") /\ There("table") /\ Filled("table")
    <3>1. Trigs("table")
      BY <1>b, <2>9, <1>g, <2>1, <2>2 DEF Clean, Trigs
    <3>2. There("table")
      BY <1>b, <2>9, <1>g, <2>1, <2>2 DEF Clean, There
    <3>3. Filled("table")
      BY <1>b, <2>9, <1>g, <2>1, <2>2 DEF Clean, Filled
    <3> QED BY <3>1, <3>2, <3>3
  <2> QED BY <1>c, <2>1, <2>9
<1>13. CASE ~Fails(p) /\ CreateSearch(p)
  <2>1. /\ Moves(p, "triggers") /\ opening[p].pc = "table" /\ UNCHANGED <<exps, legacy, torn>>
        /\ fts' = [fts EXCEPT !.there = TRUE]
    BY <1>13, LoudMoves DEF CreateSearch, SearchKept, At, tableVars, historyVars
  <2>2. ~From("recreate") /\ ~From("copy") BY <2>1, <1>f
  <2>3. fts'.there BY <2>1, <1>e
  <2> HIDE DEF Counted, Unhurt
  <2>9. ASSUME Clean("triggers") PROVE Trigs("triggers") /\ There("triggers") /\ Filled("triggers")
    <3>1. Trigs("triggers")
      BY <1>b, <2>9, <1>g, <2>1, <2>2, <2>3 DEF Clean, Trigs
    <3>2. There("triggers")
      BY <1>b, <2>9, <1>g, <2>1, <2>2, <2>3 DEF Clean, There
    <3>3. Filled("triggers")
      BY <1>b, <2>9, <1>g, <2>1, <2>2, <2>3 DEF Clean, Filled
    <3> QED BY <3>1, <3>2, <3>3
  <2> QED BY <1>c, <2>1, <2>9
<1>14. CASE ~Fails(p) /\ CreateTriggers(p)
  <2>1. /\ Moves(p, "fill") /\ opening[p].pc = "triggers" /\ UNCHANGED <<exps, legacy, torn>>
        /\ fts' = [fts EXCEPT !.triggers = TRUE]
    BY <1>14, LoudMoves DEF CreateTriggers, SearchKept, At, tableVars, historyVars
  <2>2. ~From("recreate") /\ ~From("copy") /\ ~From("table") /\ From("triggers") BY <2>1, <1>f
  <2>3. fts'.triggers /\ fts'.there = fts.there BY <2>1, <1>e
  <2> HIDE DEF Counted, Unhurt
  <2>9. ASSUME Clean("fill") PROVE Trigs("fill") /\ There("fill") /\ Filled("fill")
    <3>1. Trigs("fill")
      BY <1>b, <2>9, <1>g, <2>1, <2>2, <2>3 DEF Clean, Trigs
    <3>2. There("fill")
      BY <1>b, <2>9, <1>g, <2>1, <2>2, <2>3 DEF Clean, There
    <3>3. Filled("fill")
      BY <1>b, <2>9, <1>g, <2>1, <2>2, <2>3 DEF Clean, Filled
    <3> QED BY <3>1, <3>2, <3>3
  <2> QED BY <1>c, <2>1, <2>9
<1>15. CASE ~Fails(p) /\ FillSearch(p)
  <2>1. /\ Moves(p, "version") /\ opening[p].pc = "fill" /\ UNCHANGED <<exps, legacy, torn>>
        /\ fts' = [fts EXCEPT !.count = [r \in Row |-> IF r \in exps.rows THEN @[r] + 1 ELSE @[r]]]
    BY <1>15, LoudMoves DEF FillSearch, SearchKept, At, tableVars, historyVars
  <2>2. /\ ~From("recreate") /\ ~From("copy") /\ ~From("untable") /\ ~From("table")
        /\ ~From("triggers") /\ From("fill") /\ ~From("version")
    BY <2>1, <1>f
  <2>3. /\ fts'.current = fts.current /\ fts'.there = fts.there /\ fts'.triggers = fts.triggers
        /\ \A r \in Row : fts'.count[r] = IF r \in exps.rows THEN fts.count[r] + 1
                                          ELSE fts.count[r]
    BY <2>1, <1>a DEF SearchState
  <2>4. \A r \in Row : fts.count[r] \in Nat BY <1>a DEF SearchState
  <2>5. Counted' BY <2>1, <2>3, <2>4, <1>a DEF Table
  <2> HIDE DEF Counted, Unhurt
  <2>9. ASSUME Clean("version") PROVE Trigs("version") /\ There("version") /\ Filled("version")
    <3>1. Trigs("version")
      BY <1>b, <2>9, <1>g, <2>1, <2>2, <2>3, <2>5 DEF Clean, Trigs
    <3>2. There("version")
      BY <1>b, <2>9, <1>g, <2>1, <2>2, <2>3, <2>5 DEF Clean, There
    <3>3. Filled("version")
      BY <1>b, <2>9, <1>g, <2>1, <2>2, <2>3, <2>5 DEF Clean, Filled
    <3> QED BY <3>1, <3>2, <3>3
  <2> QED BY <1>c, <2>1, <2>9
<1>16. CASE ~Fails(p) /\ SetVersion(p)
  <2>1. /\ Moves(p, "ready") /\ opening[p].pc = "version" /\ UNCHANGED <<exps, legacy, torn>>
        /\ fts' = [fts EXCEPT !.current = TRUE]
    BY <1>16, LoudMoves DEF SetVersion, SearchKept, At, tableVars, historyVars
  <2>2. /\ ~From("recreate") /\ ~From("copy") /\ ~From("untable") /\ ~From("table")
        /\ ~From("triggers") /\ ~From("fill") /\ From("version")
    BY <2>1, <1>f
  <2>3. fts'.count = fts.count /\ fts'.there = fts.there /\ fts'.triggers = fts.triggers
    BY <2>1, <1>a DEF SearchState
  <2>4. Counted' = Counted BY <2>1, <2>3
  <2> HIDE DEF Counted, Unhurt
  <2>9. ASSUME Clean("ready") PROVE Trigs("ready") /\ There("ready") /\ Filled("ready")
    <3>1. Trigs("ready")
      BY <1>b, <2>9, <1>g, <2>1, <2>2, <2>3, <2>4 DEF Clean, Trigs
    <3>2. There("ready")
      BY <1>b, <2>9, <1>g, <2>1, <2>2, <2>3, <2>4 DEF Clean, There
    <3>3. Filled("ready")
      BY <1>b, <2>9, <1>g, <2>1, <2>2, <2>3, <2>4 DEF Clean, Filled
    <3> QED BY <3>1, <3>2, <3>3
  <2> QED BY <1>c, <2>1, <2>9
<1> QED BY <1>0, <1>1, <1>2, <1>3, <1>4, <1>5, <1>6, <1>7, <1>8, <1>9, <1>10, <1>11, <1>12,
           <1>13, <1>14, <1>15, <1>16, OpeningCases

-----------------------------------------------------------------------------
(* What the first process finds.                                           *)
LEMMA MigrationStarts == MigrationInit => MigInv
<1> SUFFICES ASSUME MigrationInit PROVE MigInv OBVIOUS
<1>1. \A p \in Opener : opening[p].pc = "off" /\ opening[p].added = FALSE
  BY DEF MigrationInit, Closed
<1>2. \A S : "off" \notin S => ~IsAt(S) BY <1>1 DEF IsAt
<1>3. /\ ColumnsOf("none") = {} /\ ColumnsOf("bare") = {"id"}
      /\ ColumnsOf("ungoverned") = {"id", Required}
      /\ ColumnsOf("unmapped") = AllColumns /\ ColumnsOf("mapped") = AllColumns
  BY DEF ColumnsOf
<1>4. release \in {"none", "bare", "ungoverned", "unmapped", "mapped"} BY DEF MigrationInit
<1>5. "id" \in AllColumns /\ Required \in AllColumns BY DEF AllColumns
<1>6. ColumnsOf(release) \in SUBSET AllColumns BY <1>3, <1>4, <1>5
<1>7. MigrationTypeOK
  <2>1. exps \in Table /\ legacy \in Table
    BY <1>6 DEF MigrationInit, Table, NoTable, Row
  <2>2. reviewed \in [Row -> BOOLEAN] BY DEF MigrationInit
  <2>3. project \in [Row -> OldId \cup {Canonical}] BY DEF MigrationInit
  <2>4. remapped \in BOOLEAN BY DEF MigrationInit
  <2>5. aliases \in {"none", "legacy", "modern"}
    <3>1. aliases \in {"legacy"} \/ aliases \in {"none", "legacy"} \/ aliases \in {"none"}
      BY DEF MigrationInit
    <3> QED BY <3>1
  <2>6. {index, ignored, hidden} \subseteq SUBSET (OldId \cup {Canonical})
    <3>1. index \in {{Canonical}} \/ index \in {{}} \/ index \in {{}, OldId}
      BY DEF MigrationInit
    <3>2. ignored \in {{}, index} /\ hidden = index BY DEF MigrationInit
    <3>3. index \subseteq OldId \cup {Canonical} BY <3>1
    <3> QED BY <3>2, <3>3
  <2>7. backup \subseteq Row \X OldId
    <3>1. {<<r, FiledUnder[r]>> : r \in Found} \subseteq Row \X OldId BY DEF Row
    <3>2. backup = {<<r, FiledUnder[r]>> : r \in Found} \/ backup = {} BY DEF MigrationInit
    <3> QED BY <3>1, <3>2
  <2>8. fts \in SearchState
    <3>1. Unindexed \in [Row -> Nat] BY DEF Unindexed
    <3> QED BY <3>1 DEF MigrationInit, SearchState
  <2>9. opening \in [Opener -> OpenerState]
    <3>1. Closed \in OpenerState BY DEF Closed, OpenerState, OpenerPlace
    <3> QED BY <3>1 DEF MigrationInit
  <2>10. deaths \in 0..MaxDeaths /\ torn \subseteq {"copy", "review", "search"}
    BY DEF MigrationInit
  <2> QED BY <2>1, <2>2, <2>3, <2>4, <2>5, <2>6, <2>7, <2>8, <2>9, <2>10 DEF MigrationTypeOK
<1>8. /\ exps.cols = ColumnsOf(release) /\ legacy = NoTable
      /\ exps.rows = Before
  BY DEF MigrationInit, Before
<1>9. TablesInv
  <2>1. ~ThereIs(exps) => release = "none" BY <1>3, <1>4, <1>5, <1>8 DEF ThereIs
  <2>2. release = "none" => exps = NoTable BY <1>3 DEF MigrationInit, NoTable
  <2> QED BY <1>8, <2>1, <2>2 DEF TablesInv
<1>10. RebuildInv
  BY <1>1, <1>2, <1>8 DEF RebuildInv, Rebuilding, NoTable
<1>11. Reversible BY DEF Reversible, MigrationInit, Before, Row
<1>12. ReviewInv
  <2>1. release # "bare" /\ ThereIs(exps) => Required \in exps.cols
    BY <1>3, <1>4, <1>5, <1>8 DEF ThereIs
  <2>2. "reviewed" \in exps.cols => release \in {"unmapped", "mapped"}
    BY <1>3, <1>4, <1>8 DEF Required
  <2>3. release \in {"unmapped", "mapped"} => \A r \in Before : reviewed[r]
    BY DEF MigrationInit, Before, Row
  <2>4. ~IsAt({"rename"} \cup Rebuilding) /\ ~IsAt({"columns"}) BY <1>2 DEF Rebuilding
  <2> QED BY <1>1, <2>1, <2>2, <2>3, <2>4 DEF ReviewInv
<1>13. SearchInv
  <2>1. ~fts.current BY DEF MigrationInit
  <2>2. /\ ~IsAt({"fill", "version"}) /\ ~IsAt({"triggers", "fill", "version"})
        /\ ~IsAt({"version"})
    BY <1>2
  <2>3. \A p \in Opener : opening[p].pc \in Early BY <1>1 DEF Early
  <2> QED BY <2>1, <2>2, <2>3 DEF SearchInv
<1> QED BY <1>7, <1>9, <1>10, <1>11, <1>12, <1>13 DEF MigInv

(* The invariant gives what the upgrade keeps.                             *)
LEMMA MigInvKeeps == MigInv => UpgradeKeeps
<1> SUFFICES ASSUME MigInv PROVE UpgradeKeeps OBVIOUS
<1>1. ASSUME AtRest, NEW S, {"off", "ready"} \cap S = {} PROVE ~IsAt(S)
  BY <1>1 DEF AtRest, IsAt
<1>2. AtRest => ~IsAt({"recreate", "copy"}) BY <1>1
<1>3. NoRowLost BY <1>2 DEF NoRowLost, MigInv, RebuildInv
<1>4. FoundReviewed
  <2>1. AtRest => \A p \in Opener : ~opening[p].added
    BY DEF AtRest, At, MigInv, ReviewInv
  <2> QED BY <2>1 DEF FoundReviewed, MigInv, ReviewInv
<1>5. SearchComplete
  <2>1. AtRest => ~IsAt(Making) BY <1>1 DEF Making
  <2>2. AtRest => ~Stale BY <1>2 DEF Stale
  <2> QED BY <2>1, <2>2 DEF SearchComplete, MigInv, SearchInv
<1> QED BY <1>3, <1>4, <1>5 DEF UpgradeKeeps, MigInv

(* Whatever release the database is of, however many processes bring it up  *)
(* to date at once and wherever they fail or die: no row of before is lost, *)
(* a new project id can be taken back, the rows found are marked reviewed   *)
(* and a search index called current has every experience (migrate_schema). *)
THEOREM UpgradeLosesNothing == MigrationSpec => [](MigrationTypeOK /\ UpgradeKeeps)
<1>1. MigInv /\ [MigrationNext]_migrationVars => MigInv'
  <2> SUFFICES ASSUME MigInv, [MigrationNext]_migrationVars PROVE MigInv' OBVIOUS
  <2>1. CASE MigrationNext
    BY <2>1, MigrationTyped, RebuildStep, ReversibleStep, ReviewStep, SearchStep DEF MigInv
  <2>2. CASE UNCHANGED migrationVars
    <3> USE <2>2 DEF migrationVars, tableVars, identityVars, historyVars
    <3>1. MigrationTypeOK' BY DEF MigInv, MigrationTypeOK
    <3>2. TablesInv' /\ RebuildInv' BY DEF MigInv, TablesInv, RebuildInv, ThereIs, IsAt, Before
    <3>3. Reversible' BY DEF MigInv, Reversible, Before
    <3>4. ReviewInv' BY DEF MigInv, ReviewInv, IsAt, At, ThereIs, Before
    <3>5. SearchInv' BY DEF MigInv, SearchInv, Bare, Stale, IsAt, ThereIs
    <3> QED BY <3>1, <3>2, <3>3, <3>4, <3>5 DEF MigInv
  <2> QED BY <2>1, <2>2
<1>2. MigInv => MigrationTypeOK /\ UpgradeKeeps BY MigInvKeeps DEF MigInv
<1>3. MigrationSpec => MigrationInit /\ [][MigrationNext]_migrationVars
  BY DEF MigrationSpec, MigrationSafety
<1> QED BY <1>1, <1>2, <1>3, MigrationStarts, PTL

-----------------------------------------------------------------------------
(* The index queue and the scan queue.                                     *)

HIDE MigrationConstants
USE HealthScanConstants, IndexQueueConstants

ScannerPlace == {"look", "park", "asleep", "start", "begin", "page", "insert", "guard", "finish"}
AskerPlace == {"idle", "begin", "indexing", "saving", "done", "failed", "cancelled", "ask",
               "resolving", "asked"}
LoopPlace == {"look", "park", "asleep", "permit", "start"}

ScanState == [phase : ScanPhase, repo : Repo, cancel : BOOLEAN]
ScannerState == [pc : ScannerPlace, job : Scan, counted : SUBSET Page]
Rows == [Page -> Nat]
GraphState == [by : {"none", "index", "scan"}, rows : Rows]
JobState == [phase : Phase, cancel : BOOLEAN]
LoopState == [pc : LoopPlace, job : Job]

ScanTypes ==
  /\ scan \in [Scan -> ScanState]
  /\ scanList \in Seq(Scan) /\ Len(scanList) <= MaxScanJobs /\ scanWake \in BOOLEAN
  /\ scanner \in ScannerState
  /\ live \in [Repo -> GraphState] /\ staging \in [Repo -> Rows]
AskerTypes == asker \in [Asker -> AskerPlace]
QueueTypes ==
  /\ job \in [Job -> JobState]
  /\ jobList \in Seq(Job) /\ Len(jobList) <= MaxJobs /\ wake \in BOOLEAN
  /\ loop \in LoopState
  /\ permits \in Nat

(* The scan the loop has at hand was asked for, and while it is copied the *)
(* staging rows of its project are the pages it counted, once each.        *)
AtHand == scanner.pc \notin {"look", "park", "asleep"} => scan[scanner.job].phase # "none"
CopiedOnce == scanner.pc \in {"page", "insert", "guard"} =>
  \A p \in Page : staging[Scanned][p] <= IF p \in scanner.counted THEN 1 ELSE 0
ScanInv == ScanTypes /\ AtHand /\ CopiedOnce /\ NoLeftovers

(* A job that waits to be started has no runner.                           *)
NotStarted == \A j \in Job : job[j].phase \in {"none", "queued"} => AskerAt(j, "idle")
QueueInv == QueueTypes /\ NotStarted /\ PermitsAccounted

-----------------------------------------------------------------------------
(* Lists.                                                                  *)

(* A list drained to its newest entries.                                   *)
LEMMA NewestIs ==
  ASSUME NEW T, NEW seq \in Seq(T), NEW n \in Nat \ {0}
  PROVE  Newest(seq, n) \in Seq(T) /\ Len(Newest(seq, n)) <= n
<1>1. CASE Len(seq) > n BY <1>1 DEF Newest
<1>2. CASE ~(Len(seq) > n) BY <1>2 DEF Newest
<1> QED BY <1>1, <1>2

(* The members of a finite set, in some order.                             *)
LEMMA SetToSeqIs ==
  ASSUME NEW S, IsFiniteSet(S)
  PROVE  SetToSeq(S) \in Seq(S)
<1>1. Cardinality(S) \in Nat /\ ExistsBijection(1..Cardinality(S), S)
  BY FS_NatBijection, FS_CountingElements, FS_CardinalityType
<1>2. \E f \in [1..Cardinality(S) -> S] : IsInjective(f)
  BY <1>1 DEF ExistsBijection, Bijection, Injection, IsInjective
<1>3. SetToSeq(S) \in [1..Cardinality(S) -> S]
  BY <1>2 DEF SetToSeq
<1> QED BY <1>1, <1>3

-----------------------------------------------------------------------------
(* The scan queue.                                                         *)

LEMMA PushKeepsScanInv ==
  ASSUME ScanInv, NEW a \in Asker, PushScan(a)
  PROVE  ScanInv'
<1> USE DEF ScanInv, ScanTypes
<1> DEFINE s == CHOOSE u \in NewScans : TRUE
           list == Newest(Append(scanList, s), MaxScanJobs)
<1>1. s \in Scan /\ scan[s].phase = "none" BY DEF PushScan, NewScans
<1>2. list \in Seq(Scan) /\ Len(list) <= MaxScanJobs
  <2>1. Append(scanList, s) \in Seq(Scan) BY <1>1
  <2> QED BY <2>1, NewestIs
<1>3. /\ scan' \in [Scan -> ScanState] /\ scan'[s].phase # "none"
      /\ \A u \in Scan \ {s} : /\ scan'[u].repo = scan[u].repo
                               /\ scan'[u].phase \in {scan[u].phase, "dropped"}
  <2> DEFINE aged == [u \in Scan |-> IF u \in ToSet(scanList) \ ToSet(list)
                        THEN [scan[u] EXCEPT !.phase = "dropped"] ELSE scan[u]]
             new == [phase |-> "queued", repo |-> RepoOf[a], cancel |-> FALSE]
  <2>1. new \in ScanState /\ new.phase = "queued" BY DEF ScanState, ScanPhase
  <2>2. \A u \in Scan : /\ aged[u] \in ScanState /\ aged[u].repo = scan[u].repo
                        /\ aged[u].phase \in {scan[u].phase, "dropped"}
    <3> SUFFICES ASSUME NEW u \in Scan
                 PROVE  /\ aged[u] \in ScanState /\ aged[u].repo = scan[u].repo
                        /\ aged[u].phase \in {scan[u].phase, "dropped"}
      OBVIOUS
    <3>1. scan[u] \in ScanState OBVIOUS
    <3>2. /\ [scan[u] EXCEPT !.phase = "dropped"] \in ScanState
          /\ [scan[u] EXCEPT !.phase = "dropped"].repo = scan[u].repo
          /\ [scan[u] EXCEPT !.phase = "dropped"].phase = "dropped"
      BY <3>1 DEF ScanState, ScanPhase
    <3> QED BY <3>1, <3>2
  <2>3. scan' = [aged EXCEPT ![s] = new] BY DEF PushScan
  <2> QED BY <1>1, <2>1, <2>2, <2>3
<1>a. WakeScanner BY DEF PushScan
<1>4. /\ scanner' \in ScannerState
      /\ scanner'.job = scanner.job /\ scanner'.counted = scanner.counted
      /\ scanner'.pc = scanner.pc \/ (scanner.pc = "asleep" /\ scanner'.pc = "look")
  <2>1. CASE ScannerAt("asleep") /\ ScannerGoto("look")
    BY <2>1 DEF ScannerAt, ScannerGoto, ScannerState, ScannerPlace
  <2>2. CASE UNCHANGED scanner
    BY <2>2
  <2> QED BY <1>a, <2>1, <2>2 DEF WakeScanner
<1>b. scanWake' \in BOOLEAN BY <1>a, Zenon DEF WakeScanner
<1>5. scanList' = list /\ UNCHANGED <<live, staging>> BY DEF PushScan
<1>6. ScanTypes' BY <1>2, <1>3, <1>4, <1>5, <1>b
<1>7. scanner.pc \in {"page", "insert", "guard"} => scanner.job # s
  BY <1>1 DEF AtHand
<1>8. scanner.job \in Scan BY DEF ScannerState
<1>9. AtHand' BY <1>3, <1>4, <1>8 DEF AtHand
<1>10. CopiedOnce' BY <1>3, <1>4, <1>5, <1>7, <1>8 DEF CopiedOnce, Scanned
<1>11. NoLeftovers' BY <1>5 DEF NoLeftovers
<1> QED BY <1>6, <1>9, <1>10, <1>11

(* The steps of the health scan keep its invariant. *)
LEMMA ScannerKeepsScanInv ==
  ASSUME ScanInv, ScannerStep
  PROVE  ScanInv' /\ UNCHANGED asker
<1> USE DEF ScanInv, ScanTypes
<1>a. /\ scanner.job \in Scan /\ scan[scanner.job] \in ScanState /\ Scanned \in Repo
      /\ staging[Scanned] \in Rows
  <2>1. scanner.job \in Scan /\ scan[scanner.job] \in ScanState BY DEF ScannerState
  <2> QED BY <2>1 DEF Scanned, ScanState
<1>b. Blank \in Rows /\ \A p \in Page : Blank[p] = 0 BY DEF Blank, Rows
<1>1. CASE LookForScan
  <2>1. PICK l \in {"park", "start"}, s \in Scan :
          /\ scanner' = [scanner EXCEPT !.pc = l, !.job = s]
          /\ l = "start" => scan[s].phase = "queued"
    <3>1. CASE Waiting = << >>
      <4>1. scanner' = [scanner EXCEPT !.pc = "park", !.job = scanner.job]
        BY <1>1, <3>1 DEF LookForScan, ScannerGoto, ScannerState
      <4> QED BY <1>a, <4>1
    <3>2. CASE Waiting # << >>
      <4>1. Head(Waiting) \in Elements(Waiting)
        <5>1. Waiting \in Seq(Scan) BY KeptLeaves DEF Waiting
        <5> QED BY <3>2, <5>1 DEF Elements
      <4>2. Head(Waiting) \in {s \in Scan : scan[s].phase = "queued"}
        BY <4>1, KeptLeaves DEF Waiting
      <4> QED BY <1>1, <3>2, <4>2 DEF LookForScan
    <3> QED BY <3>1, <3>2
  <2>2. UNCHANGED <<scan, scanList, scanWake, asker, live, staging>>
    BY <1>1 DEF LookForScan
  <2>3. ScanTypes' BY <2>1, <2>2 DEF ScannerState, ScannerPlace
  <2>4. AtHand' /\ CopiedOnce' BY <2>1, <2>2 DEF ScannerState, AtHand, CopiedOnce
  <2> QED BY <2>2, <2>3, <2>4 DEF NoLeftovers
<1>2. CASE ParkScanner
  <2>1. ScanTypes'
    BY <1>a, <1>b, <1>2
       DEF ParkScanner, ScannerAt, ScannerGoto, ScannerRests, Resting, ScannerEnds,
       ClearStaging, ScannerState, ScannerPlace, ScanState, ScanPhase, Rows, GraphState
  <2>2. AtHand' /\ CopiedOnce' /\ NoLeftovers' /\ UNCHANGED asker
    BY <1>a, <1>b, <1>2
       DEF ParkScanner, ScannerAt, ScannerGoto, ScannerRests, Resting, ScannerEnds,
       ClearStaging, ScannerState, AtHand, CopiedOnce, Scanned, NoLeftovers, ScanState,
       CountsMatch, Rows, GraphState
  <2> QED BY <2>1, <2>2
<1>3. CASE StartScan
  <2>1. UNCHANGED <<scanList, scanWake, asker, live, staging>>
    BY <1>3 DEF StartScan
  <2>2. CASE /\ scan' = [scan EXCEPT ![scanner.job] = [scan[scanner.job] EXCEPT !.phase = "scanning"]]
             /\ scanner' = [scanner EXCEPT !.pc = "begin"]
    <3>1. [scan[scanner.job] EXCEPT !.phase = "scanning"] \in ScanState
      BY <1>a DEF ScanState, ScanPhase
    <3>2. ScanTypes' BY <2>1, <2>2, <3>1 DEF ScannerState, ScannerPlace
    <3>3. scan'[scanner.job].phase = "scanning" BY <1>a, <2>2 DEF ScanState
    <3>4. AtHand' /\ CopiedOnce' BY <2>2, <3>3 DEF ScannerState, AtHand, CopiedOnce
    <3> QED BY <2>1, <3>2, <3>4 DEF NoLeftovers
  <2>3. CASE UNCHANGED scan /\ scanner' = Resting("look")
    <3>1. ScanTypes' BY <2>1, <2>3 DEF Resting, ScannerState, ScannerPlace
    <3>2. AtHand' /\ CopiedOnce' BY <2>3 DEF Resting, AtHand, CopiedOnce
    <3> QED BY <2>1, <3>1, <3>2 DEF NoLeftovers
  <2> QED BY <1>3, <2>1, <2>2, <2>3 DEF StartScan, ScannerGoto, ScannerRests
<1>4. CASE FinishScan
  <2>1. ScanTypes'
    BY <1>a, <1>b, <1>4
       DEF FinishScan, ScannerAt, ScannerGoto, ScannerRests, Resting, ScannerEnds,
       ClearStaging, ScannerState, ScannerPlace, ScanState, ScanPhase, Rows, GraphState
  <2>2. AtHand' /\ CopiedOnce' /\ NoLeftovers' /\ UNCHANGED asker
    BY <1>a, <1>b, <1>4
       DEF FinishScan, ScannerAt, ScannerGoto, ScannerRests, Resting, ScannerEnds,
       ClearStaging, ScannerState, AtHand, CopiedOnce, Scanned, NoLeftovers, ScanState,
       CountsMatch, Rows, GraphState
  <2> QED BY <2>1, <2>2
<1>5. CASE BeginScan
  <2>1. ScanTypes'
    BY <1>a, <1>b, <1>5
       DEF BeginScan, ScannerAt, ScannerGoto, ScannerRests, Resting, ScannerEnds, ClearStaging,
       ScannerState, ScannerPlace, ScanState, ScanPhase, Rows, GraphState
  <2>2. AtHand' /\ CopiedOnce' /\ NoLeftovers' /\ UNCHANGED asker
    BY <1>a, <1>b, <1>5
       DEF BeginScan, ScannerAt, ScannerGoto, ScannerRests, Resting, ScannerEnds, ClearStaging,
       ScannerState, AtHand, CopiedOnce, Scanned, NoLeftovers, ScanState, CountsMatch, Rows,
       GraphState
  <2> QED BY <2>1, <2>2
<1>6. CASE ScanFails
  <2>1. ScanTypes'
    BY <1>a, <1>b, <1>6
       DEF ScanFails, ScannerAt, ScannerGoto, ScannerRests, Resting, ScannerEnds, ClearStaging,
       ScannerState, ScannerPlace, ScanState, ScanPhase, Rows, GraphState
  <2>2. AtHand' /\ CopiedOnce' /\ NoLeftovers' /\ UNCHANGED asker
    BY <1>a, <1>b, <1>6
       DEF ScanFails, ScannerAt, ScannerGoto, ScannerRests, Resting, ScannerEnds, ClearStaging,
       ScannerState, AtHand, CopiedOnce, Scanned, NoLeftovers, ScanState, CountsMatch, Rows,
       GraphState
  <2> QED BY <2>1, <2>2
<1>7. CASE AbortScan
  <2>1. ScanTypes'
    BY <1>a, <1>b, <1>7
       DEF AbortScan, ScannerAt, ScannerGoto, ScannerRests, Resting, ScannerEnds, ClearStaging,
       ScannerState, ScannerPlace, ScanState, ScanPhase, Rows, GraphState
  <2>2. AtHand' /\ CopiedOnce' /\ NoLeftovers' /\ UNCHANGED asker
    BY <1>a, <1>b, <1>7
       DEF AbortScan, ScannerAt, ScannerGoto, ScannerRests, Resting, ScannerEnds, ClearStaging,
       ScannerState, AtHand, CopiedOnce, Scanned, NoLeftovers, ScanState, CountsMatch, Rows,
       GraphState
  <2> QED BY <2>1, <2>2
<1>8. CASE FetchPage
  <2>1. PICK l \in {"insert", "guard"} : scanner' = [scanner EXCEPT !.pc = l]
    BY <1>8 DEF FetchPage, ScannerGoto
  <2>2. scanner.pc = "page" /\ UNCHANGED <<scan, scanList, scanWake, asker, live, staging>>
    BY <1>8 DEF FetchPage, ScannerAt
  <2>3. /\ scanner' \in ScannerState /\ scanner'.job = scanner.job
        /\ scanner'.counted = scanner.counted
    BY <2>1 DEF ScannerState, ScannerPlace
  <2>4. AtHand' BY <2>2, <2>3 DEF AtHand
  <2>5. CopiedOnce' BY <2>2, <2>3 DEF CopiedOnce, Scanned
  <2> QED BY <2>2, <2>3, <2>4, <2>5 DEF NoLeftovers
<1>9. CASE InsertPage
  <2>1. PICK p \in Page \ scanner.counted, next \in {"page", "insert", "guard"} :
          /\ staging' = [staging EXCEPT ![Scanned] = [staging[Scanned] EXCEPT ![p] = @ + 1]]
          /\ scanner' = [scanner EXCEPT !.pc = next, !.counted = scanner.counted \cup {p}]
    BY <1>9 DEF InsertPage
  <2>2. scanner.pc = "insert" /\ UNCHANGED <<scan, scanList, scanWake, asker, live>>
    BY <1>9 DEF InsertPage, ScannerAt
  <2>3. /\ scanner' \in ScannerState /\ scanner'.job = scanner.job
        /\ scanner'.counted = scanner.counted \cup {p}
    BY <2>1 DEF ScannerState, ScannerPlace
  <2>4. [staging[Scanned] EXCEPT ![p] = @ + 1] \in Rows BY <1>a DEF Rows
  <2>5. staging' \in [Repo -> Rows] BY <1>a, <2>1, <2>4
  <2>6. \A q \in Page : staging'[Scanned][q] = IF q = p THEN staging[Scanned][q] + 1
                                               ELSE staging[Scanned][q]
    BY <1>a, <2>1 DEF Rows
  <2>7. Scanned' = Scanned BY <2>2, <2>3 DEF Scanned
  <2>8. CopiedOnce' BY <1>a, <2>2, <2>3, <2>6, <2>7 DEF CopiedOnce, Rows
  <2>9. AtHand' BY <2>2, <2>3 DEF AtHand
  <2> QED BY <2>2, <2>3, <2>5, <2>8, <2>9 DEF NoLeftovers
<1>10. CASE Mismatch
  <2>1. ScanTypes'
    BY <1>a, <1>b, <1>10
       DEF Mismatch, ScannerAt, ScannerGoto, ScannerRests, Resting, ScannerEnds, ClearStaging,
       ScannerState, ScannerPlace, ScanState, ScanPhase, Rows, GraphState
  <2>2. AtHand' /\ CopiedOnce' /\ NoLeftovers' /\ UNCHANGED asker
    BY <1>a, <1>b, <1>10
       DEF Mismatch, ScannerAt, ScannerGoto, ScannerRests, Resting, ScannerEnds, ClearStaging,
       ScannerState, AtHand, CopiedOnce, Scanned, NoLeftovers, ScanState, CountsMatch, Rows,
       GraphState
  <2> QED BY <2>1, <2>2
<1>11. CASE Promote
  <2>1. ScanTypes'
    BY <1>a, <1>b, <1>11
       DEF Promote, ScannerAt, ScannerGoto, ScannerRests, Resting, ScannerEnds, ClearStaging,
       ScannerState, ScannerPlace, ScanState, ScanPhase, Rows, GraphState
  <2>2. AtHand' /\ CopiedOnce' /\ NoLeftovers' /\ UNCHANGED asker
    BY <1>a, <1>b, <1>11
       DEF Promote, ScannerAt, ScannerGoto, ScannerRests, Resting, ScannerEnds, ClearStaging,
       ScannerState, AtHand, CopiedOnce, Scanned, NoLeftovers, ScanState, CountsMatch, Rows,
       GraphState
  <2> QED BY <2>1, <2>2
<1> QED BY <1>1, <1>2, <1>3, <1>4, <1>5, <1>6, <1>7, <1>8, <1>9, <1>10, <1>11 DEF ScannerStep

(* The cancel of a scan.                                                   *)
LEMMA CancelKeepsScanInv ==
  ASSUME ScanInv, NEW s \in Scan, CancelScan(s)
  PROVE  ScanInv' /\ UNCHANGED asker
<1> USE DEF ScanInv, ScanTypes
<1>1. PICK new : /\ scan' = [scan EXCEPT ![s] = new] /\ new \in ScanState
                 /\ new.repo = scan[s].repo /\ new.phase \in {scan[s].phase, "over"}
  <2>1. scan[s] \in ScanState OBVIOUS
  <2>2. CASE scan' = [scan EXCEPT ![s] = [scan[s] EXCEPT !.cancel = TRUE]]
    <3>1. /\ [scan[s] EXCEPT !.cancel = TRUE] \in ScanState
          /\ [scan[s] EXCEPT !.cancel = TRUE].repo = scan[s].repo
          /\ [scan[s] EXCEPT !.cancel = TRUE].phase = scan[s].phase
      BY <2>1 DEF ScanState
    <3> QED BY <2>2, <3>1
  <2>3. CASE scan' = [scan EXCEPT ![s] = [scan[s] EXCEPT !.phase = "over"]]
    <3>1. /\ [scan[s] EXCEPT !.phase = "over"] \in ScanState
          /\ [scan[s] EXCEPT !.phase = "over"].repo = scan[s].repo
          /\ [scan[s] EXCEPT !.phase = "over"].phase = "over"
      BY <2>1 DEF ScanState, ScanPhase
    <3> QED BY <2>3, <3>1
  <2> QED BY <2>2, <2>3 DEF CancelScan
<1>2. UNCHANGED <<scanList, scanWake, scanner, asker, live, staging>>
  BY DEF CancelScan
<1>3. scanner.job \in Scan BY DEF ScannerState
<1>4. ScanTypes' BY <1>1, <1>2
<1>5. AtHand' BY <1>1, <1>2, <1>3 DEF AtHand
<1>6. CopiedOnce' BY <1>1, <1>2, <1>3 DEF CopiedOnce, Scanned
<1> QED BY <1>2, <1>4, <1>5, <1>6 DEF NoLeftovers

(* A save writes one project's graph and clears its staging rows, or       *)
(* leaves both.                                                            *)
LEMMA SaveKeepsScanInv ==
  ASSUME ScanInv, NEW r \in Repo, RowsKept \/ Saved(r) \/ SaveBroken(r),
         UNCHANGED <<scan, scanList, scanWake, scanner>>
  PROVE  ScanInv'
<1> USE DEF ScanInv, ScanTypes
<1>1. Blank \in Rows /\ \A p \in Page : Blank[p] = 0 BY DEF Blank, Rows
<1>2. CASE UNCHANGED <<live, staging>>
  BY <1>2 DEF AtHand, CopiedOnce, Scanned, NoLeftovers
<1>3. ASSUME NEW g \in GraphState, g.rows = Blank, live' = [live EXCEPT ![r] = g],
             staging' = [staging EXCEPT ![r] = Blank]
      PROVE  ScanInv'
  <2>1. ScanTypes' BY <1>1, <1>3
  <2>2. \A q \in Repo, p \in Page : staging'[q][p] <= staging[q][p]
    <3> SUFFICES ASSUME NEW q \in Repo, NEW p \in Page PROVE staging'[q][p] <= staging[q][p]
      OBVIOUS
    <3>1. staging[q][p] \in Nat BY DEF Rows
    <3> QED BY <1>1, <1>3, <3>1
  <2>3. Scanned \in Repo /\ Scanned' = Scanned BY DEF Scanned, ScannerState, ScanState
  <2>4. CopiedOnce'
    <3> SUFFICES ASSUME scanner.pc \in {"page", "insert", "guard"}, NEW p \in Page
                 PROVE  staging'[Scanned][p] <= IF p \in scanner.counted THEN 1 ELSE 0
      BY <2>3 DEF CopiedOnce
    <3>1. staging[Scanned][p] \in Nat /\ staging'[Scanned][p] \in Nat BY <2>1, <2>3 DEF Rows
    <3> QED BY <2>2, <2>3, <3>1 DEF CopiedOnce
  <2>5. NoLeftovers' BY <1>1, <1>3 DEF NoLeftovers
  <2> QED BY <2>1, <2>4, <2>5 DEF AtHand
<1>4. [by |-> "index", rows |-> Blank] \in GraphState /\ NoGraph \in GraphState
      /\ NoGraph.rows = Blank
  BY <1>1 DEF GraphState, NoGraph
<1> QED BY <1>2, <1>3, <1>4 DEF RowsKept, Saved, SaveBroken, ClearStaging

-----------------------------------------------------------------------------
(* The index queue.                                                        *)

Runner(j) == ~AskerAt(j, "idle")

(* The holders of permits can be counted. *)
LEMMA HoldersCount == IsFiniteSet(Holders) /\ Cardinality(Holders) \in Nat
BY FS_Subset, FS_CardinalityType DEF Holders

(* A step that leaves the permits and who holds them.                      *)
LEMMA SameHolders ==
  ASSUME QueueInv, QueueTypes', UNCHANGED permits, LoopAt("start")' = LoopAt("start"),
         \A j \in Job : Runner(j)' = Runner(j)
  PROVE  PermitsAccounted'
<1>1. Holders' = Holders
  <2>1. Holders' = {j \in Job : Runner(j)'} BY DEF Holders, Runner
  <2> QED BY <2>1 DEF Holders, Runner
<1> QED BY <1>1 DEF QueueInv, PermitsAccounted

(* notify_one leaves the loop where it is unless it sleeps.                *)
LEMMA NotifyWakes ==
  ASSUME QueueTypes, NotifyOne
  PROVE  loop' \in LoopState /\ wake' \in BOOLEAN /\ LoopAt("start")' = LoopAt("start")
<1>1. CASE LoopAt("asleep") /\ LoopGoto("look") /\ UNCHANGED wake
  BY <1>1 DEF QueueTypes, LoopAt, LoopGoto, LoopState, LoopPlace
<1>2. CASE ~LoopAt("asleep") /\ wake' = TRUE /\ UNCHANGED loop
  <2>1. wake' \in BOOLEAN BY <1>2, Zenon
  <2>2. loop' = loop BY <1>2
  <2> QED BY <2>1, <2>2 DEF QueueTypes, LoopAt
<1> QED BY <1>1, <1>2 DEF NotifyOne

(* The queue's part of a step that writes neither jobs, list, permits nor  *)
(* the loop, and neither starts nor ends a runner.                         *)
LEMMA QueueUntouched ==
  ASSUME QueueInv, UNCHANGED queueVars, \A j \in Job : Runner(j)' = Runner(j)
  PROVE  QueueInv'
<1>1. QueueTypes' BY DEF QueueInv, QueueTypes, queueVars
<1>2. LoopAt("start")' = LoopAt("start") BY DEF LoopAt, queueVars
<1>3. PermitsAccounted' BY <1>1, <1>2, SameHolders DEF queueVars
<1>4. NotStarted' BY DEF QueueInv, NotStarted, Runner, queueVars
<1> QED BY <1>1, <1>3, <1>4 DEF QueueInv

(* A runner goes on, or a command does.                                    *)
LEMMA RunsGoOn ==
  ASSUME AskerTypes, NEW a \in Asker, NEW l \in AskerPlace, AskerGoto(a, l),
         a \in Job => ~AskerAt(a, "idle") /\ l # "idle"
  PROVE  AskerTypes' /\ \A j \in Job : Runner(j)' = Runner(j)
BY DEF AskerTypes, AskerGoto, AskerAt, Runner

(* A command that asks for an index or a scan keeps the invariant of the
   scan and starts no runner. *)
LEMMA AskKeeps ==
  ASSUME ScanInv, AskerTypes, NEW a \in Asker, AskStep(a)
  PROVE  ScanInv' /\ AskerTypes' /\ \A j \in Job : Runner(j)' = Runner(j)
<1>1. ~AskerAt(a, "idle") /\ \E l \in {"resolving", "asked"} : AskerGoto(a, l)
  BY DEF AskStep, CheckScan, PushScan, ResolveFails, AskerAt
<1>2. AskerTypes' /\ \A j \in Job : Runner(j)' = Runner(j)
  BY <1>1, RunsGoOn DEF AskerPlace
<1>3. CASE CheckScan(a) \/ ResolveFails(a)
  BY <1>2, <1>3
     DEF CheckScan, ResolveFails, ScanInv, ScanTypes, AtHand, CopiedOnce, Scanned, NoLeftovers
<1>4. CASE PushScan(a) BY <1>2, <1>4, PushKeepsScanInv
<1> QED BY <1>2, <1>3, <1>4 DEF AskStep

(* The rewriting of the job list: some jobs are dropped, new ones queued.  *)
LEMMA DiscoverKeeps ==
  ASSUME QueueInv, NEW R \in SUBSET Repo, Discover(R)
  PROVE  QueueInv'
<1> USE DEF QueueInv
<1>1. PICK N \in SUBSET {j \in Job : job[j].phase = "none"} :
        LET list == Newest(jobList \o SetToSeq(N), MaxJobs)
            gone == ToSet(jobList \o SetToSeq(N)) \ ToSet(list)
        IN /\ job' = [j \in Job |-> IF j \in gone THEN [job[j] EXCEPT !.phase = "dropped"]
                       ELSE IF j \in N THEN [job[j] EXCEPT !.phase = "queued"] ELSE job[j]]
           /\ jobList' = list
  BY DEF Discover
<1>a. UNCHANGED <<scanVars, wake, permits>>
      /\ loop' = [loop EXCEPT !.pc = IF @ = "asleep" THEN "look" ELSE @]
  BY DEF Discover
<1>b. \A j \in Job : job'[j] \in JobState /\ job'[j].phase \in {"dropped", "queued", job[j].phase}
                     /\ (job'[j].phase = "queued" /\ job[j].phase # "queued" => j \in N)
  <2> SUFFICES ASSUME NEW j \in Job
               PROVE  job'[j] \in JobState /\ job'[j].phase \in {"dropped", "queued", job[j].phase}
                     /\ (job'[j].phase = "queued" /\ job[j].phase # "queued" => j \in N)
    OBVIOUS
  <2>1. job[j] \in JobState BY DEF QueueTypes
  <2>2. \A l \in {"dropped", "queued"} : /\ [job[j] EXCEPT !.phase = l] \in JobState
                                         /\ [job[j] EXCEPT !.phase = l].phase = l
    BY <2>1 DEF JobState, Phase
  <2> QED BY <1>1, <2>1, <2>2
<1>c. SetToSeq(N) \in Seq(Job)
  <2>1. IsFiniteSet(N) /\ N \subseteq Job BY FS_Subset
  <2>2. SetToSeq(N) \in Seq(N) BY <2>1, SetToSeqIs
  <2> QED BY <2>1, <2>2
<1>d. jobList' \in Seq(Job) /\ Len(jobList') <= MaxJobs
  <2>1. jobList \o SetToSeq(N) \in Seq(Job) BY <1>c DEF QueueTypes
  <2> QED BY <1>1, <2>1, NewestIs
<1>2. QueueTypes'
  <2>1. job' \in [Job -> JobState] BY <1>1, <1>b
  <2>2. loop' \in LoopState BY <1>a DEF QueueTypes, LoopState, LoopPlace
  <2> QED BY <1>a, <1>d, <2>1, <2>2 DEF QueueTypes
<1>3. LoopAt("start")' = LoopAt("start")
  BY DEF Discover, LoopAt, QueueTypes, LoopState
<1>4. \A j \in Job : Runner(j)' = Runner(j)
  BY DEF Discover, scanVars, Runner, AskerAt
<1>5. NotStarted'
  BY <1>b, <1>4 DEF NotStarted, Runner
<1> QED BY <1>2, <1>3, <1>4, <1>5, SameHolders DEF Discover

-----------------------------------------------------------------------------
(* The loop, which takes a permit for each job it starts.                  *)
LEMMA LoopKeeps ==
  ASSUME QueueInv, AskerTypes, LoopStep
  PROVE  QueueInv' /\ AskerTypes'
<1> USE DEF QueueInv
<1>a. loop \in LoopState /\ permits \in Nat /\ loop.job \in Job BY DEF QueueTypes, LoopState
<1>1. CASE Look \/ Park
  <2>2. loop' \in LoopState /\ loop'.pc # "start"
    <3>1. CASE \E l \in {"park", "look", "asleep"} : LoopGoto(l)
      BY <1>a, <3>1 DEF LoopGoto, LoopState, LoopPlace
    <3>2. CASE QueuedJobs # << >> /\ loop' = [pc |-> "permit", job |-> Head(QueuedJobs)]
      <4>1. QueuedJobs \in Seq(Job) BY KeptLeaves DEF QueuedJobs, QueueTypes
      <4>2. Head(QueuedJobs) \in Job BY <3>2, <4>1
      <4> QED BY <3>2, <4>2 DEF LoopState, LoopPlace
    <3> QED BY <1>1, <3>1, <3>2 DEF Look, Park
  <2>3. LoopAt("start")' = LoopAt("start")
    BY <1>1, <2>2 DEF Look, Park, LoopAt
  <2>4. UNCHANGED <<scanVars, job, jobList, permits>> BY <1>1 DEF Look, Park
  <2>5. wake' \in BOOLEAN
    <3>1. CASE Look BY <3>1 DEF Look, QueueTypes
    <3>2. CASE Park BY <3>2, Zenon DEF Park
    <3> QED BY <1>1, <3>1, <3>2
  <2>6. QueueTypes' BY <2>2, <2>4, <2>5 DEF QueueTypes
  <2>7. (\A j \in Job : Runner(j)' = Runner(j)) /\ NotStarted'
    BY <2>4 DEF scanVars, Runner, AskerAt, NotStarted
  <2>8. PermitsAccounted' BY <2>3, <2>4, <2>6, <2>7, SameHolders
  <2>9. AskerTypes' BY <2>4 DEF AskerTypes, scanVars
  <2> QED BY <2>6, <2>7, <2>8, <2>9
<1>2. CASE Acquire \/ Skip
  <2>1. UNCHANGED <<scanVars, job, jobList, wake>> BY <1>2 DEF Acquire, Skip
  <2>2. loop' \in LoopState
    <3>1. CASE Acquire BY <1>a, <3>1 DEF Acquire, LoopGoto, LoopState, LoopPlace
    <3>2. CASE Skip BY <3>2 DEF Skip, LoopIdles, Idle, LoopState, LoopPlace
    <3> QED BY <1>2, <3>1, <3>2
  <2>3. Holders' = Holders BY <2>1 DEF Holders, AskerAt, scanVars
  <2>4. permits' \in Nat /\ PermitsAccounted'
    <3>1. CASE Acquire
      <4>1. permits > 0 /\ permits' = permits - 1 /\ loop.pc = "permit" /\ loop'.pc = "start"
        BY <1>a, <3>1 DEF Acquire, LoopAt, LoopGoto, LoopState
      <4> QED BY <1>a, <2>3, <4>1, HoldersCount DEF PermitsAccounted, LoopAt
    <3>2. CASE Skip
      <4>1. permits' = permits + 1 /\ loop.pc = "start" /\ loop'.pc = "look"
        BY <3>2 DEF Skip, LoopAt, LoopIdles, Idle
      <4> QED BY <1>a, <2>3, <4>1, HoldersCount DEF PermitsAccounted, LoopAt
    <3> QED BY <1>2, <3>1, <3>2
  <2>5. QueueTypes' BY <2>1, <2>2, <2>4 DEF QueueTypes
  <2>6. NotStarted' /\ AskerTypes' BY <2>1 DEF NotStarted, AskerTypes, AskerAt, scanVars
  <2> QED BY <2>4, <2>5, <2>6
<1>3. CASE Start
  <2> DEFINE j == loop.job
  <2>1. j \in Job /\ job[j].phase = "queued" /\ asker[j] = "idle" /\ loop.pc = "start"
    BY <1>a, <1>3 DEF Start, StillQueued, LoopAt, NotStarted, AskerAt
  <2>2. /\ job' = [job EXCEPT ![j] = [job[j] EXCEPT !.phase = "indexing"]]
        /\ asker' = [asker EXCEPT ![j] = "begin"] /\ loop' = Idle("look")
        /\ UNCHANGED <<jobList, wake, permits>>
    BY <1>3 DEF Start, AskerGoto, LoopIdles
  <2>3. loop' \in LoopState /\ loop'.pc = "look" BY <2>2 DEF Idle, LoopState, LoopPlace
  <2>4. [job[j] EXCEPT !.phase = "indexing"] \in JobState
        /\ [job[j] EXCEPT !.phase = "indexing"].phase = "indexing"
    BY <2>1 DEF QueueTypes, JobState, Phase
  <2>5. QueueTypes' BY <2>1, <2>2, <2>3, <2>4 DEF QueueTypes
  <2>6. AskerTypes' BY <2>1, <2>2 DEF AskerTypes, AskerPlace
  <2>7. NotStarted' BY <2>1, <2>2, <2>4 DEF NotStarted, QueueTypes, AskerTypes, AskerAt
  <2>8. Holders' = Holders \cup {j} /\ j \notin Holders
    BY <2>1, <2>2 DEF Holders, AskerAt, AskerTypes
  <2>9. Cardinality(Holders') = Cardinality(Holders) + 1
    BY <2>8, HoldersCount, FS_AddElement
  <2>10. PermitsAccounted'
    BY <1>a, <2>1, <2>2, <2>3, <2>9, HoldersCount DEF PermitsAccounted, LoopAt
  <2> QED BY <2>5, <2>6, <2>7, <2>10
<1> QED BY <1>1, <1>2, <1>3 DEF LoopStep

-----------------------------------------------------------------------------
(* The runners.                                                            *)

LEMMA CancelJobsKeep ==
  ASSUME QueueInv, NEW C \in SUBSET Job, CancelJobs(C)
  PROVE  QueueInv'
<1> USE DEF QueueInv
<1>1. UNCHANGED <<scanVars, jobList, permits>> BY DEF CancelJobs
<1>2. \A j \in Job : job'[j] \in JobState /\ job'[j].phase \in {job[j].phase, "cancelled"}
  <2>1. \A j \in Job : job[j] \in JobState BY DEF QueueTypes
  <2> QED BY <2>1 DEF CancelJobs, Reads, JobState, Phase
<1>3. job' \in [Job -> JobState]
  BY <1>2 DEF CancelJobs
<1>4. QueueTypes' BY <1>1, <1>3, NotifyWakes DEF CancelJobs, QueueTypes
<1>5. (\A j \in Job : Runner(j)' = Runner(j)) /\ NotStarted'
  BY <1>1, <1>2 DEF scanVars, Runner, AskerAt, NotStarted
<1> QED BY <1>1, <1>4, <1>5, SameHolders, NotifyWakes DEF CancelJobs

(* A runner goes on with its run, or ends it.                              *)
LEMMA RunnerKeeps ==
  ASSUME ScanInv, QueueInv, AskerTypes, NEW j \in Job, RunnerStep(j)
  PROVE  ScanInv' /\ QueueInv' /\ AskerTypes'
<1>a. ASSUME NEW l \in AskerPlace \ {"idle"}, ~AskerAt(j, "idle"), AskerGoto(j, l)
      PROVE  AskerTypes' /\ \A i \in Job : Runner(i)' = Runner(i)
  BY <1>a, RunsGoOn
<1>b. RepoOf[j] \in Repo OBVIOUS
<1>1. CASE RunBegin(j) \/ RunIndex(j) \/ RunSave(j)
  <2>1. ~AskerAt(j, "idle") /\ \E l \in AskerPlace \ {"idle"} : AskerGoto(j, l)
    BY <1>1 DEF RunBegin, RunIndex, RunSave, Runs, AskerAt, AskerPlace
  <2>2. UNCHANGED <<scan, scanList, scanWake, scanner>> /\ UNCHANGED queueVars
    BY <1>1 DEF RunBegin, RunIndex, RunSave, Runs
  <2>3. RowsKept \/ Saved(RepoOf[j]) \/ SaveBroken(RepoOf[j])
    BY <1>1 DEF RunBegin, RunIndex, RunSave
  <2>4. ScanInv' BY <1>b, <2>2, <2>3, SaveKeepsScanInv
  <2> QED BY <1>a, <2>1, <2>2, <2>4, QueueUntouched
<1>3. CASE RunFinish(j)
  <2>1. PICK from, to \in AskerPlace \ {"idle"}, phase \in Phase \ {"none", "queued"} :
          Finish(j, from, phase, to)
    BY <1>3 DEF RunFinish, AskerPlace, Phase
  <2>2. ~AskerAt(j, "idle") /\ AskerGoto(j, to)
    BY <2>1 DEF Finish, Runs, AskerAt
  <2>3. AskerTypes' /\ \A i \in Job : Runner(i)' = Runner(i) BY <1>a, <2>2
  <2>4. /\ UNCHANGED <<scan, scanList, scanWake, scanner, jobList, permits, wake, loop>>
        /\ RowsKept
    BY <2>1 DEF Finish, Runs
  <2>5. ScanInv' BY <1>b, <2>4, SaveKeepsScanInv
  <2>6. PICK new \in JobState : job' = [job EXCEPT ![j] = new] /\ new.phase \notin {"none", "queued"}
    <3> DEFINE new == [phase |-> IF job[j].phase = "dropped" THEN "dropped" ELSE phase,
                       cancel |-> FALSE]
    <3>1. new \in JobState BY DEF JobState, Phase
    <3>2. new.phase \notin {"none", "queued"} OBVIOUS
    <3>3. job' = [job EXCEPT ![j] = new] BY <2>1 DEF Finish
    <3> QED BY <3>1, <3>2, <3>3
  <2>7. QueueTypes' BY <2>4, <2>6 DEF QueueInv, QueueTypes
  <2>8. PermitsAccounted' BY <2>3, <2>4, <2>7, SameHolders DEF LoopAt
  <2>9. NotStarted' BY <2>3, <2>6 DEF QueueInv, QueueTypes, NotStarted, Runner
  <2> QED BY <2>3, <2>5, <2>7, <2>8, <2>9 DEF QueueInv
<1>4. CASE RunRelease(j)
  <2>1. /\ asker[j] = "asked" /\ asker' = [asker EXCEPT ![j] = "idle"]
        /\ permits' = permits + 1 /\ NotifyOne
        /\ UNCHANGED <<scan, scanList, scanWake, scanner, job, jobList>> /\ RowsKept
    BY <1>4 DEF RunRelease, Runs, AskerAt, AskerGoto
  <2>2. ScanInv' BY <1>b, <2>1, SaveKeepsScanInv
  <2>3. AskerTypes' BY <2>1 DEF AskerTypes, AskerPlace
  <2>4. loop' \in LoopState /\ wake' \in BOOLEAN /\ LoopAt("start")' = LoopAt("start")
    BY <2>1, NotifyWakes DEF QueueInv
  <2>5. QueueTypes' BY <2>1, <2>4 DEF QueueInv, QueueTypes
  <2>6. Holders' = Holders \ {j} /\ j \in Holders
    BY <2>1 DEF Holders, AskerAt, AskerTypes
  <2>7. Cardinality(Holders') = Cardinality(Holders) - 1
    BY <2>6, HoldersCount, FS_RemoveElement
  <2>8. PermitsAccounted'
    BY <2>1, <2>4, <2>7, HoldersCount DEF QueueInv, QueueTypes, PermitsAccounted
  <2>9. NotStarted' BY <2>1 DEF QueueInv, NotStarted, AskerTypes, AskerAt
  <2> QED BY <2>2, <2>3, <2>5, <2>8, <2>9 DEF QueueInv
<1>5. CASE AskStep(j) /\ UNCHANGED queueVars
  BY <1>5, AskKeeps, QueueUntouched
<1> QED BY <1>1, <1>3, <1>4, <1>5 DEF RunnerStep

-----------------------------------------------------------------------------
(* All together.                                                           *)

IndexInv == ScanInv /\ QueueInv /\ AskerTypes

(* Empty queues satisfy the invariant. *)
LEMMA IndexStarts == QueueInit => IndexInv
<1> SUFFICES ASSUME QueueInit PROVE IndexInv
  OBVIOUS
<1>1. PICK C \in Together : HealthInit(C, Job)
  BY DEF QueueInit
<1>2. ScanTypes /\ scanner.pc = "look"
  <2>1. (CHOOSE r \in Repo : TRUE) \in Repo /\ (CHOOSE s \in Scan : TRUE) \in Scan
    <3>1. PICK j \in Job : TRUE OBVIOUS
    <3>2. RepoOf[j] \in Repo OBVIOUS
    <3> QED BY <3>2
  <2>2. scan \in [Scan -> ScanState]
    BY <1>1, <2>1 DEF HealthInit, ScanState, ScanPhase
  <2>3. scanner \in ScannerState /\ scanner.pc = "look"
    BY <1>1, <2>1 DEF HealthInit, Resting, ScannerState, ScannerPlace
  <2>4. scanList \in Seq(Scan) /\ Len(scanList) <= MaxScanJobs
    BY <1>1 DEF HealthInit
  <2>5. Blank \in Rows /\ NoGraph \in GraphState
    BY DEF Blank, Rows, NoGraph, GraphState
  <2>6. live \in [Repo -> GraphState] /\ staging \in [Repo -> Rows]
    BY <1>1, <2>5 DEF HealthInit
  <2>7. scanWake \in BOOLEAN BY <1>1, Zenon DEF HealthInit
  <2> QED BY <2>2, <2>3, <2>4, <2>6, <2>7 DEF ScanTypes
<1>3. AskerTypes
  BY <1>1 DEF HealthInit, AskerTypes, AskerPlace
<1>4. AtHand /\ CopiedOnce
  BY <1>2 DEF AtHand, CopiedOnce
<1>5. NoLeftovers
  BY <1>1 DEF HealthInit, NoLeftovers, NoGraph, Blank
<1>6. QueueTypes
  <2>1. job \in [Job -> JobState] BY DEF QueueInit, JobState, Phase
  <2>2. jobList \in Seq(Job) /\ Len(jobList) <= MaxJobs BY DEF QueueInit
  <2>3. loop \in LoopState BY DEF QueueInit, Idle, LoopState, LoopPlace
  <2>4. wake \in BOOLEAN BY Zenon DEF QueueInit
  <2>5. permits \in Nat BY DEF QueueInit
  <2> QED BY <2>1, <2>2, <2>3, <2>4, <2>5 DEF QueueTypes
<1>7. \A j \in Job : AskerAt(j, "idle")
  BY <1>1 DEF HealthInit, AskerAt
<1>8. PermitsAccounted
  <2>1. Holders = {} BY <1>7 DEF Holders
  <2> QED BY <2>1, FS_EmptySet DEF QueueInit, Idle, LoopAt, PermitsAccounted
<1> QED BY <1>2, <1>3, <1>4, <1>5, <1>6, <1>7, <1>8 DEF IndexInv, ScanInv, QueueInv, NotStarted

(* The invariant is inductive. *)
LEMMA IndexInductive == IndexInv /\ [QueueNext]_vars => IndexInv'
<1> SUFFICES ASSUME IndexInv, [QueueNext]_vars PROVE IndexInv'
  OBVIOUS
<1> USE DEF IndexInv
<1>a. ASSUME UNCHANGED scanVars PROVE ScanInv' /\ AskerTypes'
  BY <1>a DEF scanVars, ScanInv, ScanTypes, AskerTypes, AtHand, CopiedOnce, Scanned, NoLeftovers
<1>b. ASSUME UNCHANGED asker PROVE AskerTypes' /\ \A j \in Job : Runner(j)' = Runner(j)
  BY <1>b DEF AskerTypes, Runner, AskerAt
<1>1. ASSUME NEW R \in SUBSET Repo, Discover(R) PROVE IndexInv'
  BY <1>1, <1>a, DiscoverKeeps DEF Discover
<1>2. ASSUME NEW C \in SUBSET Job, CancelJobs(C) PROVE IndexInv'
  BY <1>2, <1>a, CancelJobsKeep DEF CancelJobs
<1>3. CASE CancelAll \/ \E j \in Job : CancelJob(j)
  <2>1. \E C \in SUBSET Job : CancelJobs(C)
    <3>1. ASSUME NEW j \in Job, CancelJob(j) PROVE {j} \in SUBSET Job /\ CancelJobs({j})
      BY <3>1 DEF CancelJob
    <3>2. CASE CancelAll BY <3>2 DEF CancelAll
    <3> QED BY <1>3, <3>1, <3>2
  <2> QED BY <1>2, <2>1
<1>4. ASSUME NEW j \in Job, RunnerStep(j) PROVE IndexInv'
  BY <1>4, RunnerKeeps
<1>5. CASE LoopStep
  <2>1. UNCHANGED <<scan, scanList, scanWake, scanner, live, staging>>
    BY <1>5 DEF LoopStep, Look, Park, Acquire, Start, Skip, scanVars
  <2>2. ScanInv' BY <2>1 DEF ScanInv, ScanTypes, AtHand, CopiedOnce, Scanned, NoLeftovers
  <2> QED BY <1>5, <2>2, LoopKeeps
<1>6. CASE UNCHANGED queueVars /\ (ScannerStep \/ \E s \in Scan : CancelScan(s))
  BY <1>6, <1>b, ScannerKeepsScanInv, CancelKeepsScanInv, QueueUntouched
<1>7. ASSUME NEW m \in Manual, ManualIndex(m) \/ ManualSave(m) \/ ManualScan(m) PROVE IndexInv'
  <2>1. m \in Asker /\ m \notin Job /\ RepoOf[m] \in Repo BY DEF Manual
  <2>2. UNCHANGED <<scan, scanList, scanWake, scanner>> /\ UNCHANGED queueVars
    BY <1>7 DEF ManualIndex, ManualSave, ManualScan, Runs
  <2>3. RowsKept \/ Saved(RepoOf[m]) \/ SaveBroken(RepoOf[m])
    BY <1>7 DEF ManualIndex, ManualSave, ManualScan
  <2>4. \E l \in AskerPlace : AskerGoto(m, l)
    BY <1>7 DEF ManualIndex, ManualSave, ManualScan, Runs, AskerPlace
  <2>5. AskerTypes' /\ \A j \in Job : Runner(j)' = Runner(j)
    BY <2>1, <2>4, RunsGoOn
  <2> QED BY <2>1, <2>2, <2>3, <2>5, SaveKeepsScanInv, QueueUntouched
<1>8. ASSUME NEW m \in Manual, AskStep(m), UNCHANGED queueVars PROVE IndexInv'
  BY <1>8, AskKeeps, QueueUntouched DEF Manual
<1>9. CASE UNCHANGED vars
  BY <1>9, <1>a, <1>b, QueueUntouched DEF vars, scanVars
<1> QED BY <1>1, <1>3, <1>4, <1>5, <1>6, <1>7, <1>8, <1>9 DEF QueueNext

(* It holds in every reachable state. *)
LEMMA IndexInvHolds == QueueSpec => []IndexInv
BY IndexStarts, IndexInductive, PTL DEF QueueSpec, QueueSafety

(* A type invariant, and: the permits that are taken are held by runners   *)
(* and by the loop about to start one; none is lost and none given back    *)
(* twice on any path through cancel, drop or failure (run_loop, run_one).  *)
THEOREM PermitsAreAccounted == QueueSpec => [](QueueTypeOK /\ PermitsAccounted)
<1>1. IndexInv => QueueTypeOK /\ PermitsAccounted
  <2> SUFFICES ASSUME IndexInv PROVE QueueTypeOK /\ PermitsAccounted
    OBVIOUS
  <2> USE DEF IndexInv, QueueInv, ScanInv
  <2>1. permits \in 0..Concurrency
    BY HoldersCount DEF QueueTypes, PermitsAccounted
  <2>2. <<permits, wake, scanWake>> \in (0..Concurrency) \X BOOLEAN \X BOOLEAN
    BY <2>1 DEF QueueTypes, ScanTypes
  <2> QED BY <2>2 DEF QueueTypeOK, QueueTypes, ScanTypes, AskerTypes, ScanState, ScannerState,
             ScannerPlace, GraphState, Rows, AskerPlace, JobState, LoopState, LoopPlace
<1> QED BY <1>1, IndexInvHolds, PTL

(* A row is never promoted twice, whatever scans failed, were cancelled or *)
(* ran into a save (run_health_scan, save_project_index).                  *)
THEOREM NothingPromotedTwice == QueueSpec => []NoLeftovers
<1>1. IndexInv => NoLeftovers
  BY DEF IndexInv, ScanInv
<1> QED BY <1>1, IndexInvHolds, PTL

-----------------------------------------------------------------------------
(* No request for a scan is slept through.                                 *)

(* What drains a list to its newest entries keeps the last one.            *)
LEMMA NewestKeepsLast ==
  ASSUME NEW T, NEW seq \in Seq(T), NEW x \in T, NEW n \in Nat \ {0}
  PROVE  x \in ToSet(Newest(Append(seq, x), n))
<1>1. PICK all : all = Append(seq, x) OBVIOUS
<1>2. /\ all \in Seq(T) /\ Len(all) = Len(seq) + 1 /\ Len(seq) \in Nat /\ Len(all) \in Nat \ {0}
      /\ all[Len(all)] = x
  BY <1>1
<1>3. PICK from : from = IF Len(all) > n THEN Len(all) - n + 1 ELSE 1 OBVIOUS
<1>4. from \in 1..Len(all) BY <1>2, <1>3
<1>5. PICK list : list = SubSeq(all, from, Len(all)) OBVIOUS
<1>6. /\ list \in Seq(T) /\ Len(list) = Len(all) - from + 1
      /\ \A i \in 1..(Len(all) - from + 1) : list[i] = all[from + i - 1]
  BY <1>2, <1>4, <1>5
<1>7. Len(list) \in 1..(Len(all) - from + 1) /\ from + Len(list) - 1 = Len(all)
  BY <1>2, <1>4, <1>6
<1>8. list[Len(list)] = x /\ Len(list) \in DOMAIN list BY <1>2, <1>6, <1>7
<1>9. Newest(all, n) = list BY <1>3, <1>5 DEF Newest
<1> QED BY <1>1, <1>8, <1>9 DEF ToSet

(* Both halves at once: listed, and heard of.                              *)
ScanHeard == RequestsListed /\ RequestsHeard
USE DEF RequestsListed, RequestsHeard

(* A request is in the list that is pushed, and the worker hears of it.    *)
LEMMA PushIsHeard ==
  ASSUME ScanInv, ScanHeard, NEW a \in Asker, PushScan(a)
  PROVE  ScanHeard'
<1> USE DEF ScanInv, ScanTypes
<1> DEFINE s == CHOOSE u \in NewScans : TRUE
           list == Newest(Append(scanList, s), MaxScanJobs)
<1>1. s \in Scan BY DEF PushScan, NewScans
<1>2. scanList' = list /\ s \in ToSet(list) BY <1>1, NewestKeepsLast DEF PushScan
<1>3. ASSUME NEW u \in Scan, scan'[u].phase = "queued"
      PROVE  u \in ToSet(list)
  <2>1. CASE u = s BY <1>2, <2>1
  <2>2. CASE u # s
    <3>1. scan'[u] = IF u \in ToSet(scanList) \ ToSet(list)
                     THEN [scan[u] EXCEPT !.phase = "dropped"] ELSE scan[u]
      BY <1>1, <2>2 DEF PushScan
    <3>2. [scan[u] EXCEPT !.phase = "dropped"].phase = "dropped"
      <4>1. scan[u] \in ScanState OBVIOUS
      <4> QED BY <4>1 DEF ScanState
    <3>3. u \notin ToSet(scanList) \ ToSet(list) /\ scan[u].phase = "queued"
      BY <1>3, <3>1, <3>2
    <3> QED BY <3>3 DEF ScanHeard
  <2> QED BY <2>1, <2>2
<1>4. scanner'.pc # "asleep" /\ (scanner'.pc = "park" => scanWake')
  <2>1. WakeScanner BY DEF PushScan
  <2>2. CASE ScannerAt("asleep") /\ ScannerGoto("look")
    BY <2>2 DEF ScannerAt, ScannerGoto, ScannerState
  <2>3. CASE ~ScannerAt("asleep") /\ scanWake' = TRUE /\ UNCHANGED scanner
    BY <2>3 DEF ScannerAt
  <2> QED BY <2>1, <2>2, <2>3 DEF WakeScanner
<1> QED BY <1>2, <1>3, <1>4 DEF ScanHeard, ScannerAt

(* The worker sleeps only on a list without a request.                     *)
LEMMA WorkerHears ==
  ASSUME ScanInv, ScanHeard, ScannerStep
  PROVE  ScanHeard'
<1> USE DEF ScanInv, ScanTypes
<1>0. scanner \in ScannerState /\ scanner.job \in Scan BY DEF ScannerState
<1>1. CASE LookForScan
  <2>1. UNCHANGED <<scan, scanList, scanWake>> BY <1>1 DEF LookForScan
  <2>2. CASE Waiting = << >>
    <3>1. Elements(Waiting) = Elements(scanList) \cap {s \in Scan : scan[s].phase = "queued"}
      BY KeptLeaves DEF Waiting
    <3>2. Elements(Waiting) = {} BY <2>2, EmptyHasNone
    <3>3. \A s \in Scan : s \in ToSet(scanList) => s \in Elements(scanList)
      BY DEF ToSet, Elements
    <3>4. \A s \in Scan : scan[s].phase # "queued" BY <3>1, <3>2, <3>3 DEF ScanHeard
    <3> QED BY <2>1, <3>4 DEF ScanHeard
  <2>3. CASE Waiting # << >>
    <3>1. scanner'.pc = "start" BY <1>0, <1>1, <2>3 DEF LookForScan, ScannerState
    <3> QED BY <2>1, <3>1 DEF ScanHeard, ScannerAt
  <2> QED BY <2>2, <2>3
<1>2. CASE ParkScanner
  <2>1. UNCHANGED <<scan, scanList>> /\ ScannerAt("park") BY <1>2 DEF ParkScanner
  <2>2. CASE scanWake
    <3>1. scanner'.pc = "look" BY <1>0, <1>2, <2>2 DEF ParkScanner, ScannerGoto, ScannerState
    <3> QED BY <2>1, <3>1 DEF ScanHeard, ScannerAt
  <2>3. CASE ~scanWake BY <2>1, <2>3 DEF ScanHeard
  <2> QED BY <2>2, <2>3
<1>3. CASE StartScan
  <2>1. UNCHANGED scanList /\ scanner'.pc \in {"look", "begin"}
    BY <1>0, <1>3 DEF StartScan, ScannerGoto, ScannerRests, Resting, ScannerState
  <2>2. \A s \in Scan : scan'[s].phase = "queued" => scan[s].phase = "queued"
    <3>1. scan[scanner.job] \in ScanState BY <1>0
    <3>2. [scan[scanner.job] EXCEPT !.phase = "scanning"].phase = "scanning" BY <3>1 DEF ScanState
    <3>3. scan' = scan \/ scan' = [scan EXCEPT ![scanner.job] =
                                     [scan[scanner.job] EXCEPT !.phase = "scanning"]]
      BY <1>3 DEF StartScan
    <3> QED BY <1>0, <3>2, <3>3
  <2> QED BY <2>1, <2>2 DEF ScanHeard, ScannerAt
<1>4. CASE FinishScan
  <2>1. UNCHANGED scanList /\ scanner'.pc = "look"
    BY <1>4 DEF FinishScan, ScannerRests, Resting
  <2>2. \A s \in Scan : scan'[s].phase = "queued" => scan[s].phase = "queued"
    <3>1. scan[scanner.job] \in ScanState /\ scan'[scanner.job].phase # "queued"
      BY <1>0, <1>4 DEF FinishScan, ScanState
    <3>2. \A s \in Scan : s # scanner.job => scan'[s] = scan[s]
      BY <1>0, <1>4 DEF FinishScan
    <3> QED BY <3>1, <3>2
  <2> QED BY <2>1, <2>2 DEF ScanHeard, ScannerAt
<1>5. ASSUME UNCHANGED <<scan, scanList>>, scanner'.pc \in {"page", "insert", "guard", "finish"}
      PROVE  ScanHeard'
  BY <1>5 DEF ScanHeard, ScannerAt
<1>6. CASE BeginScan BY <1>0, <1>5, <1>6 DEF BeginScan, ScannerState
<1>7. CASE ScanFails BY <1>0, <1>5, <1>7 DEF ScanFails, ScannerEnds, ScannerState
<1>8. CASE AbortScan BY <1>0, <1>5, <1>8 DEF AbortScan, ScannerEnds, ScannerState
<1>9. CASE FetchPage BY <1>0, <1>5, <1>9 DEF FetchPage, ScannerGoto, ScannerState
<1>10. CASE InsertPage BY <1>0, <1>5, <1>10 DEF InsertPage, ScannerState
<1>11. CASE Mismatch BY <1>0, <1>5, <1>11 DEF Mismatch, ScannerEnds, ScannerState
<1>12. CASE Promote BY <1>0, <1>5, <1>12 DEF Promote, ScannerEnds, ScannerState
<1> QED
  BY <1>1, <1>2, <1>3, <1>4, <1>6, <1>7, <1>8, <1>9, <1>10, <1>11, <1>12 DEF ScannerStep

(* Whoever else moves asks for a scan, cancels one, or leaves the queue.   *)
LEMMA OthersAreHeard ==
  ASSUME IndexInv, ScanHeard, [QueueNext]_vars
  PROVE  ScanHeard'
<1> USE DEF IndexInv
<1>a. ASSUME UNCHANGED <<scan, scanList, scanWake, scanner>> PROVE ScanHeard'
  BY <1>a DEF ScanHeard, ScannerAt
<1>b. ASSUME NEW a \in Asker, AskStep(a) PROVE ScanHeard'
  <2>1. CASE PushScan(a) BY <2>1, PushIsHeard
  <2>2. CASE CheckScan(a) \/ ResolveFails(a) BY <1>a, <2>2 DEF CheckScan, ResolveFails
  <2> QED BY <1>b, <2>1, <2>2 DEF AskStep
<1>1. CASE ScannerStep BY <1>1, WorkerHears
<1>2. ASSUME NEW s \in Scan, CancelScan(s) PROVE ScanHeard'
  <2>1. UNCHANGED <<scanList, scanWake, scanner>> BY <1>2 DEF CancelScan
  <2>2. scan[s] \in ScanState BY DEF ScanInv, ScanTypes
  <2>3. \A u \in Scan : scan'[u].phase = "queued" => scan[u].phase = "queued"
    <3>1. /\ [scan[s] EXCEPT !.cancel = TRUE].phase = scan[s].phase
          /\ [scan[s] EXCEPT !.phase = "over"].phase = "over"
      BY <2>2 DEF ScanState
    <3>2. \/ scan' = [scan EXCEPT ![s] = [scan[s] EXCEPT !.cancel = TRUE]]
          \/ scan' = [scan EXCEPT ![s] = [scan[s] EXCEPT !.phase = "over"]]
      BY <1>2 DEF CancelScan
    <3> QED BY <3>1, <3>2 DEF ScanInv, ScanTypes
  <2> QED BY <2>1, <2>3 DEF ScanHeard, ScannerAt
<1>3. ASSUME NEW j \in Job, RunnerStep(j) PROVE ScanHeard'
  <2>1. CASE AskStep(j) BY <1>b, <2>1
  <2>2. CASE RunBegin(j) \/ RunIndex(j) \/ RunSave(j) \/ RunFinish(j) \/ RunRelease(j)
    BY <1>a, <2>2 DEF RunBegin, RunIndex, RunSave, RunFinish, RunRelease, Finish, Runs
  <2> QED BY <1>3, <2>1, <2>2 DEF RunnerStep
<1>4. CASE LoopStep
  BY <1>a, <1>4 DEF LoopStep, Look, Park, Acquire, Start, Skip, scanVars
<1>5. ASSUME NEW m \in Manual,
             ManualIndex(m) \/ ManualSave(m) \/ ManualScan(m) \/ AskStep(m)
      PROVE  ScanHeard'
  BY <1>a, <1>b, <1>5 DEF ManualIndex, ManualSave, ManualScan, Runs, Manual
<1>6. CASE \/ \E R \in SUBSET Repo : Discover(R)
           \/ CancelAll \/ \E j \in Job : CancelJob(j)
           \/ UNCHANGED vars
  BY <1>a, <1>6 DEF Discover, CancelAll, CancelJob, CancelJobs, scanVars, vars
<1> QED BY <1>1, <1>2, <1>3, <1>4, <1>5, <1>6 DEF QueueNext

(* A request for a scan stands in the list, and the worker that goes to    *)
(* sleep has looked at the list since (notify_one keeps a wake-up), so     *)
(* none is slept through, however requests, cancels and drops interleave.  *)
THEOREM ScansAreHeard == QueueSpec => [](RequestsListed /\ RequestsHeard)
<1>1. QueueInit => ScanHeard
  BY DEF QueueInit, HealthInit, ScanHeard
<1>2. IndexInv /\ ScanHeard /\ [QueueNext]_vars => ScanHeard'
  BY OthersAreHeard
<1>3. ScanHeard => RequestsListed /\ RequestsHeard
  BY DEF ScanHeard
<1> QED BY <1>1, <1>2, <1>3, IndexInvHolds, PTL DEF QueueSpec, QueueSafety
=============================================================================
