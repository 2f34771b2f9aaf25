--------------------------- MODULE SchemaUpgrades ---------------------------
(***************************************************************************)
(* The migrations that carried the data of the table "simulations" over to *)
(* "trials" (alembic/versions and app/core/db/migrations), in their order: *)
(* sessions are made unique per invitation, scenario versions are created  *)
(* and backfilled, the schema is reconciled, rebranded and unified.        *)
(*                                                                         *)
(* A database may have both tables: a seed script of newer code creates    *)
(* the tables its models name and are missing (metadata.create_all), and   *)
(* that code then writes to "trials".  A migration is one transaction; the *)
(* unification is shown in steps, and raising undoes them.                 *)
(***************************************************************************)
EXTENDS Integers, FiniteSets

CONSTANTS
  OldDatabases,   \* databases before any of the five migrations
  RepairedByHand  \* databases, half repaired, that the unification may find

VARIABLES
  database,     \* what the migrations read and write
  revision,     \* the migrations that were run
  unifying,     \* the step of run_upgrade or run_downgrade
  beforehand,   \* the database when the running migration began
  unified       \* the database when the unification was first finished

schemaVars == <<database, revision, unifying, beforehand, unified>>

-----------------------------------------------------------------------------
Null == 0
ParentTables == {"simulations", "trials"}
ChildTables == {"versions", "sessions"}
ParentColumns == {"simulation", "trial"}
TrialColumns == {"recruiter", "partner", "aside", "extra"}

(* A row of either parent table.  body stands for the columns the          *)
(* unification compares, aside for those of newer code it does not compare *)
(* (company_context, the windows of the days, ...), extra for one that     *)
(* newer code has not; recruiter and partner for terminated_by_..., under  *)
(* the old and the new name.                                               *)
ParentRows == [id : Nat \ {Null}, body : Nat, recruiter : Nat, partner : Nat,
               aside : Nat, extra : Nat, active : Nat, over : BOOLEAN]

(* A scenario version, first when its index is 1, and a session, with what *)
(* hangs on it; a parent is named by one column or the other.              *)
VersionLinks == [id : Nat \ {Null}, simulation : Nat, trial : Nat, first : BOOLEAN]
SessionLinks == [id : Nat, simulation : Nat, trial : Nat, email : {"a", "b"},
                 version : Nat, submissions : Nat, profile : BOOLEAN]

ForeignKeys == [name : {"old", "new", "other"}, column : ParentColumns,
                to : ParentTables]

Databases ==
  [tables : SUBSET ParentTables,
   rows : [ParentTables -> SUBSET ParentRows],
   columns : [ParentTables -> SUBSET TrialColumns],
   links : [ChildTables -> SUBSET ParentColumns],
   versions : SUBSET VersionLinks,
   sessions : SUBSET SessionLinks,
   keys : [ChildTables -> SUBSET ForeignKeys]]

-----------------------------------------------------------------------------
(* Reading a database. *)

Ids(d, table) == {row.id : row \in d.rows[table]}
Split(d) == d.tables = ParentTables
Rows(d, child) == IF child = "versions" THEN d.versions ELSE d.sessions
Coalesce(a, b) == IF a # Null THEN a ELSE b
Conflict(a, b) == a # Null /\ b # Null /\ a # b

WithRows(d, child, rows) ==
  IF child = "versions" THEN [d EXCEPT !.versions = rows] ELSE [d EXCEPT !.sessions = rows]

(* resolve_trial_parent_table_name: which of the tables is there; both     *)
(* raise.                                                                  *)
ParentOf(d) == CHOOSE table \in d.tables : TRUE

(* The trial a child row names, in one column or the other, and all such. *)
Owner(row) == Coalesce(row.trial, row.simulation)
Links(d, child) == {<<row.id, Owner(row)>> : row \in Rows(d, child)}

(* The version of index 1 of a trial, and a new one. *)
Firsts(d, id) == {v \in d.versions : v.first /\ v.trial = id}
NewVersion(id) == [id |-> 10 + id, simulation |-> Null, trial |-> id, first |-> TRUE]

-----------------------------------------------------------------------------
(* Which databases the migrations may find. *)

(* What the database itself sees to: nothing is stored in a table or a     *)
(* column that is not there, and a foreign key has its column.             *)
TableFits(d, table) ==
  /\ table \notin d.tables => d.rows[table] = {} /\ d.columns[table] = {}
  /\ table \in d.tables => d.columns[table] \cap {"recruiter", "partner"} # {}
  /\ \A row \in d.rows[table], column \in TrialColumns \ d.columns[table] : row[column] = Null
ChildFits(d, child) ==
  /\ \A row \in Rows(d, child), column \in ParentColumns \ d.links[child] : row[column] = Null
  /\ \A key \in d.keys[child] : key.column \in d.links[child]
FitsSchema(d) ==
  /\ d.tables # {} /\ d.links["sessions"] # {}
  /\ \A table \in ParentTables : TableFits(d, table)
  /\ \A child \in ChildTables : ChildFits(d, child)

(* What the code that wrote the rows sees to: the active version of a      *)
(* trial, and the version of a session, belong to that trial.              *)
OwnVersions(d) ==
  /\ \A table \in ParentTables : \A row \in d.rows[table] :
       row.active # Null => <<row.active, row.id>> \in Links(d, "versions")
  /\ \A s \in d.sessions : s.version # Null => <<s.version, Owner(s)>> \in Links(d, "versions")

(* Before the migrations there is the old table, with a trial for each     *)
(* session; one repaired by hand has its versions.                         *)
ASSUME SchemaAssumption ==
  /\ \A d \in OldDatabases \cup RepairedByHand :
       d \in Databases /\ FitsSchema(d) /\ OwnVersions(d)
  /\ \A d \in OldDatabases :
       /\ d.tables = {"simulations"}
       /\ \A s \in d.sessions : s.trial = Null /\ s.simulation \in Ids(d, "simulations")
  /\ \A d \in RepairedByHand : d.links["versions"] # {}

SchemaTypeOK ==
  /\ database \in Databases
  /\ revision \in 0..5
  /\ unifying \in {"no", "parents", "children", "uniques", "keys", "drop", "backfill", "failed"}

SchemaInit ==
  /\ \/ database \in OldDatabases /\ revision = 0
     \/ database \in RepairedByHand /\ revision = 4
  /\ unifying = "no"
  /\ beforehand = database /\ unified = {}

-----------------------------------------------------------------------------
(* The migrations up to the rebranding. *)

(* One migration as a whole; or it raises, and nothing changes. *)
Migrate(from, possible, d) ==
  /\ revision = from /\ unifying = "no"
  /\ IF possible THEN database' = d /\ revision' = from + 1 /\ UNCHANGED unifying
     ELSE unifying' = "failed" /\ UNCHANGED <<database, revision>>
  /\ UNCHANGED <<beforehand, unified>>

(* _dedupe_candidate_sessions: the last session of an invitation takes the *)
(* submissions and the profile of the others; it can have one profile.     *)
Twins(d, s) == {t \in d.sessions : t.simulation = s.simulation /\ t.email = s.email}
Kept(d) == {s \in d.sessions : \A t \in Twins(d, s) : t.id <= s.id}
DedupeSessions ==
  LET d == database
      Merged(s) == [s EXCEPT
        !.submissions = IF \E t \in Twins(d, s) : t # s
                        THEN s.submissions + (CHOOSE t \in Twins(d, s) : t # s).submissions
                        ELSE @,
        !.profile = \E t \in Twins(d, s) : t.profile]
  IN Migrate(0, \A s \in d.sessions : Cardinality({t \in Twins(d, s) : t.profile}) <= 1,
             [d EXCEPT !.sessions = {Merged(s) : s \in Kept(d)}])

(* create_schema: the new table must not be there. *)
Created(d) ==
  [d EXCEPT !.links["versions"] = {"trial"},
            !.keys["versions"] = {[name |-> "other", column |-> "trial", to |-> ParentOf(d)]}]

(* run_backfill: a version for every trial, and every session pinned to    *)
(* that of its trial.                                                      *)
Backfilled(d) ==
  LET parent == ParentOf(d)
  IN [d EXCEPT !.versions = {NewVersion(id) : id \in Ids(d, parent)},
               !.rows[parent] = {[row EXCEPT !.active = 10 + row.id] : row \in @},
               !.sessions = {[s EXCEPT !.version = 10 + Owner(s)] : s \in @}]

CreateVersions ==
  Migrate(1, ~Split(database) /\ database.links["versions"] = {}, Backfilled(Created(database)))

(* ensure_scenario_versions_backfill: only what is missing, and a session  *)
(* gets the active version of its trial.                                   *)
Completed(d) ==
  LET parent == ParentOf(d)
      missing == {id \in Ids(d, parent) : Firsts(d, id) = {}}
      versions == d.versions \cup {NewVersion(id) : id \in missing}
      First(id) == (CHOOSE v \in versions : v.first /\ v.trial = id).id
      rows == {[row EXCEPT !.active = Coalesce(@, First(row.id))] : row \in d.rows[parent]}
      Active(id) == (CHOOSE row \in rows : row.id = id).active
  IN [d EXCEPT !.versions = versions, !.rows[parent] = rows,
               !.sessions = {[s EXCEPT !.version =
                                Coalesce(s.version, Active(Owner(s)))] : s \in @}]

ReconcileSchema == Migrate(2, ~Split(database), Completed(database))

Renamed(rows, from, to) ==
  {[row EXCEPT ![to] = row[from], ![from] = Null] : row \in rows}

(* The foreign keys follow a table, or a column, that is renamed. *)
MoveParent(d, from, to) ==
  [d EXCEPT !.tables = {to},
            !.rows = [d.rows EXCEPT ![to] = d.rows[from], ![from] = {}],
            !.columns = [d.columns EXCEPT ![to] = d.columns[from], ![from] = {}],
            !.keys = [c \in ChildTables |->
              {[key EXCEPT !.to = IF key.to = from THEN to ELSE key.to] : key \in d.keys[c]}]]

RenameColumn(d, table, from, to) ==
  IF from \in d.columns[table] /\ to \notin d.columns[table]
  THEN [d EXCEPT !.rows[table] = Renamed(@, from, to), !.columns[table] = (@ \ {from}) \cup {to}]
  ELSE d

RenameLink(d, child, from, to) ==
  IF d.links[child] = {from}
  THEN [WithRows(d, child, Renamed(Rows(d, child), from, to)) EXCEPT
          !.links[child] = {to},
          !.keys[child] = {[key EXCEPT !.column = IF key.column = from THEN to ELSE key.column] : key \in @}]
  ELSE d

(* _rename_trial_table_and_columns, which leaves a split database split. *)
Rebranded(d) ==
  LET moved == IF d.tables = {"simulations"} THEN MoveParent(d, "simulations", "trials") ELSE d
  IN RenameLink(RenameColumn(moved, "trials", "recruiter", "partner"),
                "sessions", "simulation", "trial")

RebrandSchema == Migrate(3, TRUE, Rebranded(database))

-----------------------------------------------------------------------------
(* The unification. *)

(* Both columns named the user, and not the same one                       *)
(* (_canonicalize_parent_legacy_mapped_columns).                           *)
ParentConflict(d) ==
  \E row \in d.rows["trials"] : Conflict(row.recruiter, row.partner)

ParentCanonical(d) ==
  IF "recruiter" \notin d.columns["trials"] THEN d
  ELSE [d EXCEPT
    !.rows["trials"] = {[row EXCEPT !.partner = Coalesce(row.partner, row.recruiter), !.recruiter = Null]
                        : row \in @},
    !.columns["trials"] = (@ \ {"recruiter"}) \cup {"partner"}]

(* _assert_no_non_null_unknown_legacy_parent_data: of the columns the new  *)
(* table has not, or without one of those its models name                  *)
(* (_CANONICAL_PARENT_COLUMN_ALLOWLIST), none but the mapped has a value.  *)
CanonicalColumns(d) == IF "trials" \in d.tables THEN d.columns["trials"] ELSE {"partner", "aside"}
UnknownData(d) ==
  \E row \in d.rows["simulations"] :
    \E column \in {"partner", "aside", "extra"} \ CanonicalColumns(d) : row[column] # Null

(* _assert_split_parent_mapping_is_safe. *)
MappingUnsafe(d) ==
  \/ "recruiter" \in d.columns["simulations"] /\ "partner" \notin d.columns["trials"]
  \/ \E row \in d.rows["simulations"] : Conflict(row.recruiter, row.partner)
  \/ UnknownData(d)

(* _assert_safe_split_parent_state: tables with rows have the same ones,   *)
(* as far as _PARENT_COMPARISON_COLUMN_CANDIDATES go.                      *)
Diverges(d) ==
  /\ d.rows["simulations"] # {} /\ d.rows["trials"] # {}
  /\ \/ Ids(d, "simulations") # Ids(d, "trials")
     \/ \E row \in d.rows["simulations"], kept \in d.rows["trials"] :
          /\ row.id = kept.id
          /\ \/ <<row.body, row.active, row.over>> # <<kept.body, kept.active, kept.over>>
             \/ /\ "partner" \in d.columns["trials"]
                /\ d.columns["simulations"] \cap {"recruiter", "partner"} # {}
                /\ Coalesce(row.partner, row.recruiter) # kept.partner

(* _derive_version_one_scenario_ids_for_parent_ids, over both columns. *)
FirstOf(d, id) == {v.id : v \in {w \in d.versions : w.first /\ id \in {w.trial, w.simulation}}}

(* _populate_required_active_scenario_ids_for_merge: one version of index  *)
(* 1 for a trial whose status needs an active one.                         *)
NeedsVersion(row) == row.over /\ row.active = Null
Derivable(d) ==
  \A row \in d.rows["simulations"] : NeedsVersion(row) =>
    /\ Cardinality(FirstOf(d, row.id)) = 1
    /\ \A v \in d.versions : ~Conflict(v.trial, v.simulation)

(* Mutation: the rows go over as they are, without the mapped column. *)
MergedAsIs(d) ==
  [d EXCEPT !.rows["trials"] = {[row EXCEPT !.recruiter = Null] : row \in d.rows["simulations"]}]

(* _merge_missing_trials_rows_from_legacy into an empty table. *)
Merged(d) ==
  [d EXCEPT !.rows["trials"] =
     {[row EXCEPT !.partner = Coalesce(row.partner, row.recruiter), !.recruiter = Null,
                  !.active = IF NeedsVersion(row) THEN CHOOSE v \in FirstOf(d, row.id) : TRUE
                             ELSE row.active]
        : row \in d.rows["simulations"]}]

(* A step of the unification, or its failure, which restores the database. *)
Unify(at, possible, d, next) ==
  /\ unifying = at
  /\ IF possible THEN database' = d /\ unifying' = next
     ELSE database' = beforehand /\ unifying' = "failed"
  /\ UNCHANGED <<revision, beforehand, unified>>

BeginUnification ==
  /\ revision = 4 /\ unifying = "no"
  /\ unifying' = "parents" /\ beforehand' = database
  /\ UNCHANGED <<database, revision, unified>>

(* run_upgrade up to one parent table with the data of both; an empty one  *)
(* is repaired (_repair_split_parent_when_canonical_empty).                *)
UnifyParents ==
  LET d == ParentCanonical(database)
      empty == d.rows["trials"] = {} /\ d.rows["simulations"] # {}
      moved == MoveParent(d, "simulations", "trials")
  IN CASE d.tables = {"trials"} ->
            Unify("parents", ~ParentConflict(database), d, "children")
       [] Split(d) ->
            Unify("parents",
              ~ParentConflict(database) /\ ~MappingUnsafe(d) /\ ~Diverges(d) /\ (empty => Derivable(d)),
              IF empty THEN Merged(d) ELSE d, "children")
       [] OTHER ->
            Unify("parents", ~UnknownData(d) /\ ~ParentConflict(moved),
              [ParentCanonical(moved) EXCEPT !.columns["trials"] = @ \ {"extra"}], "children")

(* _canonicalize_child_trial_fk_column. *)
ChildCanonical(d, child) ==
  IF d.links[child] = ParentColumns
  THEN [WithRows(d, child, {[row EXCEPT !.trial = Coalesce(row.trial, row.simulation),
                                         !.simulation = Null] : row \in Rows(d, child)}) EXCEPT
          !.links[child] = {"trial"},
          !.keys[child] = {key \in @ : key.column # "simulation"}]
  ELSE RenameLink(d, child, "simulation", "trial")

ChildConflict(d, child) ==
  d.links[child] = ParentColumns /\ \E row \in Rows(d, child) : Conflict(row.trial, row.simulation)

(* _drop_trial_foreign_keys_to_legacy_parent. *)
WithoutOldKeys(d, child) ==
  [d EXCEPT !.keys[child] = {key \in @ : key.column # "trial" \/ key.to # "simulations"}]

UnifyChildren ==
  LET d == database
      versions == WithoutOldKeys(ChildCanonical(d, "versions"), "versions")
  IN Unify("children", \A child \in ChildTables : ~ChildConflict(d, child),
           WithoutOldKeys(ChildCanonical(versions, "sessions"), "sessions"), "uniques")

(* _ensure_candidate_session_invite_uniques,                               *)
(* _ensure_scenario_versions_unique: the constraints are there, or are     *)
(* created over rows that obey them.                                       *)
SessionsUnique(d) ==
  \A s, t \in d.sessions : s.trial = t.trial /\ s.trial # Null /\ s.email = t.email => s = t
VersionsUnique(d) ==
  \A v, w \in d.versions : v.trial = w.trial /\ v.trial # Null /\ v.first /\ w.first => v = w

UnifyUniques == Unify("uniques", SessionsUnique(database) /\ VersionsUnique(database), database, "keys")

(* Mutation: a foreign key of the name is taken for the right one. *)
KeptByName(d, child, column, name, parent) ==
  IF \E key \in d.keys[child] : key.name = name THEN d
  ELSE [d EXCEPT !.keys[child] = @ \cup {[name |-> name, column |-> column, to |-> parent]}]

(* _ensure_fk: of the keys from the column to the parent one stays, under  *)
(* this name; another key of the name goes.                                *)
WithKey(d, child, column, name, parent) ==
  [d EXCEPT !.keys[child] =
     {key \in @ : key.name # name /\ <<key.column, key.to>> # <<column, parent>>}
       \cup {[name |-> name, column |-> column, to |-> parent]}]

(* Every row of a child names a row of the parent, or the key fails. *)
Dangling(d, column, parent) ==
  \E child \in ChildTables : \E row \in Rows(d, child) :
    row[column] # Null /\ row[column] \notin Ids(d, parent)

(* _ensure_required_foreign_keys. *)
UnifyKeys ==
  Unify("keys",
        /\ ~Dangling(database, "trial", "trials")
        /\ \A row \in database.rows["trials"] :
             row.active # Null => \E v \in database.versions : v.id = row.active,
        WithKey(WithKey(database, "versions", "trial", "new", "trials"),
                "sessions", "trial", "new", "trials"), "drop")

(* _drop_legacy_parent_table_if_present, unless a key still names it. *)
DropLegacy ==
  Unify("drop", \A child \in ChildTables : \A key \in database.keys[child] : key.to = "trials",
        [database EXCEPT !.tables = {"trials"}, !.rows["simulations"] = {}, !.columns["simulations"] = {}],
        "backfill")

(* _backfill_scenario_versions_and_links: a session without a version gets *)
(* the first one of its trial.                                             *)
Relinked(d) ==
  LET missing == {id \in Ids(d, "trials") : Firsts(d, id) = {}}
      versions == d.versions \cup {NewVersion(id) : id \in missing}
      First(id) == (CHOOSE v \in versions : v.first /\ v.trial = id).id
  IN IF \E child \in ChildTables : d.links[child] = {} THEN d
     ELSE [d EXCEPT !.versions = versions,
            !.rows["trials"] = {[row EXCEPT !.active = Coalesce(row.active, First(row.id))] : row \in @},
            !.sessions = {IF s.trial = Null THEN s
                          ELSE [s EXCEPT !.version = Coalesce(s.version, First(s.trial))] : s \in @}]

FinishUnification ==
  /\ unifying = "backfill"
  /\ database' = Relinked(database)
  /\ unifying' = "no" /\ revision' = 5
  /\ unified' = IF unified = {} THEN {database'} ELSE unified
  /\ UNCHANGED beforehand

(* run_downgrade. *)
ChildLegacy(d, child) ==
  IF d.links[child] = {} THEN d
  ELSE WithKey(RenameLink(d, child, "trial", "simulation"), child, "simulation", "old", "simulations")

DowngradeUnification ==
  /\ revision = 5 /\ unifying = "no"
  /\ database' = ChildLegacy(ChildLegacy(MoveParent(database, "trials", "simulations"), "versions"), "sessions")
  /\ revision' = 4
  /\ UNCHANGED <<unifying, beforehand, unified>>

(* downgrade of the rebranding.  After that of the unification there is no *)
(* table "trials" any more, whose column it would rename.                  *)
Unbranded(d) ==
  LET linked == RenameLink(d, "sessions", "trial", "simulation")
      renamed == RenameColumn(linked, "trials", "partner", "recruiter")
  IN IF d.tables = {"trials"} THEN MoveParent(renamed, "trials", "simulations") ELSE renamed

DowngradeRebranding ==
  /\ revision = 4 /\ unifying = "no"
  /\ database' = Unbranded(database)
  /\ revision' = 3
  /\ UNCHANGED <<unifying, beforehand, unified>>

-----------------------------------------------------------------------------
(* Newer code around the migrations. *)

(* metadata.create_all of a seed script creates the tables that are missing. *)
CreateAll ==
  /\ revision < 5 /\ unifying = "no" /\ "trials" \notin database.tables
  /\ unified = {}
  /\ database' = [database EXCEPT
       !.tables = ParentTables, !.columns["trials"] = {"partner", "aside"},
       !.links["versions"] = IF @ = {} THEN {"trial"} ELSE @,
       !.keys["versions"] = IF database.links["versions"] = {}
                            THEN {[name |-> "new", column |-> "trial", to |-> "trials"]} ELSE @]
  /\ UNCHANGED <<revision, unifying, beforehand, unified>>

(* That code writes a draft to its own table. *)
WriteDraft ==
  /\ Split(database) /\ unifying = "no" /\ unified = {}
  /\ database.rows["trials"] = {} /\ {"partner", "aside"} \subseteq database.columns["trials"]
  /\ database' = [database EXCEPT !.rows["trials"] =
       {[id |-> 1, body |-> 1, recruiter |-> Null, partner |-> Null, aside |-> 1,
         extra |-> Null, active |-> Null, over |-> FALSE]}]
  /\ UNCHANGED <<revision, unifying, beforehand, unified>>

-----------------------------------------------------------------------------
SchemaNext ==
  \/ DedupeSessions \/ CreateVersions \/ ReconcileSchema \/ RebrandSchema
  \/ BeginUnification \/ UnifyParents \/ UnifyChildren \/ UnifyUniques \/ UnifyKeys
  \/ DropLegacy \/ FinishUnification \/ DowngradeUnification
  \/ DowngradeRebranding \/ CreateAll \/ WriteDraft

SchemaSpec == SchemaInit /\ [][SchemaNext]_schemaVars

-----------------------------------------------------------------------------
(* Properties. *)

(* What a trial row says, however it was stored, and all the trials.       *)
Facts(row) == <<row.id, row.body, Coalesce(row.partner, row.recruiter), row.over>>
AllFacts(d) == {Facts(row) : row \in d.rows["simulations"] \cup d.rows["trials"]}

(* With the columns that are not compared, and a trial of both tables as   *)
(* newer code wrote it.                                                    *)
WholeFacts(row) == <<Facts(row), row.aside, row.extra>>
Standing(d) ==
  d.rows["trials"] \cup {row \in d.rows["simulations"] : row.id \notin Ids(d, "trials")}
AllWhole(d) == {WholeFacts(row) : row \in Standing(d)}

(* A finished unification has lost no trial, changed none in what it       *)
(* compares, and taken no version or session from its trial; in the other  *)
(* columns a trial is what the new table said or, had it none, the old;    *)
(* every trial that is not new has an active version and every session a   *)
(* version, of the trial it belongs to; and one foreign key of each child  *)
(* leads to "trials" (run_upgrade: whatever it sees that it cannot carry   *)
(* over it refuses).                                                       *)
UnificationLosesNothing ==
  revision = 5 =>
    /\ AllFacts(beforehand) = {Facts(row) : row \in database.rows["trials"]}
    /\ AllWhole(beforehand) = {WholeFacts(row) : row \in database.rows["trials"]}
    /\ \A child \in ChildTables :
         /\ Links(beforehand, child) \subseteq Links(database, child)
         /\ {key \in database.keys[child] : key.column = "trial"}
              = {[name |-> "new", column |-> "trial", to |-> "trials"]}
    /\ \A row \in database.rows["trials"] :
         \E v \in database.versions : v.id = row.active /\ v.trial = row.id
    /\ \A s \in database.sessions : s.trial # Null =>
         \E v \in database.versions : v.id = s.version /\ v.trial = s.trial

(* Nothing of the old table is left behind, in any column.  This fails:    *)
(* of two rows that differ only in columns that are not compared the old   *)
(* one goes with its table (_drop_legacy_parent_table_if_present).         *)
NothingLeftBehind ==
  revision = 5 =>
    {WholeFacts(row) : row \in beforehand.rows["simulations"]}
      \subseteq {WholeFacts(row) : row \in database.rows["trials"]}

(* Downgrades undone by other upgrades leave the database as the first     *)
(* upgrade did, but for a column that newer code has not: only the way     *)
(* over the old table drops it (run_downgrade, run_upgrade).               *)
Known(d) == [d EXCEPT !.columns["trials"] = @ \ {"extra"}]
UpgradeIsRepeatable == revision = 5 => {Known(d) : d \in unified} = {Known(database)}

(* The unification keeps all there was, each time it is run                *)
(* (run_upgrade, run_downgrade).                                           *)
UnificationKeepsAll == UnificationLosesNothing /\ UpgradeIsRepeatable
=============================================================================
