----------------------------- MODULE Migrations -----------------------------
(***************************************************************************)
(* DBStore.Migrate (store/database.go:53-392), run whenever a process      *)
(* opens the store.  Every statement commits on its own: a process can die *)
(* between any two, and with Postgres two replicas that start together     *)
(* interleave.  What is migrated:                                          *)
(*   - agent_files gains user_id in its key: SQLite rebuilds the table,    *)
(*     Postgres alters it in three statements;                             *)
(*   - agents.model and the skills.agentEntries row are split into one     *)
(*     configs row per agent (kinds "model" and "entries" below);          *)
(*   - rows of agent_files without a user move to the agent's owner, unless*)
(*     the owner has a row already, and are then deleted.                  *)
(* One file name is modelled, and contents by where they came from.  The   *)
(* inserts of the second kind write the integer 1 into a BOOLEAN column,   *)
(* which Postgres refuses.  The never read template_id column is left out. *)
(***************************************************************************)
EXTENDS Naturals, FiniteSets

CONSTANTS
  Processes,     \* processes that open the store; SQLite has one of them
  Owned,         \* agents with an owner
  Orphans,       \* agent ids of files whose agent is gone
  MaxDeaths      \* bound: processes that die while migrating

VARIABLES
  dialect,       \* "sqlite" or "postgres"
  table,         \* the shape of agent_files
  rebuilt,       \* agent_files_new: absent, or its rows
  shared,        \* agents with a row of agent_files without a user
  owners,        \* agent -> contents of the owner's rows
  legacy,        \* kind -> the old place: gone, or agents with a value there
  configs,       \* kind -> agent -> the configs row
  at,            \* process -> the statement it is about to run
  todo,          \* process -> what it has read and still has to move
  deaths,
  given,         \* ghost: agents whose shared row was there at first
  wish,          \* ghost: agent -> what its owner last did with the file
  torn           \* ghost: a process died while changing the table's shape

vars == <<dialect, table, rebuilt, shared, owners, legacy, configs, at, todo,
          deaths, given, wish, torn>>

Agents == Owned \cup Orphans
LegacyKinds == {"model", "entries"}
Gone == {"gone"}                  \* no such table, column or row any more
Shapes == {"absent", "old", "added", "keyless", "wide"}
Steps == {"down", "tables", "files", "create", "copy", "dropOld", "rename",
          "add", "dropKey", "addKey", "read", "move", "drop", "up"}
Changing == {"copy", "dropOld", "rename", "dropKey", "addKey"}
Stage == [of : {"none", "model", "entries", "shared"}, agents : SUBSET Agents]
NoWork == [of |-> "none", agents |-> {}]

TypeOK ==
  /\ dialect \in {"sqlite", "postgres"} /\ table \in Shapes
  /\ rebuilt = Gone \/ rebuilt \subseteq Agents
  /\ shared \subseteq Agents /\ given \subseteq Agents
  /\ wish \in [Owned -> {"none", "own", "edited", "deleted"}]
  /\ owners \in [Owned -> SUBSET {"own", "moved", "edited"}]
  /\ \A k \in LegacyKinds : legacy[k] = Gone \/ legacy[k] \subseteq Owned
  /\ configs \in [LegacyKinds -> [Owned -> {"none", "moved", "edited"}]]
  /\ at \in [Processes -> Steps] /\ todo \in [Processes -> Stage]
  /\ deaths \in 0..MaxDeaths /\ torn \in BOOLEAN

Init ==
  /\ dialect \in {"sqlite", "postgres"}
  /\ table \in {"old", "wide"}
  /\ shared \in SUBSET Agents /\ given = shared
  /\ owners \in [Owned -> {{}, {"own"}}]
  /\ table = "old" => \A a \in Owned : owners[a] = {}
  /\ \E some \in {Gone, {}, Owned} : legacy = [k \in LegacyKinds |-> some]
  /\ configs = [k \in LegacyKinds |-> [a \in Owned |-> "none"]]
  /\ rebuilt = Gone /\ wish = [a \in Owned |-> IF owners[a] = {} THEN "none" ELSE "own"]
  /\ torn = FALSE /\ deaths = 0
  /\ at = [p \in Processes |-> "down"] /\ todo = [p \in Processes |-> NoWork]

-----------------------------------------------------------------------------
data == <<table, rebuilt, shared, owners, legacy, configs>>
ghosts == <<deaths, given, wish, torn>>

To(p, step) == at' = [at EXCEPT ![p] = step]
Runs(p, step, next) == at[p] = step /\ To(p, next)
Fails(p) == To(p, "down") /\ todo' = [todo EXCEPT ![p] = NoWork] /\ UNCHANGED data

Open(p) ==
  /\ at[p] = "down" /\ (dialect = "sqlite" => p = CHOOSE q \in Processes : TRUE)
  /\ To(p, "tables")
  /\ UNCHANGED <<dialect, data, todo, ghosts>>

\* CREATE TABLE IF NOT EXISTS: a missing agent_files is created empty.
CreateTables(p) ==
  /\ Runs(p, "tables", "files")
  /\ table' = IF table = "absent" THEN "wide" ELSE table
  /\ UNCHANGED <<dialect, rebuilt, shared, owners, legacy, configs, todo, ghosts>>

First(k) == [of |-> k, agents |-> {}]
Reads(p, k) == todo' = [todo EXCEPT ![p] = First(k)]

\* migrateAgentFilesUserID: the column is there, or the table is changed.
CheckFiles(p) ==
  /\ at[p] = "files"
  /\ IF table = "old"
     THEN To(p, IF dialect = "sqlite" THEN "create" ELSE "add") /\ UNCHANGED todo
     ELSE To(p, "read") /\ Reads(p, "model")
  /\ UNCHANGED <<dialect, data, ghosts>>

RebuildSQLite(p) ==
  /\ \/ /\ Runs(p, "create", "copy") /\ rebuilt = Gone
        /\ rebuilt' = {} /\ UNCHANGED <<table, shared, todo>>
     \/ /\ Runs(p, "copy", "dropOld")
        /\ rebuilt' = shared /\ UNCHANGED <<table, shared, todo>>
     \/ /\ Runs(p, "dropOld", "rename")
        /\ table' = "absent" /\ shared' = {} /\ UNCHANGED <<rebuilt, todo>>
     \/ /\ Runs(p, "rename", "read")
        /\ table' = "wide" /\ shared' = rebuilt /\ rebuilt' = Gone
        /\ Reads(p, "model")
  /\ UNCHANGED <<dialect, owners, legacy, configs, ghosts>>

AlterPostgres(p) ==
  /\ \/ Runs(p, "add", "dropKey") /\ table = "old" /\ table' = "added"
        /\ UNCHANGED todo
     \/ Runs(p, "dropKey", "addKey") /\ table' = "keyless" /\ UNCHANGED todo
     \/ /\ Runs(p, "addKey", "read") /\ \A a \in Owned : Cardinality(owners[a]) < 2
        /\ table' = "wide" /\ Reads(p, "model")
  /\ UNCHANGED <<dialect, rebuilt, shared, owners, legacy, configs, ghosts>>

\* The table left behind by a process that died, or a column another added.
ChangeRefused(p) ==
  /\ \/ at[p] = "create" /\ rebuilt # Gone
     \/ at[p] = "add" /\ table # "old"
  /\ Fails(p) /\ UNCHANGED <<dialect, ghosts>>

-----------------------------------------------------------------------------
(* Moving what is in an old place: read it, insert agent by agent what is  *)
(* not there yet, then drop the old place.                                 *)

NextKind(k) == IF k = "model" THEN "entries" ELSE "shared"

Read(p) ==
  LET k == todo[p].of IN
  /\ at[p] = "read"
  /\ IF k # "shared" /\ legacy[k] = Gone
     THEN Reads(p, NextKind(k)) /\ UNCHANGED at
     ELSE /\ To(p, "move")
          /\ todo' = [todo EXCEPT ![p].agents =
                        IF k = "shared" THEN shared ELSE legacy[k]]
  /\ UNCHANGED <<dialect, data, ghosts>>

Done(p, a) == todo' = [todo EXCEPT ![p].agents = @ \ {a}]

\* The probe and the insert are two statements, but an insert that finds the
\* row meanwhile fails on its key like a probe made too early.
MoveSetting(p, a) ==
  LET k == todo[p].of IN
  /\ at[p] = "move" /\ k \in LegacyKinds /\ a \in todo[p].agents
  /\ IF configs[k][a] # "none" THEN Done(p, a) /\ UNCHANGED <<at, data>>
     ELSE IF dialect = "postgres" THEN Fails(p)
     ELSE /\ configs' = [configs EXCEPT ![k][a] = "moved"]
          /\ Done(p, a) /\ UNCHANGED <<at, table, rebuilt, shared, owners, legacy>>
  /\ UNCHANGED <<dialect, ghosts>>

\* The key an insert for a's owner would meet: with the old key (agent, file)
\* that of the shared row, with the new one that of the owner's own row.
Collides(a) ==
  \/ table = "added" /\ a \in shared
  \/ table = "wide" /\ owners[a] # {}

Reparented(p, a, contents) ==
  /\ owners' = [owners EXCEPT ![a] = contents]
  /\ Done(p, a) /\ UNCHANGED <<at, table, rebuilt, shared, legacy, configs>>

\* A faulty variant: the insert is an upsert, as SaveAgentFile's is.
Upsert(p, a) == Reparented(p, a, {"moved"})

Insert(p, a) ==
  IF Collides(a) THEN Fails(p) ELSE Reparented(p, a, owners[a] \cup {"moved"})

\* Only when the probe finds no row of the owner is one inserted.
Reparent(p, a) ==
  /\ at[p] = "move" /\ todo[p].of = "shared" /\ a \in todo[p].agents
  /\ IF a \in Orphans \/ owners[a] # {} THEN Done(p, a) /\ UNCHANGED <<at, data>>
     ELSE Insert(p, a)
  /\ UNCHANGED <<dialect, ghosts>>

\* Another process, or an owner it serves, inserted between probe and insert.
ReparentLate(p, a) ==
  /\ at[p] = "move" /\ todo[p].of = "shared" /\ a \in todo[p].agents \cap Owned
  /\ owners[a] # {} /\ dialect = "postgres" /\ wish[a] # "own"
  /\ Insert(p, a)
  /\ UNCHANGED <<dialect, ghosts>>

DropOldPlace(p) ==
  LET k == todo[p].of IN
  /\ at[p] = "move" /\ todo[p].agents = {}
  /\ IF k = "shared"
     THEN shared' = {} /\ To(p, "up") /\ todo' = [todo EXCEPT ![p] = NoWork]
          /\ UNCHANGED legacy
     ELSE legacy' = [legacy EXCEPT ![k] = Gone] /\ To(p, "read")
          /\ Reads(p, NextKind(k)) /\ UNCHANGED shared
  /\ UNCHANGED <<dialect, table, rebuilt, owners, configs, ghosts>>

-----------------------------------------------------------------------------
(* What the program does to the same rows once it is up.                   *)

OwnerSaves(p, a) ==
  /\ at[p] = "up" /\ table = "wide"
  /\ owners' = [owners EXCEPT ![a] = {"edited"}]
  /\ wish' = [wish EXCEPT ![a] = "edited"]
  /\ UNCHANGED <<dialect, table, rebuilt, shared, legacy, configs, at, todo,
                 deaths, given, torn>>

OwnerDeletes(p, a) ==
  /\ at[p] = "up" /\ owners[a] # {}
  /\ owners' = [owners EXCEPT ![a] = {}]
  /\ wish' = [wish EXCEPT ![a] = "deleted"]
  /\ UNCHANGED <<dialect, table, rebuilt, shared, legacy, configs, at, todo,
                 deaths, given, torn>>

OwnerSets(p, k, a) ==
  /\ at[p] = "up"
  /\ configs' = [configs EXCEPT ![k][a] = "edited"]
  /\ UNCHANGED <<dialect, table, rebuilt, shared, owners, legacy, at, todo, ghosts>>

Dies(p) ==
  /\ at[p] # "down" /\ deaths < MaxDeaths
  /\ deaths' = deaths + 1
  /\ torn' = (torn \/ at[p] \in Changing)
  /\ To(p, "down") /\ todo' = [todo EXCEPT ![p] = NoWork]
  /\ UNCHANGED <<dialect, data, given, wish>>

Next ==
  \E p \in Processes :
    \/ Open(p) \/ CreateTables(p) \/ CheckFiles(p) \/ RebuildSQLite(p)
    \/ AlterPostgres(p) \/ ChangeRefused(p) \/ Read(p) \/ DropOldPlace(p) \/ Dies(p)
    \/ \E a \in Agents : MoveSetting(p, a) \/ Reparent(p, a) \/ ReparentLate(p, a)
    \/ \E a \in Owned : OwnerSaves(p, a) \/ OwnerDeletes(p, a)
    \/ \E a \in Owned, k \in LegacyKinds : OwnerSets(p, k, a)

Spec == Init /\ [][Next]_vars

-----------------------------------------------------------------------------
\* Wherever the processes die, an owner's file that was there is still in some
\* table, unless the owner deleted it.
NothingErased ==
  \A a \in given \cap Owned :
    \/ a \in shared \/ owners[a] # {} \/ wish[a] = "deleted"
    \/ rebuilt # Gone /\ a \in rebuilt

\* The migration never replaces what the owner has: neither a personal copy of
\* before nor an edit made through a replica that is up already.
OwnersKept ==
  \A a \in Owned : wish[a] \in {"own", "edited"} => wish[a] \in owners[a]

\* When a process is up, and none is changing the table's shape or died doing
\* it, every old place is empty and every value of it in its new one.
UpMeansMigrated ==
  ~ torn /\ (\E p \in Processes : at[p] = "up")
  /\ (\A p \in Processes : at[p] \notin Changing) =>
    /\ shared = {} /\ rebuilt = Gone /\ table = "wide"
    /\ \A k \in LegacyKinds : legacy[k] = Gone
    /\ \A a \in given \cap Owned : owners[a] # {} \/ wish[a] = "deleted"

\* Migrate is safe to repeat (database.go:82, :163, :240).
MigrationSound == NothingErased /\ OwnersKept /\ UpMeansMigrated
=============================================================================
