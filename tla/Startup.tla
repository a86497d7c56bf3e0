------------------------------ MODULE Startup ------------------------------
(***************************************************************************)
(* The start of Point nodes on one data directory: the lock file           *)
(* (src/index.ts), the migration (src/util/migrate.ts, umzug) and what     *)
(* the one migration of the repository does to the database                *)
(* (migrations/database/1-automigration.js).                               *)
(*                                                                         *)
(* A command of the migration is known by its place in Commands, and the   *)
(* database by the set of places whose table or index is there.  A         *)
(* process runs until it is killed (the lock file stays) or told to stop   *)
(* (proper-lockfile releases it).  A process may be suspended: it keeps    *)
(* the lock but no longer renews it, and after 5000 ms the lock may be     *)
(* taken from it.  Bounds: MaxDbFaults failing commands, MaxKills kills,   *)
(* MaxStalls suspensions, MaxLaunches starts of a process.                 *)
(***************************************************************************)
EXTENDS Naturals, Sequences, SequencesExt

CONSTANTS Nodes,        \* processes started on the data directory
          NoNode,       \* nobody holds the lock file
          MaxDbFaults, MaxKills, MaxStalls, MaxLaunches
ASSUME StartupAssumption == NoNode \notin Nodes

VARIABLES stage,        \* what each process is at
          place,        \* the next command of each process's migration
          view,         \* the database as the transaction of a process sees it
          database,     \* the committed database
          logged,       \* umzug's table names the migration as executed
          dbWriter,       \* whose transaction holds SQLite's write lock
          lock,         \* holder of the lock file
          stale,        \* the lock file was not renewed for 5000 ms
          dbFaults, kills, stalls, launches

startupVars == <<stage, place, view, database, logged, dbWriter, lock, stale,
                 dbFaults, kills, stalls, launches>>
----------------------------------------------------------------------------
(* migrationCommands: a table with its columns, or an index with the       *)
(* columns of its table that it names.                                     *)

CreateTable(t, c, refs) == [table |-> t, columns |-> c, references |-> refs, isTable |-> TRUE]
AddIndex(t, c) == [table |-> t, columns |-> c, references |-> {}, isTable |-> FALSE]
AddIndexes(t, list) == [i \in DOMAIN list |-> AddIndex(t, list[i])]
Times == {"created_at", "updated_at"}

CreateDirMaps == CreateTable("dir_maps",
    {"id", "dir_id", "file_id", "offset", "dir_size", "is_dir"} \cup Times, {})
CreateFiles == CreateTable("files",
    {"id", "size", "chunk_ids", "dl_status", "ul_status", "dl_progress", "ul_progress",
     "expires", "dir_size", "dir_ul_progress", "dir_ul_status"} \cup Times, {})
CreateChunks == CreateTable("chunks",
    {"id", "size", "dl_status", "ul_status", "retry_count", "validation_retry_count",
     "txid", "expires"} \cup Times, {})
CreateEvents == CreateTable("events",
    {"id", "raw_id", "chain_id", "contract_address", "block_number", "transaction_hash",
     "transaction_index", "block_hash", "log_index", "removed", "return_values", "event",
     "signature", "raw", "topic0", "topic1", "topic2"} \cup Times, {})
CreateEventScans == CreateTable("event_scans",
    {"id", "chain_id", "contract_address", "from_block", "to_block"} \cup Times, {})
CreateFileMaps == CreateTable("file_maps",
    {"id", "file_id", "chunk_id", "offset"} \cup Times, {"chunks", "files"})

FileIndexes == AddIndexes("dir_maps",
      <<{"file_id"}, {"dir_id"}, {"dir_id", "file_id"}, {"dir_id", "offset"},
        {"dir_id", "file_id", "offset"}>>)
    \o AddIndexes("files", <<{"ul_status"}, {"dl_status"}, {"dir_ul_status"}>>)
    \o AddIndexes("chunks", <<{"ul_status"}, {"dl_status"}>>)
FileMapIndexes == AddIndexes("file_maps",
      <<{"chunk_id"}, {"file_id"}, {"file_id", "chunk_id"}, {"file_id", "offset"},
        {"file_id", "chunk_id", "offset"}>>)
EventIndexes == AddIndexes("events",
      <<{"chain_id"}, {"chain_id", "block_number"}, {"chain_id", "log_index"},
        {"chain_id", "contract_address", "event"},
        {"chain_id", "contract_address", "event", "log_index"},
        {"chain_id", "contract_address", "block_number"},
        {"chain_id", "contract_address", "event", "block_number"},
        {"topic0"}, {"topic1"}, {"topic2"}, {"chain_id", "raw_id"}>>)
    \o AddIndexes("event_scans",
      <<{"chain_id"}, {"chain_id", "from_block"}, {"chain_id", "to_block"},
        {"chain_id", "contract_address", "from_block"},
        {"chain_id", "contract_address", "to_block"}>>)

Commands == <<CreateDirMaps, CreateFiles, CreateChunks, CreateEvents, CreateEventScans,
              CreateFileMaps>> \o FileIndexes \o FileMapIndexes \o EventIndexes
Whole == DOMAIN Commands

(* A table that is there already is left alone (CREATE TABLE IF NOT        *)
(* EXISTS); an index needs its table and columns, and must be new.         *)
CanRun(i, db) ==
    \/ Commands[i].isTable
    \/ /\ i \notin db
       /\ \E t \in db : /\ Commands[t].isTable
                        /\ Commands[t].table = Commands[i].table
                        /\ Commands[i].columns \subseteq Commands[t].columns

(* rollbackCommands: each dropTable takes the indexes of its table along. *)
RollbackTables == <<"dir_maps", "files", "chunks", "file_maps", "events", "event_scans">>
WithoutTables(db) == {i \in db : Commands[i].table \notin ToSet(RollbackTables)}
----------------------------------------------------------------------------
StartupInit ==
    /\ stage = [n \in Nodes |-> "off"]
    /\ place = [n \in Nodes |-> 1]
    /\ view = [n \in Nodes |-> {}]
    /\ database = {} /\ logged = FALSE /\ dbWriter = NoNode
    /\ lock = NoNode /\ stale = FALSE
    /\ dbFaults = 0 /\ kills = 0 /\ stalls = 0 /\ launches = 0

dbVars == <<place, view, database, logged, dbWriter>>
lockVars == <<lock, stale>>
bounds == <<dbFaults, kills, stalls, launches>>

Go(n, s) == stage' = [stage EXCEPT ![n] = s]

(* A process is past the lock file; before, the lock file that names it is *)
(* the one its predecessor left when it was killed.                        *)
Locked(n) == stage[n] \notin {"off", "folders"}

(* process.exit releases the lock file if it is (still) this process's.    *)
ReleaseLock(n) ==
    IF Locked(n) /\ lock = n THEN lock' = NoNode /\ stale' = FALSE
                             ELSE UNCHANGED lockVars

(* A process that ends takes its open transaction with it. *)
CloseDatabase(n) ==
    /\ dbWriter' = IF dbWriter = n THEN NoNode ELSE dbWriter
    /\ view' = [view EXCEPT ![n] = {}]
    /\ place' = [place EXCEPT ![n] = 1]
    /\ UNCHANGED <<database, logged>>

(* initFolders: a missing folder or an invalid key file ends the process. *)
InitFolders(n) ==
    /\ stage[n] = "off" /\ launches < MaxLaunches
    /\ launches' = launches + 1
    /\ Go(n, "folders") \/ Go(n, "off")
    /\ UNCHANGED <<dbVars, lockVars, dbFaults, kills, stalls>>

TakesLock == lock = NoNode \/ stale
LockFile(n) ==
    /\ stage[n] = "folders"
    /\ \/ /\ TakesLock
          /\ lock' = n /\ stale' = FALSE
          /\ Go(n, "migrate")
       \/ /\ ~TakesLock
          /\ Go(n, "off")
          /\ UNCHANGED lockVars
    /\ UNCHANGED <<dbVars, bounds>>

(* The holder was killed, or is suspended: nobody renews the lock file.    *)
(* When a suspended holder wakes up, proper-lockfile throws in a timer;    *)
(* the handler of uncaughtException logs that and the process goes on.     *)
LockGoesStale ==
    /\ lock # NoNode /\ ~stale
    /\ \/ ~Locked(lock) /\ UNCHANGED stalls
       \/ Locked(lock) /\ stalls < MaxStalls /\ stalls' = stalls + 1
    /\ stale' = TRUE
    /\ UNCHANGED <<stage, dbVars, lock, dbFaults, kills, launches>>

(* umzug.up: the migration is pending unless umzug's table names it. *)
Up(n) ==
    /\ stage[n] = "migrate"
    /\ Go(n, IF logged THEN "started" ELSE "commands")
    /\ place' = [place EXCEPT ![n] = 1]
    /\ UNCHANGED <<view, database, logged, dbWriter, lockVars, bounds>>

(* Mutant: Execute without the transaction, every command is there at once. *)
ExecuteWithoutTransaction(n) ==
    /\ stage[n] = "commands" /\ place[n] \in Whole
    /\ CanRun(place[n], database)
    /\ database' = database \cup {place[n]}
    /\ view' = [view EXCEPT ![n] = database']
    /\ place' = [place EXCEPT ![n] = @ + 1]
    /\ UNCHANGED <<stage, logged, dbWriter, lockVars, bounds>>

(* execute: the commands one after the other in one transaction, which     *)
(* takes SQLite's write lock at the first of them.                         *)
Execute(n) ==
    /\ stage[n] = "commands" /\ place[n] \in Whole
    /\ dbWriter \in {NoNode, n}
    /\ LET db == IF dbWriter = n THEN view[n] ELSE database
       IN  /\ CanRun(place[n], db)
           /\ view' = [view EXCEPT ![n] = db \cup {place[n]}]
    /\ place' = [place EXCEPT ![n] = @ + 1]
    /\ dbWriter' = n
    /\ UNCHANGED <<stage, database, logged, lockVars, bounds>>

Commit(n) ==
    /\ stage[n] = "commands" /\ place[n] \notin Whole
    /\ database' = view[n]
    /\ dbWriter' = NoNode
    /\ Go(n, "log")
    /\ UNCHANGED <<place, view, logged, lockVars, bounds>>

LogMigration(n) ==
    /\ stage[n] = "log"
    /\ logged' = TRUE
    /\ Go(n, "started")
    /\ UNCHANGED <<place, view, database, dbWriter, lockVars, bounds>>

(* A command fails: an index that is there, another process that holds     *)
(* the write lock, or the disk.  The transaction is rolled back, umzug     *)
(* throws a MigrationError, and migrate reverts the last migration that    *)
(* is logged, which need not be the one that failed.                       *)
CommandFails(n) ==
    /\ stage[n] = "commands" /\ place[n] \in Whole
    /\ \/ dbWriter \notin {NoNode, n} /\ UNCHANGED dbFaults
       \/ dbWriter = NoNode /\ ~CanRun(place[n], database) /\ UNCHANGED dbFaults
       \/ dbWriter = n /\ ~CanRun(place[n], view[n]) /\ UNCHANGED dbFaults
       \/ dbFaults < MaxDbFaults /\ dbFaults' = dbFaults + 1
    /\ CloseDatabase(n)
    /\ Go(n, "down")
    /\ UNCHANGED <<lockVars, kills, stalls, launches>>

(* umzug.down, with nothing logged: there is nothing to revert, migrate    *)
(* returns as if it had succeeded, and the node starts.                    *)
DownNothing(n) ==
    /\ stage[n] = "down" /\ ~logged
    /\ Go(n, "started")
    /\ UNCHANGED <<dbVars, lockVars, bounds>>

Down(n) ==
    /\ stage[n] = "down" /\ logged /\ dbWriter = NoNode
    /\ database' = WithoutTables(database)
    /\ Go(n, "unlog")
    /\ UNCHANGED <<place, view, logged, dbWriter, lockVars, bounds>>

UnlogMigration(n) ==
    /\ stage[n] = "unlog"
    /\ logged' = FALSE
    /\ Go(n, "started")
    /\ UNCHANGED <<place, view, database, dbWriter, lockVars, bounds>>

(* A signal: process.exit, and the lock file is released. *)
Stop(n) ==
    /\ stage[n] # "off"
    /\ Go(n, "off")
    /\ CloseDatabase(n)
    /\ ReleaseLock(n)
    /\ UNCHANGED bounds

Kill(n) ==
    /\ stage[n] # "off" /\ kills < MaxKills
    /\ kills' = kills + 1
    /\ Go(n, "off")
    /\ CloseDatabase(n)
    /\ UNCHANGED <<lockVars, dbFaults, stalls, launches>>

StartupNext ==
    \/ LockGoesStale
    \/ \E n \in Nodes :
        \/ InitFolders(n) \/ LockFile(n) \/ Up(n) \/ Execute(n) \/ Commit(n)
        \/ LogMigration(n) \/ CommandFails(n) \/ DownNothing(n) \/ Down(n)
        \/ UnlogMigration(n) \/ Stop(n) \/ Kill(n)

StartupSpec == StartupInit /\ [][StartupNext]_startupVars
----------------------------------------------------------------------------
(* The tables and indexes come together or not at all, whatever fails or   *)
(* is killed, and a node runs without them only if a command of its        *)
(* migration failed or its lock went stale: a kill between the commit and  *)
(* the note in umzug's table makes every later migration fail, and that    *)
(* failure must not cost the tables.                                       *)
NodeStartsOnItsTables ==
    /\ database \in {{}, Whole}
    /\ (\E n \in Nodes : stage[n] = "started") /\ dbFaults = 0 /\ stalls = 0
            => database = Whole
=============================================================================
