--------------------------- MODULE MigrationRunner ---------------------------
(***************************************************************************)
(* runMigrations (src/db/migration-runner.ts) over DatabaseManager         *)
(* (src/db/database-manager.ts), run by several processes at once on one   *)
(* database file.                                                          *)
(*                                                                         *)
(* With the native driver the processes share the file and each migration  *)
(* is a transaction of the file. Without it a process reads the whole file *)
(* when it opens the database, works on its copy, and writes the copy back *)
(* when it closes it. A machine has the native driver or has it not.       *)
(*                                                                         *)
(* A migration file is its place in the order of names, its content one of *)
(* Texts, which also stands for the checksum. A database is the rows of    *)
(* _agent_p_migrations and the texts that were executed on it. An          *)
(* uncommitted transaction is never seen, and a process that dies leaves   *)
(* none. The lock of the native driver is taken by the first write of a    *)
(* transaction; a process that waits for it gives up in the end.           *)
(*                                                                         *)
(* Bounds of the model: MaxRuns runs, MaxEdits edits of the directory and  *)
(* MaxFaults faults.                                                       *)
(***************************************************************************)
EXTENDS Integers, Sequences

CONSTANTS
  Processes,
  Files,       \* the names of migration files, by their order
  Texts,       \* what they may contain
  Blank,       \* a text without a statement
  BrokenTexts, \* texts that do not execute
  NoFile,      \* the file does not exist
  NoRow,       \* no migration of that name was recorded
  NoProcess,   \* nobody holds the lock
  Corrupt,     \* a file that is no database
  Drivers,     \* which drivers the machines have
  MaxRuns,
  MaxEdits,
  MaxFaults

Recorded == Texts \cup {NoRow}

Database == [rows : [Files -> Recorded], schema : Seq(Files \X Texts)]

ASSUME MigrationAssumption ==
  /\ Files \subseteq Nat
  /\ Blank \in Texts
  /\ BrokenTexts \subseteq Texts
  /\ NoFile \notin Texts
  /\ NoRow \notin Texts
  /\ NoProcess \notin Processes
  /\ Corrupt \notin Database
  /\ Drivers \subseteq {"better-sqlite3", "sql.js"}
  /\ {MaxRuns, MaxEdits, MaxFaults} \subseteq Nat

VARIABLES
  driver,   \* the driver of this machine
  dir,      \* the migrations directory
  file,     \* the database file
  lock,     \* who has written in an open transaction of the file
  runs,     \* per process, the state of runMigrations
  started,  \* how many runs there were
  edits,
  faults

bounds == <<started, edits, faults>>
vars   == <<driver, dir, file, lock, runs, bounds>>

EmptyDatabase == [rows |-> [f \in Files |-> NoRow], schema |-> <<>>]

\* todo: the files listed and not yet handled; text: what was read of each of
\* the others; at: the last of these; existing: the rows as loaded; db: the
\* copy that is used without the native driver.
Run == [pc       : {"none", "open", "load", "loop", "commit", "close", "done"},
        todo     : SUBSET Files,
        text     : [Files -> Recorded],
        at       : Files \cup {NoFile},
        existing : [Files -> Recorded],
        db       : Database \cup {Corrupt},
        outcome  : {"none", "returned", "threw", "killed"}]

TypeOK ==
  /\ driver \in Drivers
  /\ dir \in [Files -> Texts \cup {NoFile}]
  /\ file \in Database \cup {Corrupt}
  /\ lock \in Processes \cup {NoProcess}
  /\ runs \in [Processes -> Run]
  /\ started \in 0 .. MaxRuns
  /\ edits \in 0 .. MaxEdits
  /\ faults \in 0 .. MaxFaults

NoRun == [pc |-> "none", todo |-> {}, text |-> [f \in Files |-> NoRow],
          at |-> NoFile, existing |-> [f \in Files |-> NoRow], db |-> EmptyDatabase,
          outcome |-> "none"]

Init ==
  /\ driver \in Drivers
  /\ dir \in [Files -> Texts \cup {NoFile}]
  /\ file = EmptyDatabase
  /\ lock = NoProcess
  /\ runs = [p \in Processes |-> NoRun]
  /\ started = 0
  /\ edits = 0
  /\ faults = 0

Native == driver = "better-sqlite3"

\* The database that a process works on.
View(p) == IF Native THEN file ELSE runs[p].db

Locked(p) == Native /\ lock \notin {p, NoProcess}

Fault == faults < MaxFaults /\ faults' = faults + 1

To(p, pc) == runs' = [runs EXCEPT ![p].pc = pc]

\* An exception: the finally block closes the database.
Throw(p) == runs' = [runs EXCEPT ![p].pc = "close", ![p].outcome = "threw"]

-----------------------------------------------------------------------------
(* Opening the database.                                                   *)

Start(p) ==
  /\ runs[p].pc \in {"none", "done"}
  /\ started < MaxRuns
  /\ started' = started + 1
  /\ runs' = [runs EXCEPT ![p] =
                [NoRun EXCEPT !.pc = "open",
                              !.todo = {f \in Files : dir[f] # NoFile}]]
  /\ UNCHANGED <<driver, dir, file, lock, edits, faults>>

initialize(p) ==
  /\ runs[p].pc = "open"
  /\ runs' = [runs EXCEPT ![p].pc = "load",
                          ![p].db = IF Native THEN EmptyDatabase ELSE file]
  /\ UNCHANGED <<driver, dir, file, lock, bounds>>

\* Neither driver opens: there is nothing to close.
initializeThrows(p) ==
  /\ runs[p].pc = "open"
  /\ Fault
  /\ runs' = [runs EXCEPT ![p].pc = "done", ![p].outcome = "threw"]
  /\ UNCHANGED <<driver, dir, file, lock, started, edits>>

\* ensureMigrationsTable changes nothing that the model tells apart.
loadApplied(p) ==
  /\ runs[p].pc = "load"
  /\ View(p) # Corrupt
  /\ runs' = [runs EXCEPT ![p].pc = "loop", ![p].existing = View(p).rows]
  /\ UNCHANGED <<driver, dir, file, lock, bounds>>

loadAppliedThrows(p) ==
  /\ runs[p].pc = "load"
  /\ View(p) = Corrupt \/ Locked(p)
  /\ Throw(p)
  /\ UNCHANGED <<driver, dir, file, lock, bounds>>

-----------------------------------------------------------------------------
(* The loop over the files.                                                *)

\* Names are sorted.
AtFile(p, f) ==
  /\ runs[p].pc = "loop"
  /\ f \in runs[p].todo
  /\ \A g \in runs[p].todo : f <= g

Handled(p, f, text, pc) ==
  runs' = [runs EXCEPT ![p].pc = pc,
                       ![p].todo = @ \ {f},
                       ![p].text[f] = text,
                       ![p].at = f]

\* Mutant: a recorded file is skipped whatever it now contains.
SkipFile_ByName(p) ==
  \E f \in Files :
    /\ AtFile(p, f)
    /\ dir[f] # NoFile
    /\ dir[f] = Blank \/ runs[p].existing[f] # NoRow
    /\ Handled(p, f, dir[f], "loop")
    /\ UNCHANGED <<driver, dir, file, lock, bounds>>

\* Mutant: a file that was deleted since it was listed is skipped.
SkipFile_Deleted(p) ==
  \E f \in Files :
    /\ AtFile(p, f)
    /\ dir[f] \in {Blank, NoFile} \/ runs[p].existing[f] = dir[f]
    /\ Handled(p, f, dir[f], "loop")
    /\ UNCHANGED <<driver, dir, file, lock, bounds>>

SkipFile(p) ==
  \E f \in Files :
    /\ AtFile(p, f)
    /\ dir[f] # NoFile
    /\ dir[f] = Blank \/ runs[p].existing[f] = dir[f]
    /\ Handled(p, f, dir[f], "loop")
    /\ UNCHANGED <<driver, dir, file, lock, bounds>>

\* A file that was deleted, or edited since it was applied.
RejectFile(p) ==
  \E f \in Files :
    /\ AtFile(p, f)
    /\ dir[f] # Blank
    /\ dir[f] = NoFile \/ runs[p].existing[f] \notin {NoRow, dir[f]}
    /\ Throw(p)
    /\ UNCHANGED <<driver, dir, file, lock, bounds>>

Pending(p, f) ==
  /\ AtFile(p, f)
  /\ dir[f] \notin {NoFile, Blank}
  /\ runs[p].existing[f] = NoRow

\* BEGIN and the statements of the file, in a transaction that others do not
\* see.
ExecMigration(p) ==
  \E f \in Files :
    /\ Pending(p, f)
    /\ dir[f] \notin BrokenTexts
    /\ ~ Locked(p)
    /\ lock' = IF Native THEN p ELSE lock
    /\ Handled(p, f, dir[f], "commit")
    /\ UNCHANGED <<driver, dir, file, bounds>>

\* Mutant: the loop goes on after a migration that failed.
FailMigration_GoesOn(p) ==
  \E f \in Files :
    /\ Pending(p, f)
    /\ dir[f] \in BrokenTexts \/ Locked(p)
    /\ Handled(p, f, dir[f], "loop")
    /\ UNCHANGED <<driver, dir, file, lock, bounds>>

\* A statement fails, or the lock cannot be had: ROLLBACK, and throw.
FailMigration(p) ==
  \E f \in Files :
    /\ Pending(p, f)
    /\ dir[f] \in BrokenTexts \/ Locked(p)
    /\ Throw(p)
    /\ UNCHANGED <<driver, dir, file, lock, bounds>>

\* The database with the migration executed and recorded.
Migrated(p) ==
  LET db   == View(p)
      f    == runs[p].at
      text == runs[p].text[f]
  IN  [rows   |-> [db.rows EXCEPT ![f] = text],
       schema |-> Append(db.schema, <<f, text>>)]

Commit(p) ==
  /\ file' = IF Native THEN Migrated(p) ELSE file
  /\ runs' = [runs EXCEPT ![p].pc = "loop",
                          ![p].db = IF Native THEN @ ELSE Migrated(p)]

Unlock == lock' = IF Native THEN NoProcess ELSE lock

\* Mutant: the row of another process is replaced.
CommitMigration_Replaces(p) ==
  /\ runs[p].pc = "commit"
  /\ Commit(p)
  /\ Unlock
  /\ UNCHANGED <<driver, dir, bounds>>

\* INSERT and COMMIT: the name is the primary key.
CommitMigration(p) ==
  /\ runs[p].pc = "commit"
  /\ View(p).rows[runs[p].at] = NoRow
  /\ Commit(p)
  /\ Unlock
  /\ UNCHANGED <<driver, dir, bounds>>

\* The name was recorded by another process since, or COMMIT fails.
RollbackMigration(p) ==
  /\ runs[p].pc = "commit"
  /\ \/ View(p).rows[runs[p].at] # NoRow /\ UNCHANGED faults
     \/ Fault
  /\ Throw(p)
  /\ Unlock
  /\ UNCHANGED <<driver, dir, file, started, edits>>

-----------------------------------------------------------------------------
(* Closing the database, and what happens around the runs.                 *)

Finish(p) ==
  /\ runs[p].pc = "loop"
  /\ runs[p].todo = {}
  /\ runs' = [runs EXCEPT ![p].pc = "close", ![p].outcome = "returned"]
  /\ UNCHANGED <<driver, dir, file, lock, bounds>>

\* Without the native driver the copy is written, also after an exception.
close(p) ==
  /\ runs[p].pc = "close"
  /\ file' = View(p)
  /\ To(p, "done")
  /\ UNCHANGED <<driver, dir, lock, bounds>>

\* The file is cut to nothing, which is an empty database, and then written.
BrokenWrite == {file, EmptyDatabase, Corrupt}

closeThrows(p) ==
  /\ runs[p].pc = "close"
  /\ ~ Native
  /\ Fault
  /\ file' \in BrokenWrite
  /\ runs' = [runs EXCEPT ![p].pc = "done", ![p].outcome = "threw"]
  /\ UNCHANGED <<driver, dir, lock, started, edits>>

Crash(p) ==
  /\ runs[p].pc \notin {"none", "done"}
  /\ Fault
  /\ runs' = [runs EXCEPT ![p].pc = "done", ![p].outcome = "killed"]
  /\ lock' = IF lock = p THEN NoProcess ELSE lock
  /\ file' \in IF ~ Native /\ runs[p].pc = "close" THEN BrokenWrite ELSE {file}
  /\ UNCHANGED <<driver, dir, started, edits>>

\* A developer adds, edits or deletes a migration file.
Edit(f, text) ==
  /\ edits < MaxEdits
  /\ edits' = edits + 1
  /\ dir' = [dir EXCEPT ![f] = text]
  /\ UNCHANGED <<driver, file, lock, runs, started, faults>>

Step(p) ==
  \/ initialize(p) \/ initializeThrows(p)
  \/ loadApplied(p) \/ loadAppliedThrows(p)
  \/ SkipFile(p) \/ RejectFile(p)
  \/ ExecMigration(p) \/ FailMigration(p)
  \/ CommitMigration(p) \/ RollbackMigration(p)
  \/ Finish(p) \/ close(p) \/ closeThrows(p)

Next ==
  \/ \E p \in Processes : Start(p) \/ Step(p) \/ Crash(p)
  \/ \E f \in Files, text \in Texts \cup {NoFile} : Edit(f, text)

Spec == Init /\ [][Next]_vars

-----------------------------------------------------------------------------
(* What the migrations promise.                                            *)

\* A database records exactly the migrations that were executed on it, each
\* with the text that was executed, and none was executed twice.
Consistent(db) ==
  /\ \A i \in DOMAIN db.schema : db.rows[db.schema[i][1]] = db.schema[i][2]
  /\ \A i, j \in DOMAIN db.schema :
       db.schema[i][1] = db.schema[j][1] => i = j
  /\ \A f \in Files :
       db.rows[f] # NoRow => \E i \in DOMAIN db.schema : db.schema[i][1] = f

\* Whatever processes do at once, and wherever they die or a write fails, the
\* database on disk is consistent or unreadable.
RecordedAsExecuted == file = Corrupt \/ Consistent(file)

\* When a run returns, every file it listed is recorded on disk with the text
\* it then had, the blank ones apart.
ReturnedIsMigrated ==
  [][\A p \in Processes :
       (close(p) /\ runs[p].outcome = "returned") =>
         /\ file' # Corrupt
         /\ \A f \in Files :
              runs[p].text[f] \notin {NoRow, Blank} =>
                file'.rows[f] = runs[p].text[f]]_vars

\* A migration is never committed before one that the run met earlier.
EarlierFirst ==
  [][\A p \in Processes :
       CommitMigration(p) =>
         \A f \in Files :
           (f < runs[p].at /\ runs[p].text[f] \notin {NoRow, Blank}) =>
             View(p).rows[f] = runs[p].text[f]]_vars

=============================================================================
