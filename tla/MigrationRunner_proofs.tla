------------------------ MODULE MigrationRunner_proofs ------------------------
(***************************************************************************)
(* Theorems about MigrationRunner, for any processes, files, texts and     *)
(* bounds: its types, that a database always records exactly the           *)
(* migrations that were executed on it, that a run which returns leaves    *)
(* every file it found migrated, and that files are migrated in order.     *)
(***************************************************************************)
EXTENDS MigrationRunner, TLAPS

-----------------------------------------------------------------------------
(* Databases.                                                              *)

LEMMA EmptyDatabaseConsistent ==
  EmptyDatabase \in Database /\ Consistent(EmptyDatabase)
<1>1. EmptyDatabase \in Database
  BY DEF EmptyDatabase, Database, Recorded
<1>2. Consistent(EmptyDatabase)
  BY DEF EmptyDatabase, Consistent
<1> QED BY <1>1, <1>2

\* A migration that is not recorded may be executed and recorded.
LEMMA MigratedConsistent ==
  ASSUME NEW db \in Database, NEW f \in Files, NEW text \in Texts,
         Consistent(db), db.rows[f] = NoRow
  PROVE  LET new == [rows   |-> [db.rows EXCEPT ![f] = text],
                     schema |-> Append(db.schema, <<f, text>>)]
         IN  new \in Database /\ Consistent(new)
<1> DEFINE new == [rows   |-> [db.rows EXCEPT ![f] = text],
                   schema |-> Append(db.schema, <<f, text>>)]
           n   == Len(db.schema)
<1>1. /\ db.schema \in Seq(Files \X Texts)
      /\ db.rows \in [Files -> Recorded]
      /\ n \in Nat
      /\ DOMAIN db.schema = 1 .. n
  BY DEF Database
<1>2. new \in Database
  BY <1>1 DEF Database, Recorded
<1>3. /\ DOMAIN new.schema = 1 .. n + 1
      /\ new.schema[n + 1] = <<f, text>>
      /\ \A i \in 1 .. n : new.schema[i] = db.schema[i]
  BY <1>1
<1>4. \A i \in 1 .. n : db.schema[i] \in Files \X Texts
  BY <1>1
<1>5. \A i \in 1 .. n : /\ db.schema[i][1] \in Files
                        /\ db.schema[i][1] # f
                        /\ db.rows[db.schema[i][1]] = db.schema[i][2]
  BY <1>1, <1>4, MigrationAssumption DEF Consistent
<1>6. \A i, j \in 1 .. n : db.schema[i][1] = db.schema[j][1] => i = j
  BY <1>1 DEF Consistent
<1>7. /\ new.rows[f] = text
      /\ \A g \in Files : g # f => new.rows[g] = db.rows[g]
  BY <1>1
<1> HIDE DEF new
<1>8. \A i \in DOMAIN new.schema :
        new.rows[new.schema[i][1]] = new.schema[i][2]
  BY <1>1, <1>3, <1>5, <1>7
<1>9. \A i, j \in DOMAIN new.schema :
        new.schema[i][1] = new.schema[j][1] => i = j
  <2> SUFFICES ASSUME NEW i \in 1 .. n + 1, NEW j \in 1 .. n + 1,
                      new.schema[i][1] = new.schema[j][1]
               PROVE  i = j
    BY <1>3
  <2>1. CASE i \in 1 .. n /\ j \in 1 .. n
    BY <2>1, <1>3, <1>6
  <2>2. CASE i = n + 1 /\ j \in 1 .. n
    BY <2>2, <1>3, <1>5
  <2>3. CASE j = n + 1 /\ i \in 1 .. n
    BY <2>3, <1>3, <1>5
  <2>4. \A k \in 1 .. n + 1 : k \in 1 .. n \/ k = n + 1
    BY <1>1
  <2> QED BY <2>1, <2>2, <2>3, <2>4
<1>10. \A g \in Files :
        new.rows[g] # NoRow => \E i \in DOMAIN new.schema : new.schema[i][1] = g
  <2> SUFFICES ASSUME NEW g \in Files, new.rows[g] # NoRow
               PROVE  \E i \in 1 .. n + 1 : new.schema[i][1] = g
    BY <1>3
  <2>1. CASE g = f
    BY <2>1, <1>1, <1>3
  <2>2. CASE g # f
    BY <2>2, <1>1, <1>3, <1>7 DEF Consistent
  <2> QED BY <2>1, <2>2
<1>11. Consistent(new)
  BY <1>8, <1>9, <1>10 DEF Consistent
<1> QED BY <1>2, <1>11 DEF new

-----------------------------------------------------------------------------
(* The inductive invariant.                                                *)

Sound(db) == db = Corrupt \/ Consistent(db)

\* A process that is past loading works on a database that can be read, and
\* one that commits has executed a file.
Working(p) ==
  /\ Sound(runs[p].db)
  /\ runs[p].pc \in {"loop", "commit"} => View(p) # Corrupt
  /\ runs[p].pc = "commit" =>
       runs[p].at \in Files /\ runs[p].text[runs[p].at] \in Texts

IInv ==
  /\ TypeOK
  /\ Sound(file)
  /\ Native => file # Corrupt
  /\ \A p \in Processes : Working(p)

LEMMA Initial == Init => IInv
<1> SUFFICES ASSUME Init PROVE IInv
  OBVIOUS
<1>1. NoRun \in Run
  BY EmptyDatabaseConsistent DEF NoRun, Run, Recorded
<1>2. TypeOK
  BY <1>1, EmptyDatabaseConsistent, MigrationAssumption DEF Init, TypeOK
<1>3. EmptyDatabase # Corrupt
  BY EmptyDatabaseConsistent, MigrationAssumption
<1>4. \A p \in Processes : Working(p)
  BY EmptyDatabaseConsistent DEF Init, NoRun, Working, Sound
<1> QED BY <1>2, <1>3, <1>4, EmptyDatabaseConsistent DEF IInv, Init, Sound

\* A step that gives one process another record and leaves a sound file: when
\* what the process works on is sound, so is everything else.
LEMMA RecordChanges ==
  ASSUME IInv,
         NEW p \in Processes,
         NEW r \in Run,
         runs' = [runs EXCEPT ![p] = r],
         UNCHANGED driver,
         Sound(file'),
         Native => file' # Corrupt,
         Sound(r.db),
         (~ Native /\ r.pc \in {"loop", "commit"}) => r.db # Corrupt,
         r.pc = "commit" => r.at \in Files /\ r.text[r.at] \in Texts
  PROVE  /\ runs' \in [Processes -> Run]
         /\ Sound(file)'
         /\ (Native => file # Corrupt)'
         /\ (\A q \in Processes : Working(q))'
<1>1. runs \in [Processes -> Run]
  BY DEF IInv, TypeOK
<1>2. runs' \in [Processes -> Run]
  BY <1>1
<1>3. ASSUME NEW q \in Processes PROVE Working(q)'
  <2>1. CASE q = p
    <3>1. runs'[q] = r
      BY <2>1, <1>1
    <3> QED BY <3>1 DEF Working, View, Native, Sound
  <2>2. CASE q # p
    <3>1. runs'[q] = runs[q]
      BY <2>2, <1>1
    <3>2. Working(q)
      BY DEF IInv
    <3> QED BY <3>1, <3>2 DEF Working, View, Native, Sound
  <2> QED BY <2>1, <2>2
<1> QED BY <1>2, <1>3 DEF IInv, Sound, Consistent, Native

LEMMA LoopSteps ==
  ASSUME IInv, NEW p \in Processes,
         \/ loadApplied(p) \/ loadAppliedThrows(p) \/ SkipFile(p)
         \/ RejectFile(p) \/ ExecMigration(p) \/ FailMigration(p)
         \/ Finish(p)
  PROVE  IInv'
<1>1. /\ runs \in [Processes -> Run]
      /\ runs[p] \in Run
      /\ Working(p)
  BY DEF IInv, TypeOK
<1>2. \A text \in Texts : text \in Recorded
  BY DEF Recorded
<1>3. CASE loadApplied(p)
  <2> DEFINE r == [runs[p] EXCEPT !.pc = "loop", !.existing = View(p).rows]
  <2>1. View(p) \in Database
    BY <1>1, <1>3 DEF IInv, TypeOK, View, loadApplied, Run
  <2>2. r \in Run /\ runs' = [runs EXCEPT ![p] = r]
    BY <1>1, <1>3, <2>1 DEF Run, Database, loadApplied
  <2>3. r.db = runs[p].db /\ r.pc = "loop"
    BY <1>1 DEF Run
  <2> HIDE DEF r
  <2> QED BY <1>1, <1>3, <2>2, <2>3, RecordChanges
          DEF IInv, TypeOK, Working, View, loadApplied, bounds
<1> DEFINE Thrown == [runs[p] EXCEPT !.pc = "close", !.outcome = "threw"]
<1>4. CASE Throw(p) /\ UNCHANGED <<driver, dir, file, lock, bounds>>
  <2>1. Thrown \in Run /\ runs' = [runs EXCEPT ![p] = Thrown]
    BY <1>1, <1>4 DEF Run, Throw
  <2>2. Thrown.db = runs[p].db /\ Thrown.pc = "close"
    BY <1>1 DEF Run
  <2> HIDE DEF Thrown
  <2> QED BY <1>1, <1>4, <2>1, <2>2, RecordChanges
          DEF IInv, TypeOK, Working, bounds
<1>5. ASSUME NEW f \in Files, NEW pc \in {"loop", "commit"},
             runs[p].pc = "loop", dir[f] # NoFile,
             Handled(p, f, dir[f], pc),
             UNCHANGED <<driver, dir, file, bounds>>,
             lock' \in {lock, p}
      PROVE  IInv'
  <2> DEFINE r == [runs[p] EXCEPT !.pc = pc, !.todo = @ \ {f},
                                  !.text[f] = dir[f], !.at = f]
  <2>1. dir[f] \in Texts
    BY <1>5 DEF IInv, TypeOK
  <2>2. r \in Run /\ runs' = [runs EXCEPT ![p] = r]
    BY <1>1, <1>2, <1>5, <2>1 DEF Run, Handled
  <2>3. r.db = runs[p].db /\ r.pc = pc /\ r.at = f /\ r.text[f] = dir[f]
    BY <1>1 DEF Run
  <2> HIDE DEF r
  <2> QED BY <1>1, <1>5, <2>1, <2>2, <2>3, RecordChanges
          DEF IInv, TypeOK, Working, View, bounds
<1>6. CASE Finish(p)
  <2> DEFINE r == [runs[p] EXCEPT !.pc = "close", !.outcome = "returned"]
  <2>1. r \in Run /\ runs' = [runs EXCEPT ![p] = r]
    BY <1>1, <1>6 DEF Run, Finish
  <2>2. r.db = runs[p].db /\ r.pc = "close"
    BY <1>1 DEF Run
  <2> HIDE DEF r
  <2> QED BY <1>1, <1>6, <2>1, <2>2, RecordChanges
          DEF IInv, TypeOK, Working, Finish, bounds
<1>7. CASE SkipFile(p)
  BY <1>5, <1>7 DEF SkipFile, AtFile
<1>8. CASE ExecMigration(p)
  BY <1>5, <1>8 DEF ExecMigration, Pending, AtFile
<1> QED BY <1>3, <1>4, <1>6, <1>7, <1>8
        DEF loadAppliedThrows, RejectFile, FailMigration

\* A step of the process p that opens, closes or abandons the database.
LEMMA OutsideLoop ==
  ASSUME IInv, NEW p \in Processes,
         Start(p) \/ initialize(p) \/ initializeThrows(p)
         \/ close(p) \/ closeThrows(p) \/ Crash(p)
  PROVE  IInv'
<1>1. /\ runs \in [Processes -> Run]
      /\ runs[p] \in Run
      /\ Working(p)
      /\ Sound(file)
      /\ file \in Database \cup {Corrupt}
  BY DEF IInv, TypeOK
<1>2. NoRun \in Run /\ Sound(EmptyDatabase) /\ EmptyDatabase # Corrupt
  BY EmptyDatabaseConsistent, MigrationAssumption DEF NoRun, Run, Recorded, Sound
<1>3. CASE Start(p)
  <2> DEFINE r == [NoRun EXCEPT !.pc = "open",
                                !.todo = {f \in Files : dir[f] # NoFile}]
  <2>1. r \in Run /\ runs' = [runs EXCEPT ![p] = r]
    BY <1>2, <1>3 DEF Run, Start
  <2>2. r.db = EmptyDatabase /\ r.pc = "open"
    BY DEF NoRun
  <2>3. started' \in 0 .. MaxRuns
    BY <1>3, MigrationAssumption DEF Start, IInv, TypeOK
  <2> HIDE DEF r
  <2> QED BY <1>2, <1>3, <2>1, <2>2, <2>3, RecordChanges DEF Start, IInv, TypeOK
<1>4. CASE initialize(p)
  <2> DEFINE d == IF Native THEN EmptyDatabase ELSE file
             r == [runs[p] EXCEPT !.pc = "load", !.db = d]
  <2>1. Sound(d) /\ d \in Database \cup {Corrupt}
    BY <1>1, <1>2, EmptyDatabaseConsistent
  <2>2. runs' = [runs EXCEPT ![p] = r]
    BY <1>1, <1>4 DEF Run, initialize
  <2> HIDE DEF d
  <2>3. r \in Run /\ r.db = d /\ r.pc = "load"
    BY <1>1, <2>1 DEF Run
  <2> HIDE DEF r
  <2> QED BY <1>4, <2>1, <2>2, <2>3, RecordChanges
          DEF initialize, IInv, TypeOK, bounds
<1>5. ASSUME NEW outcome \in {"threw", "killed"},
             runs' = [runs EXCEPT ![p].pc = "done", ![p].outcome = outcome],
             Fault,
             UNCHANGED <<driver, dir, started, edits>>,
             lock' \in {lock, NoProcess},
             file' = file \/ (~ Native /\ file' \in BrokenWrite)
      PROVE  IInv'
  <2> DEFINE r == [runs[p] EXCEPT !.pc = "done", !.outcome = outcome]
  <2>1. r \in Run /\ runs' = [runs EXCEPT ![p] = r]
    BY <1>1, <1>5 DEF Run
  <2>2. r.db = runs[p].db /\ r.pc = "done"
    BY <1>1 DEF Run
  <2> HIDE DEF r
  <2>3. faults' \in 0 .. MaxFaults
    BY <1>5, MigrationAssumption DEF Fault, IInv, TypeOK
  <2>4. /\ file' \in Database \cup {Corrupt}
        /\ Sound(file')
        /\ Native => file' # Corrupt
    BY <1>1, <1>2, <1>5, EmptyDatabaseConsistent DEF BrokenWrite, Sound, IInv
  <2> QED BY <1>1, <1>5, <2>1, <2>2, <2>3, <2>4, RecordChanges
          DEF IInv, TypeOK, Working
<1>6. CASE initializeThrows(p)
  BY <1>5, <1>6 DEF initializeThrows
<1>7. CASE closeThrows(p)
  BY <1>5, <1>7 DEF closeThrows
<1>8. CASE Crash(p)
  BY <1>5, <1>8 DEF Crash
<1>9. CASE close(p)
  <2> DEFINE r == [runs[p] EXCEPT !.pc = "done"]
  <2>1. r \in Run /\ runs' = [runs EXCEPT ![p] = r]
    BY <1>1, <1>9 DEF Run, close, To
  <2>2. r.db = runs[p].db /\ r.pc = "done"
    BY <1>1 DEF Run
  <2> HIDE DEF r
  <2>3. /\ file' \in Database \cup {Corrupt}
        /\ Sound(file')
        /\ Native => file' # Corrupt
    BY <1>1, <1>9 DEF close, View, IInv, Working, Run
  <2> QED BY <1>1, <1>9, <2>1, <2>2, <2>3, RecordChanges
          DEF close, IInv, TypeOK, Working, bounds
<1> QED BY <1>3, <1>4, <1>6, <1>7, <1>8, <1>9

\* The end of a transaction.
LEMMA TransactionEnds ==
  ASSUME IInv, NEW p \in Processes, CommitMigration(p) \/ RollbackMigration(p)
  PROVE  IInv'
<1>1. /\ runs \in [Processes -> Run]
      /\ runs[p] \in Run
      /\ Working(p)
      /\ runs[p].pc = "commit"
      /\ Unlock
      /\ lock' \in Processes \cup {NoProcess}
  BY DEF IInv, TypeOK, CommitMigration, RollbackMigration, Unlock
<1>2. CASE CommitMigration(p)
  <2> DEFINE new == Migrated(p)
             r   == [runs[p] EXCEPT !.pc = "loop",
                                    !.db = IF Native THEN @ ELSE new]
  <2>1. /\ View(p) \in Database
        /\ Consistent(View(p))
        /\ View(p).rows[runs[p].at] = NoRow
        /\ runs[p].at \in Files
        /\ runs[p].text[runs[p].at] \in Texts
    BY <1>1, <1>2 DEF IInv, TypeOK, Working, View, Sound, Run, CommitMigration
  <2>2. new \in Database /\ Consistent(new)
    BY <2>1, MigratedConsistent DEF Migrated
  <2>3. file' = (IF Native THEN new ELSE file)
    BY <1>2 DEF CommitMigration, Commit
  <2>4. runs' = [runs EXCEPT ![p] = r]
    BY <1>1, <1>2 DEF CommitMigration, Commit, Run
  <2> HIDE DEF new
  <2>5. new # Corrupt
    BY <2>2, MigrationAssumption
  <2>6. /\ r \in Run
        /\ r.pc = "loop"
        /\ r.db = IF Native THEN runs[p].db ELSE new
    BY <1>1, <2>2 DEF Run
  <2> HIDE DEF r
  <2>7. /\ file' \in Database \cup {Corrupt}
        /\ Sound(file')
        /\ Native => file' # Corrupt
        /\ Sound(r.db)
        /\ ~ Native => r.db # Corrupt
    BY <1>1, <2>2, <2>3, <2>5, <2>6 DEF Sound, IInv, TypeOK, Working
  <2> QED BY <1>1, <1>2, <2>4, <2>6, <2>7, RecordChanges
          DEF CommitMigration, IInv, TypeOK, bounds
<1>3. CASE RollbackMigration(p)
  <2> DEFINE r == [runs[p] EXCEPT !.pc = "close", !.outcome = "threw"]
  <2>1. r \in Run /\ runs' = [runs EXCEPT ![p] = r]
    BY <1>1, <1>3 DEF Run, Throw, RollbackMigration
  <2>2. r.db = runs[p].db /\ r.pc = "close"
    BY <1>1 DEF Run
  <2> HIDE DEF r
  <2>3. faults' \in 0 .. MaxFaults
    BY <1>3, MigrationAssumption DEF RollbackMigration, Fault, IInv, TypeOK
  <2> QED BY <1>1, <1>3, <2>1, <2>2, <2>3, RecordChanges
          DEF RollbackMigration, IInv, TypeOK, Working
<1> QED BY <1>2, <1>3

LEMMA Inductive == IInv /\ [Next]_vars => IInv'
<1> SUFFICES ASSUME IInv, [Next]_vars PROVE IInv'
  OBVIOUS
<1>1. ASSUME NEW p \in Processes, Start(p) \/ Step(p) \/ Crash(p)
      PROVE  IInv'
  BY <1>1, OutsideLoop, LoopSteps, TransactionEnds DEF Step
<1>2. ASSUME UNCHANGED <<driver, file, lock, runs, started, faults>>,
             dir' \in [Files -> Texts \cup {NoFile}],
             edits' \in 0 .. MaxEdits
      PROVE  IInv'
  BY <1>2 DEF IInv, TypeOK, Working, View, Native, Sound, Consistent
<1>3. ASSUME NEW f \in Files, NEW text \in Texts \cup {NoFile}, Edit(f, text)
      PROVE  IInv'
  <2>1. dir' \in [Files -> Texts \cup {NoFile}] /\ edits' \in 0 .. MaxEdits
    BY <1>3, MigrationAssumption DEF Edit, IInv, TypeOK
  <2> QED BY <1>2, <1>3, <2>1 DEF Edit
<1>4. CASE UNCHANGED vars
  BY <1>2, <1>4 DEF vars, bounds, IInv, TypeOK
<1> QED BY <1>1, <1>3, <1>4 DEF Next

-----------------------------------------------------------------------------
(* What a run has read is on the database it works on.                     *)

\* The file that a run is about to commit: all the others are recorded.
Committing(p, f) == runs[p].pc = "commit" /\ f = runs[p].at

\* Until it ends well, a run that has loaded the rows still finds them, and
\* every file it has handled, the blank ones apart, with the text it read.
Kept(p) ==
  /\ runs[p].pc \in {"open", "load"} => \A f \in Files : runs[p].text[f] = NoRow
  /\ (\/ runs[p].pc \in {"loop", "commit"}
      \/ runs[p].pc = "close" /\ runs[p].outcome = "returned")
     => /\ View(p) # Corrupt
        /\ \A f \in Files :
             /\ runs[p].existing[f] # NoRow => View(p).rows[f] = runs[p].existing[f]
             /\ (runs[p].text[f] \notin {NoRow, Blank} /\ ~ Committing(p, f))
                  => View(p).rows[f] = runs[p].text[f]

EveryRunKept == \A p \in Processes : Kept(p)

\* With the native driver a row on disk is never changed or lost: a commit adds
\* the row of a file that has none, and no other step writes.
LEMMA FileGrows ==
  ASSUME IInv, [Next]_vars, Native
  PROVE  /\ file' # Corrupt
         /\ \A f \in Files : file.rows[f] # NoRow => file'.rows[f] = file.rows[f]
<1>1. file \in Database /\ file # Corrupt /\ file.rows \in [Files -> Recorded]
  BY DEF IInv, TypeOK, Database
<1>2. CASE file' = file
  BY <1>1, <1>2
<1>3. ASSUME NEW p \in Processes, CommitMigration(p)
      PROVE  /\ file' # Corrupt
             /\ \A f \in Files : file.rows[f] # NoRow => file'.rows[f] = file.rows[f]
  <2>1. IInv'
    BY <1>3, TransactionEnds
  <2>2. Native' /\ file' = Migrated(p)
    BY <1>3 DEF CommitMigration, Commit, Native
  <2>3. file' # Corrupt
    BY <2>1, <2>2 DEF IInv
  <2>4. /\ file.rows[runs[p].at] = NoRow
        /\ Migrated(p).rows =
             [file.rows EXCEPT ![runs[p].at] = runs[p].text[runs[p].at]]
    BY <1>3 DEF CommitMigration, View, Migrated
  <2> QED BY <1>1, <2>2, <2>3, <2>4
<1>4. ASSUME NEW p \in Processes, Start(p) \/ Step(p) \/ Crash(p), ~ CommitMigration(p)
      PROVE  file' = file
  <2>1. CASE Step(p)
    BY <1>4, <2>1
       DEF Step, initialize, initializeThrows, loadApplied, loadAppliedThrows,
           SkipFile, RejectFile, ExecMigration, FailMigration, RollbackMigration,
           Finish, close, closeThrows, View
  <2>2. CASE Start(p)
    BY <2>2 DEF Start
  <2>3. CASE Crash(p)
    BY <2>3 DEF Crash
  <2> QED BY <1>4, <2>1, <2>2, <2>3
<1> QED BY <1>2, <1>3, <1>4 DEF Next, Edit, vars, Step

\* What the others do leaves a run what it has read.
LEMMA OthersKeep ==
  ASSUME IInv, [Next]_vars, NEW q \in Processes, Kept(q), runs'[q] = runs[q]
  PROVE  Kept(q)'
<1>1. driver' = driver
  BY DEF Next, Start, Step, Crash, Edit, vars, initialize, initializeThrows,
         loadApplied, loadAppliedThrows, SkipFile, RejectFile, ExecMigration,
         FailMigration, CommitMigration, RollbackMigration, Finish, close,
         closeThrows
<1>2. CASE Native
  <2>1. View(q) = file /\ View(q)' = file'
    BY <1>1, <1>2 DEF View, Native
  <2> QED BY <1>2, <2>1, FileGrows DEF Kept, Committing
<1>3. CASE ~ Native
  <2>1. View(q)' = View(q)
    BY <1>1, <1>3 DEF View, Native
  <2> QED BY <2>1 DEF Kept, Committing
<1> QED BY <1>2, <1>3

\* The steps of a run that leave it nothing to keep: it is not yet loaded, or it
\* ends without having returned.
LEMMA NothingToKeep ==
  ASSUME NEW p \in Processes, runs \in [Processes -> Run],
         \/ runs'[p].pc \in {"none", "done"}
         \/ runs'[p].pc = "close" /\ runs'[p].outcome = "threw"
         \/ runs'[p].pc \in {"open", "load"} /\ \A f \in Files : runs'[p].text[f] = NoRow
  PROVE  Kept(p)'
BY DEF Kept

\* A run that goes on with the same database and the same rows loaded keeps what
\* it has read, when the file it handles now is recorded or about to be.
LEMMA GoesOn ==
  ASSUME NEW p \in Processes, Kept(p), runs[p].pc = "loop",
         runs'[p].existing = runs[p].existing, View(p)' = View(p),
         runs'[p].pc \in {"loop", "commit", "close"},
         \A f \in Files : \/ runs'[p].text[f] = runs[p].text[f]
                          \/ runs'[p].text[f] = Blank
                          \/ runs'[p].text[f] = View(p).rows[f]
                          \/ runs'[p].pc = "commit" /\ runs'[p].at = f
  PROVE  Kept(p)'
BY DEF Kept, Committing

LEMMA OwnStepsKeep ==
  ASSUME IInv, NEW p \in Processes, Kept(p), Start(p) \/ Step(p) \/ Crash(p)
  PROVE  Kept(p)'
<1>1. /\ runs \in [Processes -> Run]
      /\ runs[p] \in Run
      /\ runs[p].text \in [Files -> Recorded]
      /\ runs[p].existing \in [Files -> Recorded]
      /\ dir \in [Files -> Texts \cup {NoFile}]
  BY DEF IInv, TypeOK, Run
<1>2. CASE loadApplied(p)
  <2>1. /\ runs'[p].existing = View(p).rows
        /\ runs'[p].text = runs[p].text
        /\ runs'[p].db = runs[p].db
        /\ runs'[p].pc = "loop"
        /\ View(p) # Corrupt
        /\ UNCHANGED <<driver, file>>
    BY <1>1, <1>2 DEF loadApplied, Run
  <2>2. \A f \in Files : runs[p].text[f] = NoRow
    BY <1>2 DEF loadApplied, Kept
  <2>3. View(p)' = View(p)
    BY <2>1 DEF View, Native
  <2> QED BY <2>1, <2>2, <2>3 DEF Kept
<1>3. ASSUME NEW f \in Files, NEW pc \in {"loop", "commit"},
             runs[p].pc = "loop", Handled(p, f, dir[f], pc),
             UNCHANGED <<driver, file>>,
             pc = "loop" => dir[f] = Blank \/ (runs[p].existing[f] = dir[f] /\ dir[f] # NoFile)
      PROVE  Kept(p)'
  <2>1. /\ runs'[p].pc = pc /\ runs'[p].at = f
        /\ runs'[p].existing = runs[p].existing
        /\ runs'[p].db = runs[p].db
        /\ runs'[p].text = [runs[p].text EXCEPT ![f] = dir[f]]
    BY <1>1, <1>3 DEF Handled, Run
  <2>2. View(p)' = View(p)
    BY <1>3, <2>1 DEF View, Native
  <2>3. \A g \in Files : g # f => runs'[p].text[g] = runs[p].text[g]
    BY <1>1, <2>1
  <2>4. runs'[p].text[f] = dir[f]
    BY <1>1, <2>1
  <2>5. pc = "loop" => dir[f] = Blank \/ dir[f] = View(p).rows[f]
    BY <1>1, <1>3, MigrationAssumption DEF Kept
  <2>6. \A g \in Files : \/ runs'[p].text[g] = runs[p].text[g]
                         \/ runs'[p].text[g] = Blank
                         \/ runs'[p].text[g] = View(p).rows[g]
                         \/ runs'[p].pc = "commit" /\ runs'[p].at = g
    <3>1. CASE pc = "loop"
      BY <2>3, <2>4, <2>5, <3>1
    <3>2. CASE pc = "commit"
      BY <2>1, <2>3, <3>2
    <3> QED BY <1>3, <3>1, <3>2
  <2> QED BY <1>3, <2>1, <2>2, <2>6, GoesOn
<1>4. CASE SkipFile(p)
  BY <1>3, <1>4 DEF SkipFile, AtFile
<1>5. CASE ExecMigration(p)
  BY <1>3, <1>5 DEF ExecMigration, Pending, AtFile
<1>6. CASE Finish(p)
  <2>1. /\ runs'[p].pc = "close" /\ runs[p].pc = "loop"
        /\ runs'[p].existing = runs[p].existing
        /\ runs'[p].db = runs[p].db
        /\ runs'[p].text = runs[p].text
        /\ UNCHANGED <<driver, file>>
    BY <1>1, <1>6 DEF Finish, Run
  <2>2. View(p)' = View(p)
    BY <2>1 DEF View, Native
  <2> QED BY <2>1, <2>2, GoesOn
<1>7. CASE CommitMigration(p)
  <2> DEFINE at == runs[p].at
  <2>1. /\ View(p) \in Database
        /\ at \in Files
        /\ View(p).rows[at] = NoRow
        /\ View(p).rows \in [Files -> Recorded]
        /\ View(p) # Corrupt
    BY <1>1, <1>7 DEF IInv, TypeOK, Working, View, Run, CommitMigration, Database
  <2>2. /\ runs'[p].pc = "loop" /\ runs[p].pc = "commit"
        /\ runs'[p].existing = runs[p].existing
        /\ runs'[p].text = runs[p].text
        /\ driver' = driver
    BY <1>1, <1>7 DEF CommitMigration, Commit, Run
  <2>3. View(p)' = Migrated(p)
    <3>1. CASE Native
      BY <1>7, <2>2, <3>1 DEF CommitMigration, Commit, View, Native
    <3>2. CASE ~ Native
      <4>1. runs'[p].db = Migrated(p)
        BY <1>1, <1>7, <3>2 DEF CommitMigration, Commit, Run
      <4> QED BY <2>2, <3>2, <4>1 DEF View, Native
    <3> QED BY <3>1, <3>2
  <2>4. Migrated(p).rows = [View(p).rows EXCEPT ![at] = runs[p].text[at]]
    BY DEF Migrated
  <2>5. View(p)' # Corrupt
    <3>1. IInv'
      BY <1>7, TransactionEnds
    <3> QED BY <2>2, <3>1 DEF IInv, Working
  <2>6. \A f \in Files : View(p)'.rows[f] =
                           IF f = at THEN runs[p].text[at] ELSE View(p).rows[f]
    BY <2>1, <2>3, <2>4
  <2>7. ASSUME NEW f \in Files
        PROVE  /\ runs[p].existing[f] # NoRow => View(p)'.rows[f] = runs[p].existing[f]
               /\ runs[p].text[f] \notin {NoRow, Blank} =>
                    View(p)'.rows[f] = runs[p].text[f]
    BY <2>1, <2>2, <2>6 DEF Kept, Committing
  <2> QED BY <2>2, <2>5, <2>7 DEF Kept
<1>8. CASE Throw(p)
  <2>1. runs'[p].pc = "close" /\ runs'[p].outcome = "threw"
    BY <1>1, <1>8 DEF Throw, Run
  <2> QED BY <1>1, <2>1, NothingToKeep
<1>9. CASE Start(p) \/ initialize(p)
  <2>1. /\ runs'[p].pc \in {"open", "load"}
        /\ \A f \in Files : runs'[p].text[f] = NoRow
    <3>1. CASE Start(p)
      BY <1>1, <3>1 DEF Start, NoRun
    <3>2. CASE initialize(p)
      BY <1>1, <3>2 DEF initialize, Run, Kept
    <3> QED BY <1>9, <3>1, <3>2
  <2> QED BY <1>1, <2>1, NothingToKeep
<1>10. CASE initializeThrows(p) \/ close(p) \/ closeThrows(p) \/ Crash(p)
  <2>1. runs'[p].pc = "done"
    BY <1>1, <1>10 DEF initializeThrows, close, closeThrows, Crash, To, Run
  <2> QED BY <1>1, <2>1, NothingToKeep
<1> QED
  BY <1>2, <1>4, <1>5, <1>6, <1>7, <1>8, <1>9, <1>10
     DEF Step, loadAppliedThrows, RejectFile, FailMigration, RollbackMigration

LEMMA RunsKept == Spec => []EveryRunKept
<1>1. Init => EveryRunKept
  <2>1. SUFFICES ASSUME Init, NEW p \in Processes PROVE Kept(p)
    BY DEF EveryRunKept
  <2>2. runs[p].pc = "none"
    BY <2>1 DEF Init, NoRun
  <2> QED BY <2>2 DEF Kept
<1>2. ASSUME IInv, EveryRunKept, [Next]_vars
      PROVE  EveryRunKept'
  <2>1. SUFFICES ASSUME NEW q \in Processes PROVE Kept(q)'
    BY DEF EveryRunKept
  <2>2. Kept(q) /\ runs \in [Processes -> Run]
    BY <1>2 DEF EveryRunKept, IInv, TypeOK
  <2>3. CASE runs'[q] = runs[q]
    BY <1>2, <2>2, <2>3, OthersKeep
  <2>4. CASE Start(q) \/ Step(q) \/ Crash(q)
    BY <1>2, <2>2, <2>4, OwnStepsKeep
  <2>5. ASSUME NEW p \in Processes, p # q, Start(p) \/ Step(p) \/ Crash(p)
        PROVE  runs'[q] = runs[q]
    BY <2>2, <2>5
       DEF Start, Step, Crash, initialize, initializeThrows, loadApplied,
           loadAppliedThrows, SkipFile, RejectFile, ExecMigration, FailMigration,
           CommitMigration, RollbackMigration, Finish, close, closeThrows, To,
           Throw, Handled, Commit
  <2> QED BY <1>2, <2>3, <2>4, <2>5 DEF Next, Edit, vars
<1>3. Spec => []IInv
  BY Initial, Inductive, PTL DEF Spec
<1> QED BY <1>1, <1>2, <1>3, PTL DEF Spec

-----------------------------------------------------------------------------
(* Theorems.                                                               *)

\* Types: the database file is a database or unreadable, and a file that was
\* deleted after it was listed never counts as one that was read.
THEOREM MigrationTypeCorrect == Spec => []TypeOK
<1>1. IInv => TypeOK
  BY DEF IInv
<1> QED BY <1>1, Initial, Inductive, PTL DEF Spec

\* Whatever processes run at once, whichever driver they use, and wherever
\* they die or a write fails, a database that can be read records exactly the
\* migrations that were executed on it, once each.
THEOREM RecordsAreExact == Spec => []RecordedAsExecuted
<1>1. IInv => RecordedAsExecuted
  BY DEF IInv, Sound, RecordedAsExecuted
<1> QED BY <1>1, Initial, Inductive, PTL DEF Spec

\* When a run returns, every file it listed, the blank ones apart, is recorded
\* on disk with the text it then had, whatever other processes did meanwhile
\* and whichever driver is used.
THEOREM ReturnMeansMigrated == Spec => ReturnedIsMigrated
<1>1. ASSUME EveryRunKept, NEW p \in Processes, close(p), runs[p].outcome = "returned"
      PROVE  /\ file' # Corrupt
             /\ \A f \in Files : runs[p].text[f] \notin {NoRow, Blank} =>
                  file'.rows[f] = runs[p].text[f]
  <2>1. file' = View(p) /\ runs[p].pc = "close" /\ Kept(p)
    BY <1>1 DEF close, EveryRunKept
  <2> QED BY <1>1, <2>1 DEF Kept, Committing
<1>2. EveryRunKept =>
        [\A p \in Processes :
           (close(p) /\ runs[p].outcome = "returned") =>
             /\ file' # Corrupt
             /\ \A f \in Files :
                  runs[p].text[f] \notin {NoRow, Blank} =>
                    file'.rows[f] = runs[p].text[f]]_vars
  BY <1>1
<1> QED BY <1>2, RunsKept, PTL DEF ReturnedIsMigrated

\* A migration is committed only after every file that the run met earlier,
\* the blank ones apart, is recorded with the text the run read of it.
THEOREM EarlierCommitFirst == Spec => EarlierFirst
<1>1. ASSUME IInv, EveryRunKept, NEW p \in Processes, CommitMigration(p),
             NEW f \in Files, f < runs[p].at, runs[p].text[f] \notin {NoRow, Blank}
      PROVE  View(p).rows[f] = runs[p].text[f]
  <2>1. Kept(p) /\ runs[p].pc = "commit" /\ runs[p].at \in Files
    BY <1>1 DEF EveryRunKept, CommitMigration, IInv, Working
  <2>2. f # runs[p].at
    BY <1>1, <2>1, MigrationAssumption
  <2> QED BY <1>1, <2>1, <2>2 DEF Kept, Committing
<1>2. IInv /\ EveryRunKept =>
        [\A p \in Processes :
           CommitMigration(p) =>
             \A f \in Files :
               (f < runs[p].at /\ runs[p].text[f] \notin {NoRow, Blank}) =>
                 View(p).rows[f] = runs[p].text[f]]_vars
  BY <1>1
<1>3. Spec => []IInv
  BY Initial, Inductive, PTL DEF Spec
<1> QED BY <1>2, <1>3, RunsKept, PTL DEF EarlierFirst

===============================================================================
