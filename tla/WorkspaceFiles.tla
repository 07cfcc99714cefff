--------------------------- MODULE WorkspaceFiles ---------------------------
(***************************************************************************)
(* The files of one workspace folder: workspace.json, the SQLite database  *)
(* with its migrations, the backup folders beside it, and the app's        *)
(* settings file that names the folder.  The app and any number of CLI     *)
(* processes open the same folder at once; each may stop between any two   *)
(* steps.  The app's own requests do not interleave with each other here:  *)
(* its file operations are synchronous.                                    *)
(*                                                                         *)
(* Knowledge is abstracted to the number of committed writes: what the     *)
(* files must not do is lose one.                                          *)
(***************************************************************************)
EXTENDS Naturals, FiniteSets

CONSTANTS
  App, Clis,
  LastMigration,      (* the catalog is 1..LastMigration                    *)
  RequiredMigration,  (* the app works on a database that has this one      *)
  MaxWrites,          (* bound on the committed writes                      *)
  MaxBackups,         (* bound on the backup names                          *)
  MaxFaults           (* bound on stops and failed operations               *)

Processes == {App} \cup Clis
Migrations == 1..LastMigration
Names == 1..MaxBackups
None == "none"
Torn == "torn"

ASSUME FilesConstants ==
  /\ App \notin Clis /\ {None, Torn} \cap Processes = {}
  /\ LastMigration \in Nat \ {0} /\ RequiredMigration \in Migrations
  /\ MaxWrites \in Nat \ {0} /\ MaxBackups \in Nat /\ MaxFaults \in Nat

VARIABLES
  config,         (* workspace.json: absent, cut short, or whose it is      *)
  database,       (* the database file exists                               *)
  applied,        (* schema_migrations                                      *)
  rows,           (* committed writes                                       *)
  writer,         (* who holds SQLite's write lock                          *)
  workspacePath,  (* the settings file names the folder                     *)
  backups,        (* what stands under each backup name                     *)
  calls,          (* the call each process is in                            *)
  asked,          (* the rows there were when the running update was asked  *)
  faults          (* how many there were                                    *)

folder == << config, workspacePath, backups, asked >>
store == << database, applied, rows, writer >>
vars == << folder, store, calls, faults >>

Free == [state |-> "free", config |-> None, database |-> FALSE,
         applied |-> {}, rows |-> 0]
Idle == [at |-> "idle", job |-> None, next |-> 1, name |-> 0]

UpToDate == database /\ LastMigration \in applied

Goto(p, step) == calls' = [calls EXCEPT ![p].at = step]
End(p) == calls' = [calls EXCEPT ![p] = Idle]
Start(p, job, step) ==
  /\ calls[p] = Idle
  /\ calls' = [calls EXCEPT ![p].at = step, ![p].job = job]

---------------------------------------------------------------------------
(* The constructor of SqliteLifecycleStore, and runMigrations: for each     *)
(* migration a look at schema_migrations, and then a transaction.           *)

OpenStore(p) ==
  /\ calls[p].at = "open"
  /\ database' = TRUE
  /\ Goto(p, "select")
  /\ UNCHANGED << folder, applied, rows, writer, faults >>

Select(p) ==
  /\ calls[p].at = "select" /\ calls[p].next \in Migrations
  /\ IF calls[p].next \in applied
     THEN calls' = [calls EXCEPT ![p].next = @ + 1]
     ELSE Goto(p, "begin")
  /\ UNCHANGED << folder, store, faults >>

BeginMigration(p) ==
  /\ calls[p].at = "begin"
  /\ writer = None /\ writer' = p
  /\ Goto(p, "migrate")
  /\ UNCHANGED << folder, database, applied, rows, faults >>

(* A migration that another process has committed in the meantime cannot    *)
(* be repeated: its tables exist, and schema_migrations has its id.         *)
Migrate(p) ==
  /\ calls[p].at = "migrate"
  /\ writer' = None
  /\ IF calls[p].next \in applied
     THEN applied' = applied /\ End(p)
     ELSE /\ applied' = applied \cup {calls[p].next}
          /\ calls' = [calls EXCEPT ![p].at = "select", ![p].next = @ + 1]
  /\ UNCHANGED << folder, database, rows, faults >>

Opened(p) == calls[p].at = "select" /\ calls[p].next \notin Migrations

---------------------------------------------------------------------------
(* initWorkspace, behind "workspace init" and behind the setup of the app.  *)

WriteConfig(p) ==
  /\ calls[p].at = "config"
  /\ config' = Torn
  /\ Goto(p, "configured")
  /\ UNCHANGED << workspacePath, backups, asked, store, faults >>

FinishConfig(p) ==
  /\ calls[p].at = "configured"
  /\ config' = p
  /\ Goto(p, "open")
  /\ UNCHANGED << workspacePath, backups, asked, store, faults >>

CliInit(p) ==
  /\ p \in Clis /\ config = None
  /\ Start(p, "init", "config")
  /\ UNCHANGED << folder, store, faults >>

CliInitDone(p) ==
  /\ calls[p].job = "init" /\ Opened(p) /\ End(p)
  /\ UNCHANGED << folder, store, faults >>

(* createOrOpenWorkspace.                                                   *)
Create ==
  /\ ~workspacePath /\ config = None /\ ~database
  /\ Start(App, "create", "config")
  /\ UNCHANGED << folder, store, faults >>

CreateDone ==
  /\ calls[App].job = "create" /\ Opened(App) /\ End(App)
  /\ workspacePath' = TRUE
  /\ UNCHANGED << config, backups, asked, store, faults >>

OpenExisting ==
  /\ ~workspacePath /\ config \in Processes /\ calls[App] = Idle
  /\ workspacePath' = TRUE
  /\ UNCHANGED << config, backups, asked, store, calls, faults >>

---------------------------------------------------------------------------
(* A CLI command: withWorkspace opens the store, migrates it, and runs one  *)
(* write transaction.  A write of the app never migrates.                   *)

Command(p) ==
  /\ p \in Clis /\ config \in Processes
  /\ Start(p, "command", "open")
  /\ UNCHANGED << folder, store, faults >>

BeginWrite(p) ==
  /\ calls[p].job = "command" /\ Opened(p) /\ rows < MaxWrites
  /\ writer = None /\ writer' = p
  /\ Goto(p, "write")
  /\ UNCHANGED << folder, database, applied, rows, faults >>

CommitWrite(p) ==
  /\ calls[p].at = "write"
  /\ rows' = rows + 1 /\ writer' = None
  /\ End(p)
  /\ UNCHANGED << folder, database, applied, faults >>

CommandDone(p) ==
  /\ calls[p].job = "command" /\ Opened(p) /\ End(p)
  /\ UNCHANGED << folder, store, faults >>

AppWrite ==
  /\ workspacePath /\ config \in Processes /\ calls[App] = Idle
  /\ database /\ RequiredMigration \in applied
  /\ writer = None /\ rows < MaxWrites
  /\ rows' = rows + 1
  /\ UNCHANGED << folder, database, applied, writer, calls, faults >>

---------------------------------------------------------------------------
(* updateLogbook.                                                           *)

(* Mutant of FreeNames: a name is taken only while a copy is being made.    *)
NamesWithoutPartial == {n \in Names : backups[n].state # "partial"}

(* Mutant of FreeNames: no second name is tried.                            *)
FirstNameOnly == {n \in {1} : backups[n].state = "free"}

FreeNames == {n \in Names : backups[n].state = "free"}
BackupName(n) == n \in FreeNames /\ \A m \in FreeNames : n <= m

Update ==
  /\ workspacePath /\ config \in Processes /\ database /\ ~UpToDate
  /\ \E n \in Names :
       /\ BackupName(n)
       /\ calls[App] = Idle
       /\ calls' = [calls EXCEPT ![App] =
                      [at |-> "copy", job |-> "update", next |-> 1, name |-> n]]
  /\ asked' = rows
  /\ UNCHANGED << config, workspacePath, backups, store, faults >>

(* Mutant of CopyFolder: the copy has its final name from the start.        *)
CopyUnderFinalName ==
  /\ calls[App].at = "copy"
  /\ backups' = [backups EXCEPT ![calls[App].name] =
                   [Free EXCEPT !.state = "whole", !.config = config]]
  /\ Goto(App, "vacuum")
  /\ UNCHANGED << config, workspacePath, asked, store, faults >>

CopyFolder ==
  /\ calls[App].at = "copy"
  /\ backups' = [backups EXCEPT ![calls[App].name] =
                   [Free EXCEPT !.state = "partial", !.config = config]]
  /\ Goto(App, "vacuum")
  /\ UNCHANGED << config, workspacePath, asked, store, faults >>

CopyDatabase ==
  /\ calls[App].at = "vacuum"
  /\ backups' = [backups EXCEPT ![calls[App].name] =
                   [@ EXCEPT !.database = TRUE, !.applied = applied, !.rows = rows]]
  /\ Goto(App, "rename")
  /\ UNCHANGED << config, workspacePath, asked, store, faults >>

RenameCopy ==
  /\ calls[App].at = "rename"
  /\ backups' = [backups EXCEPT ![calls[App].name].state = "whole"]
  /\ Goto(App, "open")
  /\ UNCHANGED << config, workspacePath, asked, store, faults >>

UpdateDone ==
  /\ calls[App].job = "update" /\ Opened(App) /\ End(App)
  /\ UNCHANGED << folder, store, faults >>

---------------------------------------------------------------------------
(* Faults.  A failed copy is removed; a transaction of a process that       *)
(* fails or stops is rolled back.  Only a stop leaves files as they are.    *)

(* Mutant of Release: the transaction is not rolled back.                   *)
KeepLock(p) == writer' = writer

Release(p) == writer' = IF writer = p THEN None ELSE writer
Fault == faults < MaxFaults /\ faults' = faults + 1

(* Mutant of CopyFails: the update goes on without its backup.              *)
MigrateAnyway ==
  /\ calls[App].at \in {"copy", "vacuum", "rename"} /\ Fault
  /\ backups' = [backups EXCEPT ![calls[App].name] = Free]
  /\ Goto(App, "open")
  /\ UNCHANGED << config, workspacePath, asked, store >>

CopyFails ==
  /\ calls[App].at \in {"copy", "vacuum", "rename"} /\ Fault
  /\ backups' = [backups EXCEPT ![calls[App].name] = Free]
  /\ End(App)
  /\ UNCHANGED << config, workspacePath, asked, store >>

StoreFails(p) ==
  /\ calls[p].at \in {"open", "begin", "migrate", "write"} /\ Fault
  /\ Release(p) /\ End(p)
  /\ UNCHANGED << folder, database, applied, rows >>

Stop(p) ==
  /\ calls[p] # Idle /\ Fault
  /\ Release(p) /\ End(p)
  /\ UNCHANGED << folder, database, applied, rows >>

---------------------------------------------------------------------------
(* The program starts on an empty folder, or on a workspace an older        *)
(* version made.                                                            *)
Init ==
  /\ \/ config = None /\ database = FALSE /\ applied = {} /\ rows = 0
     \/ /\ config \in Clis /\ database = TRUE
        /\ applied \in {1..n : n \in Migrations} /\ rows = 1
  /\ workspacePath \in {FALSE, config # None}
  /\ writer = None /\ asked = 0 /\ faults = 0
  /\ backups = [n \in Names |-> Free]
  /\ calls = [p \in Processes |-> Idle]

RunMigrations(p) == Select(p) \/ BeginMigration(p) \/ Migrate(p)

Proceed(p) ==
  \/ WriteConfig(p) \/ FinishConfig(p)
  \/ OpenStore(p) \/ RunMigrations(p)
  \/ CliInitDone(p) \/ BeginWrite(p) \/ CommitWrite(p) \/ CommandDone(p)

AppProceeds ==
  \/ Proceed(App)
  \/ CreateDone
  \/ CopyFolder \/ CopyDatabase \/ RenameCopy \/ UpdateDone

Next ==
  \/ AppProceeds \/ Create \/ OpenExisting \/ AppWrite \/ Update \/ CopyFails
  \/ \E p \in Clis : Proceed(p) \/ CliInit(p) \/ Command(p)
  \/ \E p \in Processes : StoreFails(p) \/ Stop(p)

Spec == Init /\ [][Next]_vars

(* A process that was not stopped goes on, and the lock is granted in turn  *)
(* within the busy timeout; the captain comes back to the setup, and clicks *)
(* the update for as long as the page offers it.                            *)
Captain == Create \/ OpenExisting \/ Update
FairSpec ==
  /\ Spec
  /\ SF_vars(AppProceeds) /\ \A p \in Clis : SF_vars(Proceed(p))
  /\ SF_vars(Captain)

---------------------------------------------------------------------------
(* The migrations in the database are always the first ones of the catalog, *)
(* whoever applies them and whatever fails, and so are those of a backup.   *)
FirstOnes(s) == \A m \in s : \A n \in 1..m : n \in s
TypeOK ==
  /\ config \in Processes \cup {None, Torn}
  /\ database \in BOOLEAN /\ applied \subseteq Migrations /\ FirstOnes(applied)
  /\ rows \in 0..MaxWrites /\ writer \in Processes \cup {None}
  /\ workspacePath \in BOOLEAN /\ asked \in 0..MaxWrites /\ faults \in 0..MaxFaults
  /\ \A n \in Names :
       /\ backups[n].state \in {"free", "partial", "whole"}
       /\ backups[n].applied \subseteq applied /\ FirstOnes(backups[n].applied)
       /\ backups[n].rows \in 0..rows
  /\ DOMAIN calls = Processes

(* A process in a write transaction holds the only write lock, and nobody   *)
(* who has failed or stopped keeps it.                                      *)
OneWriter ==
  \A p \in Processes : calls[p].at \in {"migrate", "write"} <=> writer = p

(* A folder with the name of a backup is one, it has the database; and when *)
(* an update goes on to migrate, its own backup has everything that was in  *)
(* the logbook when the update was asked for, and not the migration.        *)
BackupIsWhole ==
  /\ TypeOK /\ OneWriter
  /\ \A n \in Names : backups[n].state = "whole" => backups[n].database
  /\ calls[App].job = "update" /\ calls[App].at \notin {"copy", "vacuum", "rename"}
       => /\ backups[calls[App].name].state = "whole"
          /\ backups[calls[App].name].rows >= asked
          /\ calls[App].at = "migrate" => calls[App].next \notin backups[calls[App].name].applied

(* A finished backup is never touched again, by later updates either.       *)
BackupsAreKept ==
  [][ \A n \in Names : backups[n].state = "whole" => backups'[n] = backups[n] ]_vars

(* A logbook the app has opened ends up with every migration, however often *)
(* a migration lost a race, failed or was interrupted, unless its           *)
(* configuration was cut short.                                             *)
GetsUpdated ==
  workspacePath /\ database ~> UpToDate \/ config = Torn

(* What the documentation promises of an interrupted setup: when the app is *)
(* started again and the person goes on, a workspace whose configuration    *)
(* was written becomes a logbook the app can use.                           *)
SetupContinues == config \in Processes ~> workspacePath /\ UpToDate
=============================================================================
