------------------------ MODULE WorkspaceFilesProofs ------------------------
(***************************************************************************)
(* The update of a workspace, for any number of CLI processes, migrations, *)
(* writes, backup names and faults: its backup is whole before it migrates *)
(* anything, and stays whatever happens later.  And exported backups, for  *)
(* any programs and rows: one moment of the workspace, which verifies.     *)
(***************************************************************************)
EXTENDS WorkspaceFiles, WorkspaceExport, SequenceTheorems, TLAPS

Stages == {"idle", "config", "configured", "open", "select", "begin", "migrate",
           "write", "copy", "vacuum", "rename"}
Copying == {"copy", "vacuum", "rename"}
Jobs == {None, "init", "create", "command", "update"}
Call == [at : Stages, job : Jobs, next : 1 .. LastMigration + 1, name : 0 .. MaxBackups]
Backup == [state : {"free", "partial", "whole"}, config : Processes \cup {None, Torn},
           database : BOOLEAN, applied : SUBSET Migrations, rows : 0 .. MaxWrites]

Typed ==
  /\ config \in Processes \cup {None, Torn}
  /\ database \in BOOLEAN /\ applied \in SUBSET Migrations
  /\ rows \in 0 .. MaxWrites /\ writer \in Processes \cup {None}
  /\ workspacePath \in BOOLEAN /\ asked \in 0 .. rows /\ faults \in 0 .. MaxFaults
  /\ backups \in [Names -> Backup]
  /\ calls \in [Processes -> Call]

(* What a call at its place has done: it has seen every earlier migration   *)
(* committed, it holds the lock exactly in a transaction, and only the app  *)
(* copies and updates.                                                      *)
Done(c, p, done, lock) ==
  /\ \A m \in Migrations : m < c.next => m \in done
  /\ c.at \in {"begin", "migrate"} => c.next \in Migrations
  /\ c.at \in {"migrate", "write"} <=> lock = p
  /\ c.at \in Copying => c.job = "update"
  /\ c.job = "update" => p = App /\ c.name \in Names

(* What stands under the name of the backup of the update at its place.     *)
BackedUp(c, b) ==
  /\ c.at = "copy" => b.state = "free"
  /\ c.at \in {"vacuum", "rename"} => b.state = "partial"
  /\ c.at \notin {"copy", "vacuum"} => b.database /\ b.rows >= asked
  /\ c.at \notin Copying => b.state = "whole"
  /\ c.at \in {"begin", "migrate"} => c.next \notin b.applied

(* A backup has a prefix of the catalog, no more than the logbook has.      *)
Holds(b) ==
  /\ b.state = "whole" => b.database
  /\ b.applied \subseteq applied /\ FirstOnes(b.applied) /\ b.rows <= rows

FilesInv ==
  /\ Typed
  /\ FirstOnes(applied)
  /\ \A p \in Processes : Done(calls[p], p, applied, writer)
  /\ \A p \in Processes : calls[p].at = "write" => rows < MaxWrites
  /\ \A n \in Names : Holds(backups[n])
  /\ calls[App].job = "update" => BackedUp(calls[App], backups[calls[App].name])

LEMMA FilesInvInit == Init => FilesInv
<1> SUFFICES ASSUME Init PROVE FilesInv
  OBVIOUS
<1> USE FilesConstants
<1>1. applied \in SUBSET Migrations /\ FirstOnes(applied)
  BY DEF Init, FirstOnes, Migrations
<1>2. Typed
  <2>1. Idle \in Call /\ Free \in Backup
    BY DEF Idle, Free, Call, Backup, Stages, Jobs, Migrations
  <2>2. workspacePath \in BOOLEAN
    BY Zenon DEF Init
  <2>3. /\ config \in Processes \cup {None, Torn}
        /\ rows \in 0 .. MaxWrites /\ asked \in 0 .. rows
    BY DEF Init, Processes
  <2>5. database \in BOOLEAN
    BY Zenon DEF Init
  <2>4. /\ backups \in [Names -> Backup] /\ calls \in [Processes -> Call]
        /\ writer \in Processes \cup {None} /\ faults \in 0 .. MaxFaults
    BY <2>1 DEF Init
  <2> QED BY <1>1, <2>2, <2>3, <2>4, <2>5 DEF Typed
<1>3. \A p \in Processes : Done(calls[p], p, applied, writer)
  BY DEF Init, Done, Idle, Copying, Migrations, None, Processes
<1>4. \A n \in Names : Holds(backups[n])
  BY <1>2 DEF Init, Holds, Free, FirstOnes, Typed
<1>5. calls[App].job # "update" /\ \A p \in Processes : calls[p].at # "write"
  BY DEF Init, Idle, None, Processes
<1> QED BY <1>1, <1>2, <1>3, <1>4, <1>5 DEF FilesInv

(* A step of one process that leaves the backups alone: what its call must  *)
(* have done at its next place, given what the step does to the store.      *)
Moves(p, c) ==
  /\ c \in Call /\ calls' = [calls EXCEPT ![p] = c]
  /\ backups' = backups /\ asked' = asked
  /\ config' \in Processes \cup {None, Torn}
  /\ database' \in BOOLEAN /\ workspacePath' \in BOOLEAN
  /\ applied \subseteq applied' /\ applied' \subseteq Migrations /\ FirstOnes(applied')
  /\ rows' \in rows .. MaxWrites /\ faults' \in 0 .. MaxFaults
  /\ writer' \in Processes \cup {None}
  /\ \A q \in Processes \ {p} : writer' = q <=> writer = q
  /\ rows' = rows \/ writer = p
  /\ c.at = "write" => rows' < MaxWrites
  /\ Done(c, p, applied', writer')
  /\ c.job = "update" => BackedUp(c, backups[c.name])

LEMMA OneCallMoves ==
  ASSUME FilesInv, NEW p \in Processes, NEW c, Moves(p, c)
  PROVE  FilesInv'
<1> USE FilesConstants DEF Moves
<1>1. Typed'
  BY DEF FilesInv, Typed
<1>2. \A q \in Processes : Done(calls'[q], q, applied', writer')
  BY DEF FilesInv, Typed, Done
<1>5. \A q \in Processes : calls'[q].at = "write" => rows' < MaxWrites
  BY DEF FilesInv, Typed, Done
<1>3. /\ FirstOnes(applied')
      /\ \A n \in Names : Holds(backups[n])'
  BY DEF FilesInv, FirstOnes, Holds, Typed, Backup
<1>4. (calls[App].job = "update" => BackedUp(calls[App], backups[calls[App].name]))'
  <2>1. App \in Processes
    BY DEF Processes
  <2> QED BY <2>1 DEF FilesInv, Typed, BackedUp, Done
<1> QED BY <1>1, <1>2, <1>3, <1>4, <1>5 DEF FilesInv

(* The steps every process has in common.                                   *)
LEMMA ProceedKeeps ==
  ASSUME FilesInv, NEW p \in Processes, Proceed(p)
  PROVE  FilesInv'
<1> USE FilesConstants DEF Stages, Jobs, Idle
<1> DEFINE c == calls[p]
<1>0. /\ Typed /\ FirstOnes(applied) /\ Done(c, p, applied, writer) /\ c \in Call
      /\ c.job = "update" => BackedUp(c, backups[c.name])
      /\ c.at = "write" => rows < MaxWrites
  BY DEF FilesInv, Typed, Done
<1>1. CASE WriteConfig(p)
  <2>1. Moves(p, [c EXCEPT !.at = "configured"])
    BY <1>0, <1>1 DEF WriteConfig, Moves, Typed, Done, BackedUp, Copying, Call, Goto, store
  <2> QED BY <2>1, OneCallMoves
<1>2. CASE FinishConfig(p)
  <2>1. Moves(p, [c EXCEPT !.at = "open"])
    BY <1>0, <1>2 DEF FinishConfig, Moves, Typed, Done, BackedUp, Copying, Call, Goto, store
  <2> QED BY <2>1, OneCallMoves
<1>3. CASE OpenStore(p)
  <2>1. Moves(p, [c EXCEPT !.at = "select"])
    BY <1>0, <1>3 DEF OpenStore, Moves, Typed, Done, BackedUp, Copying, Call, Goto, folder
  <2> QED BY <2>1, OneCallMoves
<1>4. CASE Select(p)
  <2>1. CASE c.next \in applied
    <3>1. Done([c EXCEPT !.next = @ + 1], p, applied, writer)
      BY <1>0, <1>4, <2>1 DEF Select, Done, Copying, Call, Migrations
    <3>2. Moves(p, [c EXCEPT !.next = @ + 1])
      BY <1>0, <1>4, <2>1, <3>1 DEF Select, Moves, Typed, BackedUp, Copying, Call, Migrations, folder, store
    <3> QED BY <3>2, OneCallMoves
  <2>2. CASE c.next \notin applied
    <3>1. c.job = "update" => c.next \notin backups[c.name].applied
      BY <2>2, <1>0 DEF FilesInv, Holds, Done
    <3>2. Moves(p, [c EXCEPT !.at = "begin"])
      BY <1>0, <1>4, <2>2, <3>1 DEF Select, Moves, Typed, Done, BackedUp, Copying, Call, Goto, Migrations, folder, store
    <3> QED BY <3>2, OneCallMoves
  <2> QED BY <2>1, <2>2
<1>5. CASE BeginMigration(p)
  <2>1. Moves(p, [c EXCEPT !.at = "migrate"])
    BY <1>0, <1>5 DEF BeginMigration, Moves, Typed, Done, BackedUp, Copying, Call, Goto, folder
  <2> QED BY <2>1, OneCallMoves
<1>6. CASE Migrate(p)
  <2>1. writer = p /\ c.next \in Migrations
    BY <1>0, <1>6 DEF Migrate, Done
  <2>2. CASE c.next \in applied
    <3>1. Moves(p, Idle)
      BY <1>0, <1>6, <2>1, <2>2 DEF None, Migrate, Moves, Typed, Done, Copying, Call, End, Migrations, folder
    <3> QED BY <3>1, OneCallMoves
  <2>3. CASE c.next \notin applied
    <3>1. FirstOnes(applied \cup {c.next})
      BY <1>0, <2>1 DEF FirstOnes, Done, Migrations, Typed
    <3>2. Moves(p, [c EXCEPT !.at = "select", !.next = @ + 1])
      BY <1>0, <1>6, <2>1, <2>3, <3>1 DEF Migrate, Moves, Typed, Done, BackedUp, Copying, Call, Migrations, folder
    <3> QED BY <3>2, OneCallMoves
  <2> QED BY <2>2, <2>3
<1>7. CASE CliInitDone(p) \/ CommandDone(p)
  <2>1. c.at = "select" /\ calls' = [calls EXCEPT ![p] = Idle] /\ UNCHANGED << folder, store, faults >>
    BY <1>7 DEF CliInitDone, CommandDone, Opened, End
  <2>2. Moves(p, Idle)
    BY <1>0, <2>1 DEF None, Moves, Typed, Done, Copying, Call, Migrations, folder, store
  <2> QED BY <2>2, OneCallMoves
<1>8. CASE BeginWrite(p)
  <2>1. Moves(p, [c EXCEPT !.at = "write"])
    BY <1>0, <1>8 DEF BeginWrite, Moves, Typed, Done, BackedUp, Copying, Call, Goto, Migrations, folder
  <2> QED BY <2>1, OneCallMoves
<1>9. CASE CommitWrite(p)
  <2>1. Moves(p, Idle)
    BY <1>0, <1>9 DEF None, CommitWrite, Moves, Typed, Done, Copying, Call, End, Migrations, folder
  <2> QED BY <2>1, OneCallMoves
<1> QED BY <1>1, <1>2, <1>3, <1>4, <1>5, <1>6, <1>7, <1>8, <1>9 DEF Proceed, RunMigrations

(* The other steps of the app, and those of a CLI.                          *)
LEMMA CallsKeep ==
  ASSUME FilesInv,
         \/ Create \/ CreateDone \/ OpenExisting \/ UpdateDone \/ AppWrite
         \/ \E p \in Clis : CliInit(p) \/ Command(p)
  PROVE  FilesInv'
<1> USE FilesConstants DEF Stages, Jobs, Idle
<1>0. /\ Typed /\ FirstOnes(applied) /\ App \in Processes /\ Clis \subseteq Processes
      /\ \A p \in Processes : Done(calls[p], p, applied, writer) /\ calls[p] \in Call
      /\ calls[App].job = "update" => BackedUp(calls[App], backups[calls[App].name])
  BY DEF FilesInv, Typed, Processes
<1>1. ASSUME Create PROVE FilesInv'
  <2>1. Moves(App, [Idle EXCEPT !.at = "config", !.job = "create"])
    BY <1>0, <1>1 DEF Create, Start, Moves, Typed, Done, Copying, Call, None, folder, store
  <2> QED BY <1>0, <2>1, OneCallMoves
<1>2. ASSUME NEW p \in Clis, CliInit(p) PROVE FilesInv'
  <2>1. Moves(p, [Idle EXCEPT !.at = "config", !.job = "init"])
    BY <1>0, <1>2 DEF CliInit, Start, Moves, Typed, Done, Copying, Call, None, folder, store
  <2> QED BY <1>0, <2>1, OneCallMoves
<1>3. ASSUME NEW p \in Clis, Command(p) PROVE FilesInv'
  <2>1. Moves(p, [Idle EXCEPT !.at = "open", !.job = "command"])
    BY <1>0, <1>3 DEF Command, Start, Moves, Typed, Done, Copying, Call, None, folder, store
  <2> QED BY <1>0, <2>1, OneCallMoves
<1>4. ASSUME CreateDone \/ UpdateDone PROVE FilesInv'
  <2>1. /\ calls[App].at = "select" /\ calls' = [calls EXCEPT ![App] = Idle]
        /\ UNCHANGED << config, backups, asked, store, faults >> /\ workspacePath' \in BOOLEAN
    BY <1>0, <1>4 DEF CreateDone, UpdateDone, Opened, End, Typed, folder
  <2>2. Moves(App, Idle)
    BY <1>0, <2>1 DEF None, Moves, Typed, Done, Copying, Call, Migrations, store
  <2> QED BY <1>0, <2>2, OneCallMoves
<1>5. ASSUME OpenExisting PROVE FilesInv'
  BY <1>0, <1>5 DEF FilesInv, OpenExisting, Typed, Done, BackedUp, Holds, store
<1>6. ASSUME AppWrite PROVE FilesInv'
  <2>1. /\ rows \in 0 .. MaxWrites - 1 /\ rows' = rows + 1 /\ writer = None
        /\ UNCHANGED << folder, database, applied, writer, calls, faults >>
    BY <1>0, <1>6 DEF AppWrite, Typed
  <2>2. \A p \in Processes : calls[p].at # "write"
    BY <1>0, <2>1 DEF Done
  <2>3. Typed'
    BY <1>0, <2>1 DEF Typed, folder
  <2>4. \A n \in Names : Holds(backups[n])'
    BY <1>0, <2>1 DEF FilesInv, Holds, Typed, Backup, folder
  <2> QED BY <1>0, <2>1, <2>2, <2>3, <2>4 DEF FilesInv, BackedUp, FirstOnes, Done, folder
<1> QED BY <1>1, <1>2, <1>3, <1>4, <1>5, <1>6

(* A step of the app that puts b under the name of its backup, which had    *)
(* no finished one.                                                         *)
Puts(c, b) ==
  /\ c \in Call /\ calls' = [calls EXCEPT ![App] = c]
  /\ b \in Backup /\ backups' = [backups EXCEPT ![calls[App].name] = b]
  /\ UNCHANGED << config, workspacePath, asked, store >>
  /\ faults' \in 0 .. MaxFaults
  /\ c.at \notin {"begin", "migrate", "write"} /\ calls[App].at \in Copying
  /\ c.next = calls[App].next \/ c.next = 1
  /\ c.at \in Copying => c.job = "update"
  /\ c.job = "update" => c.name = calls[App].name /\ BackedUp(c, b)
  /\ Holds(b)

LEMMA BackupStep ==
  ASSUME FilesInv, NEW c, NEW b, Puts(c, b)
  PROVE  /\ FilesInv'
         /\ \A n \in Names : backups[n].state = "whole" => backups'[n] = backups[n]
<1> USE FilesConstants DEF Puts
<1>0. /\ Typed /\ App \in Processes /\ Done(calls[App], App, applied, writer)
      /\ calls[App].name \in Names
      /\ BackedUp(calls[App], backups[calls[App].name])
  BY DEF FilesInv, Processes, Done
<1>1. Typed'
  BY <1>0 DEF Typed, store
<1>2. \A p \in Processes : /\ Done(calls'[p], p, applied', writer')
                           /\ calls'[p].at = "write" => rows' < MaxWrites
  BY <1>0 DEF FilesInv, Typed, Done, Migrations, Copying, Call, store
<1>3. FirstOnes(applied)' /\ \A n \in Names : Holds(backups[n])'
  BY <1>0 DEF FilesInv, FirstOnes, Holds, Typed, store
<1>4. (calls[App].job = "update" => BackedUp(calls[App], backups[calls[App].name]))'
  BY <1>0 DEF Typed, BackedUp
<1>5. \A n \in Names : backups[n].state = "whole" => backups'[n] = backups[n]
  BY <1>0 DEF Typed, BackedUp, Copying
<1> QED BY <1>1, <1>2, <1>3, <1>4, <1>5 DEF FilesInv

(* The copy of the update and its failure.                                  *)
LEMMA CopyKeeps ==
  ASSUME FilesInv, CopyFolder \/ CopyDatabase \/ RenameCopy \/ CopyFails
  PROVE  /\ FilesInv'
         /\ \A n \in Names : backups[n].state = "whole" => backups'[n] = backups[n]
<1> USE FilesConstants DEF Stages, Jobs, Copying
<1> DEFINE c == calls[App]
<1>0. /\ Typed /\ FirstOnes(applied) /\ App \in Processes
      /\ Done(c, App, applied, writer) /\ c \in Call
      /\ c.at \in Copying => /\ c.job = "update" /\ c.name \in Names
                             /\ BackedUp(c, backups[c.name])
                             /\ backups[c.name] \in Backup /\ Holds(backups[c.name])
  BY DEF FilesInv, Typed, Processes, Done
<1>1. Free \in Backup /\ Holds(Free) /\ FirstOnes({})
  BY <1>0 DEF Free, Backup, Holds, FirstOnes, Typed
<1>2. CASE CopyFolder
  <2>1. Puts([c EXCEPT !.at = "vacuum"], [Free EXCEPT !.state = "partial", !.config = config])
    BY <1>0, <1>1, <1>2 DEF CopyFolder, Goto, Puts, Typed, BackedUp, Holds, Free, Backup, Call, store
  <2> QED BY <2>1, BackupStep
<1>3. CASE CopyDatabase
  <2> DEFINE d == backups[c.name]
             b == [d EXCEPT !.database = TRUE, !.applied = applied, !.rows = rows]
  <2>1. /\ calls' = [calls EXCEPT ![App].at = "rename"] /\ c.at = "vacuum"
        /\ backups' = [backups EXCEPT ![c.name] = b]
        /\ UNCHANGED << config, workspacePath, asked, store, faults >>
    BY <1>3 DEF CopyDatabase, Goto
  <2>2. d \in Backup /\ d.state = "partial"
    BY <1>0, <2>1 DEF BackedUp
  <2>3. b.state = "partial" /\ b.applied = applied /\ b.rows = rows
    BY <2>2 DEF Backup
  <2>4. b.database = TRUE
    BY <2>2, Zenon DEF Backup
  <2>5. b \in Backup
    BY <1>0, <2>2 DEF Backup, Typed
  <2>6. BackedUp([c EXCEPT !.at = "rename"], b) /\ Holds(b)
    BY <1>0, <2>1, <2>3, <2>4 DEF BackedUp, Holds, Typed, Call
  <2>7. Puts([c EXCEPT !.at = "rename"], b)
    <3> HIDE DEF b
    <3> QED BY <1>0, <2>1, <2>5, <2>6 DEF Puts, Typed, Call
  <2> QED BY <2>7, BackupStep
<1>4. CASE RenameCopy
  <2>1. Puts([c EXCEPT !.at = "open"], [backups[c.name] EXCEPT !.state = "whole"])
    BY <1>0, <1>4 DEF RenameCopy, Goto, Puts, Typed, BackedUp, Holds, Backup, Call, store
  <2> QED BY <2>1, BackupStep
<1>5. CASE CopyFails
  <2>1. Puts(Idle, Free)
    BY <1>0, <1>1, <1>5 DEF CopyFails, Fault, End, Puts, Typed, Idle, None, Call, Migrations, store
  <2> QED BY <2>1, BackupStep
<1> QED BY <1>2, <1>3, <1>4, <1>5

(* An update takes a free name.                                             *)
LEMMA UpdateKeeps ==
  ASSUME FilesInv, Update
  PROVE  FilesInv' /\ backups' = backups
<1> USE FilesConstants DEF Stages, Jobs, Copying
<1>0. Typed /\ App \in Processes
  BY DEF FilesInv, Processes
<1>1. PICK n \in Names :
        /\ backups[n].state = "free" /\ calls[App] = Idle /\ asked' = rows
        /\ calls' = [calls EXCEPT ![App] =
                       [at |-> "copy", job |-> "update", next |-> 1, name |-> n]]
        /\ UNCHANGED << config, workspacePath, backups, store, faults >>
  BY DEF Update, BackupName, FreeNames
<1>2. Typed'
  BY <1>0, <1>1 DEF Typed, Call, Names, store
<1>3. \A p \in Processes : /\ Done(calls'[p], p, applied', writer')
                           /\ calls'[p].at = "write" => rows' < MaxWrites
  BY <1>0, <1>1 DEF FilesInv, Typed, Done, Idle, Migrations, store
<1>4. BackedUp(calls[App], backups[calls[App].name])'
  BY <1>0, <1>1 DEF Typed, BackedUp, store
<1>5. FirstOnes(applied)' /\ \A m \in Names : Holds(backups[m])'
  BY <1>1 DEF FilesInv, Holds, FirstOnes, store
<1> QED BY <1>1, <1>2, <1>3, <1>4, <1>5 DEF FilesInv

(* Failures of the store, and stops.                                        *)
LEMMA FaultsKeep ==
  ASSUME FilesInv, NEW p \in Processes, StoreFails(p) \/ Stop(p)
  PROVE  FilesInv'
<1> USE FilesConstants DEF Stages, Jobs
<1>0. /\ Typed /\ FirstOnes(applied) /\ Done(calls[p], p, applied, writer)
  BY DEF FilesInv
<1>1. /\ calls' = [calls EXCEPT ![p] = Idle] /\ UNCHANGED << folder, database, applied, rows >>
      /\ writer' = (IF writer = p THEN None ELSE writer) /\ faults' \in 0 .. MaxFaults
  BY <1>0 DEF StoreFails, Stop, End, Release, Fault, Typed
<1>2. Moves(p, Idle)
  BY <1>0, <1>1 DEF Moves, Typed, Done, Copying, Call, Idle, None, Migrations, folder
<1> QED BY <1>2, OneCallMoves

-----------------------------------------------------------------------------
LEMMA FilesInvInductive == FilesInv /\ [Next]_vars => FilesInv'
<1> SUFFICES ASSUME FilesInv, [Next]_vars PROVE FilesInv'
  OBVIOUS
<1>1. CASE UNCHANGED vars
  BY <1>1 DEF FilesInv, Typed, FirstOnes, Holds, BackedUp, vars, folder, store
<1>2. App \in Processes /\ Clis \subseteq Processes
  BY DEF Processes
<1> QED
  BY <1>1, <1>2, ProceedKeeps, CallsKeep, CopyKeeps, UpdateKeeps, FaultsKeep DEF Next, AppProceeds

LEMMA FilesInvHolds == Spec => []FilesInv
<1> QED BY FilesInvInit, FilesInvInductive, PTL DEF Spec

(* For any number of processes, migrations and faults: one writer at a      *)
(* time, and an update migrates nothing without a whole backup of all that  *)
(* was in the logbook when it was asked for (updateLogbook, runMigrations). *)
THEOREM BackupsAreWhole == Spec => []BackupIsWhole
<1>1. FilesInv => BackupIsWhole
  <2> SUFFICES ASSUME FilesInv PROVE BackupIsWhole
    OBVIOUS
  <2>1. App \in Processes
    BY DEF Processes
  <2>2. TypeOK
    BY FilesConstants DEF FilesInv, Typed, TypeOK, Holds, Backup
  <2>3. OneWriter
    BY DEF FilesInv, OneWriter, Done
  <2> QED BY <2>1, <2>2, <2>3 DEF FilesInv, BackupIsWhole, Holds, BackedUp, Copying
<1> QED BY <1>1, FilesInvHolds, PTL

(* And nothing that happens later touches a finished backup.                *)
THEOREM FinishedBackupsStay == Spec => BackupsAreKept
<1>1. FilesInv /\ [Next]_vars =>
        [\A n \in Names : backups[n].state = "whole" => backups'[n] = backups[n]]_vars
  <2> SUFFICES ASSUME FilesInv, Next
               PROVE  \A n \in Names : backups[n].state = "whole" => backups'[n] = backups[n]
    OBVIOUS
  <2>1. CASE CopyFolder \/ CopyDatabase \/ RenameCopy \/ CopyFails
    BY <2>1, CopyKeeps
  <2>2. CASE Update
    BY <2>2, UpdateKeeps
  <2>3. ASSUME NEW p, Proceed(p) PROVE backups' = backups
    BY <2>3 DEF Proceed, RunMigrations, WriteConfig, FinishConfig, OpenStore, Select, BeginMigration,
                Migrate, CliInitDone, BeginWrite, CommitWrite, CommandDone, folder
  <2>4. CASE Create \/ CreateDone \/ OpenExisting \/ UpdateDone \/ AppWrite
    BY <2>4 DEF Create, CreateDone, OpenExisting, UpdateDone, AppWrite, folder
  <2>5. ASSUME NEW p, CliInit(p) \/ Command(p) \/ StoreFails(p) \/ Stop(p) PROVE backups' = backups
    BY <2>5 DEF CliInit, Command, StoreFails, Stop, folder
  <2> QED BY <2>1, <2>2, <2>3, <2>4, <2>5 DEF Next, AppProceeds
<1> QED BY <1>1, FilesInvHolds, PTL DEF Spec, BackupsAreKept

-----------------------------------------------------------------------------
(* Backups that are exported (WorkspaceExport), for any programs of any      *)
(* versions, any rows in any sections and any foreign keys between them.    *)

(* The order of the sections, name by name.                                 *)
Name == << "knowledge", "crossProject", "plans", "planLinks", "planRevisions",
           "planRevisionLinks", "missions", "chats", "audit", "derived" >>

(* A list of sections that is a beginning of the format.                    *)
Beginning(list) ==
  list \in Seq(SectionNames) /\ Len(list) <= 10 /\ \A i \in 1 .. Len(list) : list[i] = Name[i]

LEMMA OneMore ==
  ASSUME NEW list, NEW more, Beginning(list), more \in Seq(SectionNames), Len(list) + Len(more) <= 10,
         \A i \in 1 .. Len(more) : more[i] = Name[Len(list) + i]
  PROVE  Beginning(list \o more) /\ Len(list \o more) = Len(list) + Len(more)
<1>0. list \in Seq(SectionNames) /\ Len(list) \in Nat /\ Len(more) \in Nat
  BY LenProperties DEF Beginning
<1>1. /\ list \o more \in Seq(SectionNames) /\ Len(list \o more) = Len(list) + Len(more)
      /\ \A i \in 1 .. Len(list) + Len(more) :
            (list \o more)[i] = IF i <= Len(list) THEN list[i] ELSE more[i - Len(list)]
  BY <1>0, ConcatProperties
<1>2. ASSUME NEW i \in 1 .. Len(list) + Len(more) PROVE (list \o more)[i] = Name[i]
  <2>1. CASE i <= Len(list)
    BY <2>1, <1>0, <1>1, <1>2 DEF Beginning
  <2>2. CASE i > Len(list)
    <3>1. i - Len(list) \in 1 .. Len(more) /\ Len(list) + (i - Len(list)) = i
      BY <2>2, <1>0, <1>2
    <3>2. more[i - Len(list)] = Name[i]
      BY <3>1
    <3> QED BY <2>2, <3>2, <1>0, <1>1, <1>2
  <2> QED BY <2>1, <2>2, <1>0, <1>2
<1> QED BY <1>0, <1>1, <1>2 DEF Beginning

LEMMA RestoreOrderIs == Beginning(RestoreOrder) /\ Len(RestoreOrder) = 10
<1> DEFINE S1 == KnowledgeSections
           S2 == S1 \o CrossProjectSections
           S3 == S2 \o PlanSections
           S4 == S3 \o PlanRevisionSections
           S5 == S4 \o MissionSections
           S6 == S5 \o ChatSections
           S7 == S6 \o AuditSections
           S8 == S7 \o DerivedSections
<1>1. Beginning(S1) /\ Len(S1) = 1
  BY DEF Beginning, KnowledgeSections, Name, SectionNames
<1>2. Beginning(S2) /\ Len(S2) = 2
  <2>1. CrossProjectSections \in Seq(SectionNames) /\ Len(CrossProjectSections) = 1
    BY DEF CrossProjectSections, SectionNames
  <2>2. \A i \in 1 .. 1 : CrossProjectSections[i] = Name[1 + i]
    BY DEF CrossProjectSections, Name
  <2> HIDE DEF S1
  <2>3. \A i \in 1 .. Len(CrossProjectSections) : CrossProjectSections[i] = Name[Len(S1) + i]
    BY <1>1, <2>1, <2>2
  <2>4. Len(S1) + Len(CrossProjectSections) <= 10
    BY <1>1, <2>1
  <2>5. Beginning(S1 \o CrossProjectSections) /\ Len(S1 \o CrossProjectSections) = Len(S1) + Len(CrossProjectSections)
    BY <1>1, <2>1, <2>3, <2>4, OneMore
  <2> QED BY <1>1, <2>1, <2>5
<1>3. Beginning(S3) /\ Len(S3) = 4
  <2>1. PlanSections \in Seq(SectionNames) /\ Len(PlanSections) = 2
    BY DEF PlanSections, SectionNames
  <2>2. \A i \in 1 .. 2 : PlanSections[i] = Name[2 + i]
    BY DEF PlanSections, Name
  <2> HIDE DEF S2
  <2>3. \A i \in 1 .. Len(PlanSections) : PlanSections[i] = Name[Len(S2) + i]
    BY <1>2, <2>1, <2>2
  <2>4. Len(S2) + Len(PlanSections) <= 10
    BY <1>2, <2>1
  <2>5. Beginning(S2 \o PlanSections) /\ Len(S2 \o PlanSections) = Len(S2) + Len(PlanSections)
    BY <1>2, <2>1, <2>3, <2>4, OneMore
  <2> QED BY <1>2, <2>1, <2>5
<1>4. Beginning(S4) /\ Len(S4) = 6
  <2>1. PlanRevisionSections \in Seq(SectionNames) /\ Len(PlanRevisionSections) = 2
    BY DEF PlanRevisionSections, SectionNames
  <2>2. \A i \in 1 .. 2 : PlanRevisionSections[i] = Name[4 + i]
    BY DEF PlanRevisionSections, Name
  <2> HIDE DEF S3
  <2>3. \A i \in 1 .. Len(PlanRevisionSections) : PlanRevisionSections[i] = Name[Len(S3) + i]
    BY <1>3, <2>1, <2>2
  <2>4. Len(S3) + Len(PlanRevisionSections) <= 10
    BY <1>3, <2>1
  <2>5. Beginning(S3 \o PlanRevisionSections) /\ Len(S3 \o PlanRevisionSections) = Len(S3) + Len(PlanRevisionSections)
    BY <1>3, <2>1, <2>3, <2>4, OneMore
  <2> QED BY <1>3, <2>1, <2>5
<1>5. Beginning(S5) /\ Len(S5) = 7
  <2>1. MissionSections \in Seq(SectionNames) /\ Len(MissionSections) = 1
    BY DEF MissionSections, SectionNames
  <2>2. \A i \in 1 .. 1 : MissionSections[i] = Name[6 + i]
    BY DEF MissionSections, Name
  <2> HIDE DEF S4
  <2>3. \A i \in 1 .. Len(MissionSections) : MissionSections[i] = Name[Len(S4) + i]
    BY <1>4, <2>1, <2>2
  <2>4. Len(S4) + Len(MissionSections) <= 10
    BY <1>4, <2>1
  <2>5. Beginning(S4 \o MissionSections) /\ Len(S4 \o MissionSections) = Len(S4) + Len(MissionSections)
    BY <1>4, <2>1, <2>3, <2>4, OneMore
  <2> QED BY <1>4, <2>1, <2>5
<1>6. Beginning(S6) /\ Len(S6) = 8
  <2>1. ChatSections \in Seq(SectionNames) /\ Len(ChatSections) = 1
    BY DEF ChatSections, SectionNames
  <2>2. \A i \in 1 .. 1 : ChatSections[i] = Name[7 + i]
    BY DEF ChatSections, Name
  <2> HIDE DEF S5
  <2>3. \A i \in 1 .. Len(ChatSections) : ChatSections[i] = Name[Len(S5) + i]
    BY <1>5, <2>1, <2>2
  <2>4. Len(S5) + Len(ChatSections) <= 10
    BY <1>5, <2>1
  <2>5. Beginning(S5 \o ChatSections) /\ Len(S5 \o ChatSections) = Len(S5) + Len(ChatSections)
    BY <1>5, <2>1, <2>3, <2>4, OneMore
  <2> QED BY <1>5, <2>1, <2>5
<1>7. Beginning(S7) /\ Len(S7) = 9
  <2>1. AuditSections \in Seq(SectionNames) /\ Len(AuditSections) = 1
    BY DEF AuditSections, SectionNames
  <2>2. \A i \in 1 .. 1 : AuditSections[i] = Name[8 + i]
    BY DEF AuditSections, Name
  <2> HIDE DEF S6
  <2>3. \A i \in 1 .. Len(AuditSections) : AuditSections[i] = Name[Len(S6) + i]
    BY <1>6, <2>1, <2>2
  <2>4. Len(S6) + Len(AuditSections) <= 10
    BY <1>6, <2>1
  <2>5. Beginning(S6 \o AuditSections) /\ Len(S6 \o AuditSections) = Len(S6) + Len(AuditSections)
    BY <1>6, <2>1, <2>3, <2>4, OneMore
  <2> QED BY <1>6, <2>1, <2>5
<1>8. Beginning(S8) /\ Len(S8) = 10
  <2>1. DerivedSections \in Seq(SectionNames) /\ Len(DerivedSections) = 1
    BY DEF DerivedSections, SectionNames
  <2>2. \A i \in 1 .. 1 : DerivedSections[i] = Name[9 + i]
    BY DEF DerivedSections, Name
  <2> HIDE DEF S7
  <2>3. \A i \in 1 .. Len(DerivedSections) : DerivedSections[i] = Name[Len(S7) + i]
    BY <1>7, <2>1, <2>2
  <2>4. Len(S7) + Len(DerivedSections) <= 10
    BY <1>7, <2>1
  <2>5. Beginning(S7 \o DerivedSections) /\ Len(S7 \o DerivedSections) = Len(S7) + Len(DerivedSections)
    BY <1>7, <2>1, <2>3, <2>4, OneMore
  <2> QED BY <1>7, <2>1, <2>5
<1> QED BY <1>8 DEF RestoreOrder

LEMMA EverySection ==
  /\ \A i \in 1 .. 10 : RestoreOrder[i] = Name[i] /\ RestoreOrder[i] \in SectionNames
  /\ \A section \in SectionNames : \E i \in 1 .. 10 : RestoreOrder[i] = section
  /\ Earlier("plans", "planLinks") /\ Earlier("planRevisions", "planRevisionLinks")
<1>1. Len(RestoreOrder) = 10 /\ RestoreOrder \in Seq(SectionNames)
      /\ \A i \in 1 .. 10 : RestoreOrder[i] = Name[i]
  BY RestoreOrderIs DEF Beginning
<1>2. \A i \in 1 .. 10 : RestoreOrder[i] \in SectionNames
  BY <1>1, ElementOfSeq
<1>3. /\ Name[1] = "knowledge" /\ Name[2] = "crossProject" /\ Name[3] = "plans"
      /\ Name[4] = "planLinks" /\ Name[5] = "planRevisions" /\ Name[6] = "planRevisionLinks"
      /\ Name[7] = "missions" /\ Name[8] = "chats" /\ Name[9] = "audit" /\ Name[10] = "derived"
  BY DEF Name
<1>4. ASSUME NEW section \in SectionNames PROVE \E i \in 1 .. 10 : RestoreOrder[i] = section
  <2>1. /\ RestoreOrder[1] = "knowledge" /\ RestoreOrder[2] = "crossProject" /\ RestoreOrder[3] = "plans"
        /\ RestoreOrder[4] = "planLinks" /\ RestoreOrder[5] = "planRevisions"
        /\ RestoreOrder[6] = "planRevisionLinks" /\ RestoreOrder[7] = "missions"
        /\ RestoreOrder[8] = "chats" /\ RestoreOrder[9] = "audit" /\ RestoreOrder[10] = "derived"
    BY <1>1, <1>3
  <2> QED BY <2>1 DEF SectionNames
<1>5. Earlier("plans", "planLinks")
  <2>1. 3 \in 1 .. Len(RestoreOrder) /\ 4 \in 1 .. Len(RestoreOrder) /\ 3 < 4
        /\ RestoreOrder[3] = "plans" /\ RestoreOrder[4] = "planLinks"
    BY <1>1, <1>3
  <2> QED BY <2>1 DEF Earlier
<1>6. Earlier("planRevisions", "planRevisionLinks")
  <2>1. 5 \in 1 .. Len(RestoreOrder) /\ 6 \in 1 .. Len(RestoreOrder) /\ 5 < 6
        /\ RestoreOrder[5] = "planRevisions" /\ RestoreOrder[6] = "planRevisionLinks"
    BY <1>1, <1>3
  <2> QED BY <2>1 DEF Earlier
<1> QED BY <1>1, <1>2, <1>4, <1>5, <1>6

(* What holds in every reachable state.                                     *)

MomentOK(m) ==
  /\ m \in [schema : SupportedVersions, rows : Contents]
  /\ Closed(m.rows) /\ m.rows = Known(m.schema, m.rows)

(* What an export has read when it has read the first sections.             *)
ReadSoFar(done, version, rowSet) ==
  [r \in Rows |-> IF /\ AddedIn(In[r]) <= version
                     /\ \E i \in 1 .. done : RestoreOrder[i] = In[r]
                  THEN rowSet[r] ELSE 0]

(* A document that was read whole.                                          *)
OfOneMoment(d, past) ==
  /\ d \in Document
  /\ \E m \in past : m.schema = d.schema /\ d.rows = Known(d.version, m.rows)

Reading == [at : {"reading"}, done : 0 .. 10, snapshot : Contents, document : Document]
Writing == [at : {"writing"}, document : Document]

ExportOK(e, version, past) ==
  \/ e \in {NoJob, [at |-> "opened"], [at |-> "checked"]}
  \/ /\ e \in Reading
     /\ e.document.version = version
     /\ e.document.rows = ReadSoFar(e.done, version, e.snapshot)
     /\ \E m \in past : m.schema = e.document.schema /\ m.rows = e.snapshot
  \/ e \in Writing /\ OfOneMoment(e.document, past)

ExportInv ==
  /\ ExportTypeOK
  /\ \A m \in moments : MomentOK(m)
  /\ DOMAIN exports = Programs /\ \A p \in Programs : ExportOK(exports[p], Version[p], moments)
  /\ backup.state = "whole" => backup.canonical /\ OfOneMoment(backup.document, moments)

LEMMA AddedInIs == \A section : AddedIn(section) \in SupportedVersions
BY DEF AddedIn, SupportedVersions

LEMMA KnownIs ==
  ASSUME NEW version, NEW rowSet \in Contents
  PROVE  /\ Known(version, rowSet) \in Contents
         /\ Known(version, Known(version, rowSet)) = Known(version, rowSet)
BY DEF Known, Contents

(* More moments change nothing for what was read.                          *)
LEMMA PastGrows ==
  ASSUME NEW past, NEW more, past \subseteq more
  PROVE  /\ \A d : OfOneMoment(d, past) => OfOneMoment(d, more)
         /\ \A e, version : ExportOK(e, version, past) => ExportOK(e, version, more)
BY DEF OfOneMoment, ExportOK

LEMMA ExportInvInit == ExportInit => ExportInv
<1> SUFFICES ASSUME ExportInit PROVE ExportInv
  OBVIOUS
<1> USE ExportConstants DEF ExportInit
<1>1. schema \in SupportedVersions
  OBVIOUS
<1>2. content \in Contents /\ Closed(content) /\ content = Known(schema, content)
  BY DEF NoRows, Contents, Closed, Known
<1>3. MomentOK([schema |-> schema, rows |-> content])
  BY <1>1, <1>2 DEF MomentOK
<1>4. ExportTypeOK
  BY <1>1, <1>2 DEF ExportTypeOK
<1>5. backup.state # "whole"
  BY DEF NoFile
<1>6. \A p \in Programs : ExportOK(exports[p], Version[p], moments)
  BY DEF ExportOK
<1> QED BY <1>3, <1>4, <1>5, <1>6 DEF ExportInv

LEMMA WriteRowsKeeps == ASSUME ExportInv, WriteRows PROVE ExportInv'
<1>1. /\ schema \in SupportedVersions /\ content \in Contents /\ content = Known(schema, content)
      /\ backup \in {NoFile, TornFile} \union File
  BY DEF ExportInv, ExportTypeOK
<1>2. PICK changed \in SUBSET {r \in Rows : AddedIn(In[r]) <= schema} :
        content' = [r \in Rows |-> IF r \in changed THEN content[r] + 1 ELSE content[r]]
  BY DEF WriteRows
<1>3. content' \in Contents
  BY <1>1, <1>2 DEF Contents
<1>4. content' = Known(schema, content')
  <2>1. ASSUME NEW r \in Rows, ~ (AddedIn(In[r]) <= schema) PROVE content'[r] = 0
    BY <1>1, <1>2, <2>1 DEF Known
  <2> QED BY <1>3, <2>1 DEF Known, Contents
<1>5. /\ schema' = schema /\ backup' = backup /\ exports' = exports /\ Closed(content')
      /\ moments' = moments \union {[schema |-> schema, rows |-> content']}
  BY DEF WriteRows
<1>6. MomentOK([schema |-> schema, rows |-> content'])
  BY <1>1, <1>3, <1>4, <1>5 DEF MomentOK
<1>7. ExportTypeOK'
  BY <1>1, <1>3, <1>4, <1>5 DEF ExportTypeOK
<1>8. moments \subseteq moments'
  BY <1>5
<1> QED BY <1>5, <1>6, <1>7, <1>8, PastGrows DEF ExportInv

(* A step of one program that leaves the backup file alone.                *)
LEMMA OneProgramMoves ==
  ASSUME ExportInv, NEW p \in Programs, NEW next,
         ExportOK(next, Version[p], moments'), Advance(p, next),
         schema' \in SupportedVersions, schema' >= schema, content' = content,
         moments' = moments \union {[schema |-> schema', rows |-> content]},
         \/ backup' \in {backup, TornFile}
         \/ backup' \in File /\ backup'.canonical /\ OfOneMoment(backup'.document, moments')
  PROVE  ExportInv'
<1>1. /\ schema \in SupportedVersions /\ content \in Contents /\ content = Known(schema, content)
      /\ Closed(content) /\ backup \in {NoFile, TornFile} \union File
  BY DEF ExportInv, ExportTypeOK
<1>2. content = Known(schema', content)
  <2>1. ASSUME NEW r \in Rows, ~ (AddedIn(In[r]) <= schema') PROVE content[r] = 0
    <3>1. ~ (AddedIn(In[r]) <= schema)
      BY <1>1, <2>1, AddedInIs DEF SupportedVersions
    <3> QED BY <1>1, <3>1 DEF Known
  <2> QED BY <1>1, <2>1 DEF Known, Contents
<1>3. MomentOK([schema |-> schema', rows |-> content])
  BY <1>1, <1>2 DEF MomentOK
<1>4. ExportTypeOK'
  BY <1>1, <1>2 DEF ExportTypeOK
<1>5. moments \subseteq moments'
  OBVIOUS
<1>6. \A m \in moments' : MomentOK(m)
  BY <1>3 DEF ExportInv
<1>7. backup'.state = "whole" => backup'.canonical /\ OfOneMoment(backup'.document, moments')
  <2>1. CASE backup' = backup
    BY <2>1, <1>5, PastGrows DEF ExportInv
  <2>2. CASE backup' = TornFile
    BY <2>2 DEF TornFile
  <2> QED BY <2>1, <2>2
<1>8. DOMAIN exports' = Programs /\ exports'[p] = next
      /\ \A q \in Programs \ {p} : exports'[q] = exports[q]
  BY DEF Advance, ExportInv
<1>9. \A q \in Programs : ExportOK(exports'[q], Version[q], moments')
  BY <1>5, <1>8, PastGrows DEF ExportInv
<1> QED BY <1>4, <1>6, <1>7, <1>8, <1>9 DEF ExportInv

LEMMA MomentsSame == ExportInv => moments = moments \union {[schema |-> schema, rows |-> content]}
BY DEF ExportInv, ExportTypeOK

LEMMA BeginningsKeep ==
  ASSUME ExportInv, NEW p \in Programs,
         OpenToExport(p) \/ CheckSchema(p) \/ ExportStops(p)
  PROVE  ExportInv'
<1>0. schema \in SupportedVersions /\ Version[p] \in SupportedVersions /\ schema >= schema
  BY ExportConstants DEF ExportInv, ExportTypeOK, SupportedVersions
<1>1. ExportOK(NoJob, Version[p], moments') /\ ExportOK([at |-> "opened"], Version[p], moments')
      /\ ExportOK([at |-> "checked"], Version[p], moments')
  BY DEF ExportOK
<1>2. CASE OpenToExport(p)
  <2>1. schema' \in SupportedVersions /\ schema' >= schema
    BY <1>0, <1>2 DEF OpenToExport, SupportedVersions
  <2> QED BY <1>1, <1>2, <2>1, OneProgramMoves DEF OpenToExport
<1>3. CASE CheckSchema(p)
  <2>1. Advance(p, NoJob) \/ Advance(p, [at |-> "checked"])
    BY <1>3 DEF CheckSchema
  <2> QED BY <1>0, <1>1, <1>3, <2>1, MomentsSame, OneProgramMoves DEF CheckSchema
<1>4. CASE ExportStops(p)
  BY <1>0, <1>1, <1>4, MomentsSame, OneProgramMoves DEF ExportStops
<1> QED BY <1>2, <1>3, <1>4

LEMMA BeginExportKeeps == ASSUME ExportInv, NEW p \in Programs, BeginExport(p) PROVE ExportInv'
<1>0. /\ schema \in SupportedVersions /\ Version[p] \in SupportedVersions /\ schema >= schema
      /\ content \in Contents /\ [schema |-> schema, rows |-> content] \in moments
  BY ExportConstants DEF ExportInv, ExportTypeOK, SupportedVersions
<1> DEFINE d == [version |-> Version[p], schema |-> schema, rows |-> NoRows]
           next == [at |-> "reading", done |-> 0, snapshot |-> content, document |-> d]
<1>1. NoRows \in Contents
  BY DEF NoRows, Contents
<1>2. d \in Document
  BY <1>0, <1>1 DEF Document
<1>3. next \in Reading
  BY <1>0, <1>2 DEF Reading
<1>4. NoRows = ReadSoFar(0, Version[p], content)
  BY DEF NoRows, ReadSoFar
<1>5. ExportOK(next, Version[p], moments)
  <2>1. next.document.version = Version[p] /\ next.document.rows = NoRows /\ next.done = 0
        /\ next.snapshot = content /\ next.document.schema = schema
    OBVIOUS
  <2>2. \E m \in moments : m.schema = schema /\ m.rows = content
    BY <1>0
  <2> QED BY <1>3, <1>4, <2>1, <2>2 DEF ExportOK
<1>6. Advance(p, next) /\ UNCHANGED << schema, content, moments, backup >>
  BY DEF BeginExport
<1> HIDE DEF next, d
<1> QED BY <1>0, <1>5, <1>6, MomentsSame, OneProgramMoves

(* What one more section adds to what was read of the snapshot.            *)
LEMMA OneMoreSection ==
  ASSUME NEW done \in 0 .. 9, NEW version, NEW rowSet \in Contents
  PROVE  LET section == RestoreOrder[done + 1]
             old == ReadSoFar(done, version, rowSet)
         IN ReadSoFar(done + 1, version, rowSet) =
              IF AddedIn(section) <= version
              THEN [r \in Rows |-> IF In[r] = section THEN rowSet[r] ELSE old[r]]
              ELSE old
<1> DEFINE section == RestoreOrder[done + 1]
           old == ReadSoFar(done, version, rowSet)
<1>1. \A i : i \in 1 .. done + 1 <=> i \in 1 .. done \/ i = done + 1
  OBVIOUS
<1>2. ASSUME NEW r \in Rows
      PROVE  (\E i \in 1 .. done + 1 : RestoreOrder[i] = In[r]) <=>
               (\E i \in 1 .. done : RestoreOrder[i] = In[r]) \/ In[r] = section
  BY <1>1
<1>3. CASE AddedIn(section) <= version
  <2>1. ASSUME NEW r \in Rows
        PROVE  ReadSoFar(done + 1, version, rowSet)[r] =
                 IF In[r] = section THEN rowSet[r] ELSE old[r]
    <3>1. CASE In[r] = section
      BY <1>2, <1>3, <3>1 DEF ReadSoFar
    <3>2. CASE In[r] # section
      BY <1>2, <3>2 DEF ReadSoFar
    <3> QED BY <3>1, <3>2
  <2> QED BY <1>3, <2>1 DEF ReadSoFar
<1>4. CASE ~ (AddedIn(section) <= version)
  <2>1. ASSUME NEW r \in Rows
        PROVE  ReadSoFar(done + 1, version, rowSet)[r] = old[r]
    <3>1. CASE In[r] = section
      BY <1>4, <3>1 DEF ReadSoFar
    <3>2. CASE In[r] # section
      BY <1>2, <3>2 DEF ReadSoFar
    <3> QED BY <3>1, <3>2
  <2> QED BY <1>4, <2>1 DEF ReadSoFar
<1> QED BY <1>3, <1>4

LEMMA ReadSectionKeeps == ASSUME ExportInv, NEW p \in Programs, ReadSection(p) PROVE ExportInv'
<1>0. schema \in SupportedVersions /\ Version[p] \in SupportedVersions /\ schema >= schema
  BY ExportConstants DEF ExportInv, ExportTypeOK, SupportedVersions
<1> DEFINE j == exports[p]
           section == RestoreOrder[j.done + 1]
           rowSet == IF AddedIn(section) <= Version[p] THEN SectionRows(p, section)
                     ELSE j.document.rows
           d == [version |-> j.document.version, schema |-> j.document.schema, rows |-> rowSet]
           next == [at |-> "reading", done |-> j.done + 1, snapshot |-> j.snapshot, document |-> d]
<1>1. /\ j.at = "reading" /\ j.done < 10 /\ Advance(p, next)
      /\ UNCHANGED << schema, content, moments, backup >>
  BY RestoreOrderIs DEF ReadSection
<1>2. /\ j \in Reading /\ j.document.version = Version[p]
      /\ j.document.rows = ReadSoFar(j.done, Version[p], j.snapshot)
      /\ \E m \in moments : m.schema = j.document.schema /\ m.rows = j.snapshot
  <2>1. ExportOK(j, Version[p], moments)
    BY DEF ExportInv
  <2>2. j \notin {NoJob, [at |-> "opened"], [at |-> "checked"]} /\ j \notin Writing
    BY <1>1 DEF NoJob, Writing
  <2> QED BY <2>1, <2>2 DEF ExportOK
<1>3. j.done \in 0 .. 9 /\ j.snapshot \in Contents /\ j.document.schema \in SupportedVersions
  BY <1>1, <1>2 DEF Reading, Document
<1>4. rowSet = ReadSoFar(j.done + 1, Version[p], j.snapshot)
  BY <1>2, <1>3, OneMoreSection DEF SectionRows
<1>5. rowSet \in Contents
  BY <1>3, <1>4 DEF ReadSoFar, Contents
<1> HIDE DEF rowSet
<1>6. d \in Document
  BY <1>0, <1>2, <1>3, <1>5 DEF Document
<1>7. d.version = Version[p] /\ d.rows = rowSet /\ d.schema = j.document.schema
  BY <1>2
<1> HIDE DEF d
<1>8. next \in Reading
  BY <1>3, <1>6 DEF Reading
<1>9. next.done = j.done + 1 /\ next.snapshot = j.snapshot /\ next.document = d
  OBVIOUS
<1> HIDE DEF next, j
<1>10. ExportOK(next, Version[p], moments)
  BY <1>2, <1>4, <1>7, <1>8, <1>9 DEF ExportOK
<1> QED BY <1>0, <1>1, <1>10, MomentsSame, OneProgramMoves

LEMMA FilesKeep ==
  ASSUME ExportInv, NEW p \in Programs, CutFile(p) \/ FinishFile(p)
  PROVE  ExportInv'
<1>0. schema \in SupportedVersions /\ Version[p] \in SupportedVersions /\ schema >= schema
  BY ExportConstants DEF ExportInv, ExportTypeOK, SupportedVersions
<1> DEFINE j == exports[p]
           d == j.document
<1>1. ExportOK(j, Version[p], moments) /\ \A m \in moments : MomentOK(m)
  BY DEF ExportInv
<1>2. CASE CutFile(p)
  <2>1. /\ j.at = "reading" /\ j.done = 10 /\ backup' = TornFile
        /\ Advance(p, [at |-> "writing", document |-> d])
        /\ UNCHANGED << schema, content, moments >>
    BY <1>2, RestoreOrderIs DEF CutFile
  <2>2. j \notin {NoJob, [at |-> "opened"], [at |-> "checked"]} /\ j \notin Writing
    BY <2>1 DEF NoJob, Writing
  <2>3. /\ j \in Reading /\ d.version = Version[p] /\ d.rows = ReadSoFar(10, Version[p], j.snapshot)
        /\ \E m \in moments : m.schema = d.schema /\ m.rows = j.snapshot
    BY <1>1, <2>1, <2>2 DEF ExportOK
  <2>4. ReadSoFar(10, Version[p], j.snapshot) = Known(Version[p], j.snapshot)
    <3>1. \A r \in Rows : \E i \in 1 .. 10 : RestoreOrder[i] = In[r]
      BY EverySection, ExportConstants
    <3> QED BY <3>1 DEF ReadSoFar, Known
  <2>5. d \in Document
    BY <2>3 DEF Reading
  <2>6. OfOneMoment(d, moments)
    BY <2>3, <2>4, <2>5 DEF OfOneMoment
  <2> HIDE DEF d
  <2>7. [at |-> "writing", document |-> d] \in Writing
    BY <2>5 DEF Writing
  <2>8. ExportOK([at |-> "writing", document |-> d], Version[p], moments)
    BY <2>6, <2>7 DEF ExportOK
  <2> QED BY <1>0, <2>1, <2>8, MomentsSame, OneProgramMoves
<1>3. CASE FinishFile(p)
  <2>1. /\ j.at = "writing" /\ Advance(p, NoJob)
        /\ UNCHANGED << schema, content, moments >>
        /\ \/ backup' = TornFile
           \/ backup' = [state |-> "whole", document |-> d, canonical |-> TRUE]
    BY <1>3 DEF FinishFile
  <2>2. j \notin {NoJob, [at |-> "opened"], [at |-> "checked"]} /\ j \notin Reading
    BY <2>1 DEF NoJob, Reading
  <2>3. OfOneMoment(d, moments)
    BY <1>1, <2>2 DEF ExportOK
  <2> HIDE DEF d
  <2>4. [state |-> "whole", document |-> d, canonical |-> TRUE] \in File
    <3>1. d \in Document /\ TRUE \in BOOLEAN
      BY <2>3 DEF OfOneMoment
    <3> QED BY <3>1 DEF File
  <2>5. ExportOK(NoJob, Version[p], moments)
    BY DEF ExportOK
  <2>6. \/ backup' \in {backup, TornFile}
        \/ /\ backup' \in File /\ backup'.canonical
           /\ OfOneMoment(backup'.document, moments)
    <3>1. CASE backup' = TornFile
      BY <3>1
    <3>2. CASE backup' = [state |-> "whole", document |-> d, canonical |-> TRUE]
      <4>1. backup' \in File
        BY <2>4, <3>2, Zenon
      <4>2. backup'.canonical = TRUE /\ backup'.document = d
        BY <3>2
      <4> QED BY <2>3, <4>1, <4>2
    <3> QED BY <2>1, <3>1, <3>2
  <2> QED BY <1>0, <2>1, <2>5, <2>6, MomentsSame, OneProgramMoves
<1> QED BY <1>2, <1>3

LEMMA ExportInvInductive == ExportInv /\ [ExportNext]_exportVars => ExportInv'
<1> SUFFICES ASSUME ExportInv, [ExportNext]_exportVars PROVE ExportInv'
  OBVIOUS
<1>1. CASE UNCHANGED exportVars
  BY <1>1 DEF ExportInv, ExportTypeOK, exportVars
<1> QED
  BY <1>1, WriteRowsKeeps, BeginningsKeep, BeginExportKeeps, ReadSectionKeeps, FilesKeep DEF ExportNext

LEMMA ExportInvHolds == ExportSpec => []ExportInv
<1> QED BY ExportInvInit, ExportInvInductive, PTL DEF ExportSpec

(* A whole file is a document of one moment.                               *)
LEMMA WholeFile ==
  ASSUME ExportInv, backup.state = "whole"
  PROVE  /\ backup \in File /\ backup.canonical /\ OfOneMoment(backup.document, moments)
         /\ backup.document.schema = backup.document.version =>
              \E m \in moments : MomentOK(m) /\ m.schema = backup.document.schema
                                 /\ m.rows = backup.document.rows
<1>1. backup \in File
  BY DEF ExportInv, ExportTypeOK, NoFile, TornFile
<1>2. /\ OfOneMoment(backup.document, moments) /\ backup.canonical
      /\ \A m \in moments : MomentOK(m)
  BY DEF ExportInv
<1> QED BY <1>1, <1>2 DEF OfOneMoment, MomentOK

(* For any programs, versions, rows and foreign keys: an export that is     *)
(* read in one SELECT per section while others commit and migrate is the    *)
(* workspace of one moment (readWorkspaceExport).                           *)
THEOREM BackupsAreOneMoment == ExportSpec => []BackupIsOneMoment
<1>1. ExportInv => BackupIsOneMoment
  <2> SUFFICES ASSUME ExportInv PROVE BackupIsOneMoment
    OBVIOUS
  <2>1. ExportTypeOK
    BY DEF ExportInv
  <2>2. ASSUME backup.state = "whole"
        PROVE  \E m \in moments :
                 /\ m.schema = backup.document.schema
                 /\ backup.document.rows = Known(backup.document.version, m.rows)
                 /\ backup.document.schema = backup.document.version => backup.document.rows = m.rows
    <3>1. OfOneMoment(backup.document, moments) /\ \A m \in moments : MomentOK(m)
      BY <2>2, WholeFile DEF ExportInv
    <3> QED BY <3>1 DEF OfOneMoment, MomentOK
  <2> QED BY <2>1, <2>2 DEF BackupIsOneMoment
<1> QED BY <1>1, ExportInvHolds, PTL

-----------------------------------------------------------------------------
(* export verify.                                                          *)

(* Whether the text is the one the program would write for the document it *)
(* holds, but for its sourceSchema.                                         *)
Same(p, text) == text.canonical /\ text.document.version = Version[p]

LEMMA VerdictIs ==
  ASSUME NEW p \in Programs, NEW text, NEW tool \in {"cli", "demo"}
  PROVE  /\ ~ Parses(p, text) => Verdict(p, text, tool) = "refused"
         /\ ~ Restores(text.document.rows) => Verdict(p, text, tool) = "refused"
         /\ Parses(p, text) /\ Restores(text.document.rows) /\ text.document \in Document =>
              Verdict(p, text, tool) =
                IF tool = "cli" /\ ~ Same(p, text) THEN "upgraded"
                ELSE IF Same(p, text) /\ text.document.schema = Version[p] THEN "identical"
                ELSE "differs"
<1> DEFINE d == text.document
           upgraded == Upgrade(p, d)
           restored == [version |-> Version[p], schema |-> Version[p], rows |-> d.rows]
           unchanged == text.canonical /\ upgraded = d
<1>1. [restored EXCEPT !.schema = d.schema] = upgraded
  BY DEF Upgrade
<1>2. ASSUME d \in Document
      PROVE  (upgraded = d <=> d.version = Version[p])
             /\ (upgraded = d => (restored = d <=> d.schema = Version[p]))
  BY <1>2 DEF Upgrade, Document
<1>3. ~ Parses(p, text) \/ ~ Restores(d.rows) => Verdict(p, text, tool) = "refused"
  BY DEF Verdict
<1>4. ASSUME Parses(p, text), Restores(d.rows)
      PROVE  Verdict(p, text, tool) =
               IF tool = "cli" /\ ~ unchanged THEN "upgraded"
               ELSE IF unchanged /\ restored = d THEN "identical" ELSE "differs"
  BY <1>1, <1>4 DEF Verdict
<1> HIDE DEF upgraded, restored
<1> QED BY <1>2, <1>3, <1>4 DEF Same

(* Rows that are closed are restored: the triggers find theirs.             *)
LEMMA ClosedRestores ==
  ASSUME NEW rowSet \in Contents, Closed(rowSet) PROVE Restores(rowSet)
<1>1. ASSUME NEW r \in Rows, rowSet[r] > 0, NEW g \in Guards(r)
      PROVE  rowSet[g] > 0 /\ Earlier(In[g], In[r])
  <2>1. /\ g \in Needs[r]
        /\ \/ In[r] = "planLinks" /\ In[g] = "plans"
           \/ In[r] = "planRevisionLinks" /\ In[g] = "planRevisions"
    BY <1>1 DEF Guards
  <2> QED BY <1>1, <2>1, EverySection DEF Closed
<1> QED BY <1>1 DEF Restores, Inserts

(* Every backup of a workspace on which no later migration had been         *)
(* applied verifies (export verify, restoreWorkspaceExport,                 *)
(* upgradeWorkspaceExport).                                                 *)
THEOREM EveryBackupVerifies == ExportSpec => []BackupsVerify
<1>1. ExportInv => BackupsVerify
  <2> SUFFICES ASSUME ExportInv, NEW p \in Programs, NEW tool \in {"cli", "demo"},
                      backup.state = "whole", backup.document.schema = backup.document.version
               PROVE  IF backup.document.version = Version[p] THEN
                        /\ Verdict(p, backup, tool) = "identical"
                        /\ Verdict(p, Reformatted(backup), tool) =
                             IF tool = "cli" THEN "upgraded" ELSE "differs"
                      ELSE Verdict(p, backup, tool) =
                             IF backup.document.version > Version[p] THEN "refused"
                             ELSE IF tool = "cli" THEN "upgraded" ELSE "differs"
    BY DEF BackupsVerify
  <2> DEFINE d == backup.document
             other == Reformatted(backup)
  <2>1. PICK m \in moments : MomentOK(m) /\ m.schema = d.schema /\ m.rows = d.rows
    BY WholeFile
  <2>2. backup \in File /\ backup.canonical /\ d \in Document
    BY WholeFile DEF OfOneMoment
  <2>3. d.rows \in Contents /\ Closed(d.rows) /\ d.rows = Known(d.version, d.rows)
    BY <2>1 DEF MomentOK
  <2>4. Restores(d.rows)
    BY <2>3, ClosedRestores
  <2>5. Version[p] \in Nat /\ d.version \in Nat
    BY <2>2, ExportConstants DEF Document, SupportedVersions
  <2>6. other.state = "whole" /\ other.document = d /\ other.canonical = FALSE
    BY <2>2 DEF Reformatted, File
  <2>7. Parses(p, backup) <=> d.version <= Version[p]
    BY <2>3 DEF Parses
  <2>8. Parses(p, other) <=> d.version <= Version[p]
    BY <2>3, <2>6 DEF Parses
  <2>9. Same(p, backup) <=> d.version = Version[p]
    BY <2>2 DEF Same
  <2>10. ~ Same(p, other)
    BY <2>6 DEF Same
  <2> HIDE DEF d, other
  <2>11. CASE d.version = Version[p]
    <3>1. Verdict(p, backup, tool) = "identical"
      BY <2>2, <2>4, <2>5, <2>7, <2>9, <2>11, VerdictIs DEF d
    <3>2. Verdict(p, other, tool) = IF tool = "cli" THEN "upgraded" ELSE "differs"
      BY <2>2, <2>4, <2>5, <2>6, <2>8, <2>10, <2>11, VerdictIs
    <3> QED BY <2>11, <3>1, <3>2 DEF d, other
  <2>12. CASE d.version # Version[p]
    <3>1. CASE d.version > Version[p]
      BY <2>5, <2>7, <2>12, <3>1, VerdictIs DEF d
    <3>2. CASE d.version < Version[p]
      BY <2>2, <2>4, <2>5, <2>7, <2>9, <2>12, <3>2, VerdictIs DEF d
    <3> QED BY <2>5, <2>12, <3>1, <3>2
  <2> QED BY <2>11, <2>12
<1> QED BY <1>1, ExportInvHolds, PTL

(* Whatever became of the file, it is called identical only when all it     *)
(* refers to was restored.                                                  *)
THEOREM IdenticalMeansRestored == ExportSpec => []IdenticalIsRestored
<1>1. ExportInv => IdenticalIsRestored
  <2> SUFFICES ASSUME ExportInv, NEW p \in Programs, NEW tool \in {"cli", "demo"}
               PROVE  /\ backup.state = "torn" => Verdict(p, backup, tool) = "refused"
                      /\ backup.state = "whole" =>
                           \A text \in {backup, Reformatted(backup)} \union Altered(backup) :
                             /\ Verdict(p, text, tool) \in {"identical", "upgraded"} =>
                                  Closed(text.document.rows)
                             /\ Verdict(p, text, tool) = "identical" => text.document.schema = Version[p]
    BY DEF IdenticalIsRestored
  <2>1. backup.state = "torn" => Verdict(p, backup, tool) = "refused"
    BY VerdictIs DEF Parses
  <2>2. ASSUME backup.state = "whole",
               NEW text \in {backup, Reformatted(backup)} \union Altered(backup)
        PROVE  text.document \in Document
    <3>1. backup \in File /\ backup.document \in Document
      BY <2>2, WholeFile DEF OfOneMoment
    <3>2. Reformatted(backup).document = backup.document
      BY <3>1 DEF Reformatted, File
    <3>3. ASSUME NEW r \in Rows
          PROVE  [backup EXCEPT !.document.rows[r] = IF @ = 0 THEN 1 ELSE 0].document \in Document
      BY <3>1 DEF File, Document, Contents
    <3> QED BY <2>2, <3>1, <3>2, <3>3 DEF Altered
  <2>3. ASSUME NEW text, text.document \in Document
        PROVE  /\ Verdict(p, text, tool) \in {"identical", "upgraded"} => Closed(text.document.rows)
               /\ Verdict(p, text, tool) = "identical" => text.document.schema = Version[p]
    BY <2>3, VerdictIs DEF Restores
  <2> QED BY <2>1, <2>2, <2>3
<1> QED BY <1>1, ExportInvHolds, PTL

(* export verify errs in neither direction: a backup that is one verifies,  *)
(* and what has lost something is not called identical.                     *)
THEOREM VerifyIsRight == ExportSpec => []VerifyIsTrue
<1>1. BackupsVerify /\ IdenticalIsRestored => VerifyIsTrue
  BY DEF VerifyIsTrue
<1> QED BY <1>1, EveryBackupVerifies, IdenticalMeansRestored, PTL

=============================================================================
