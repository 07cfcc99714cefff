---------------------------- MODULE WorkspaceExport ----------------------------
(***************************************************************************)
(* Backups of a workspace: "export" and "export verify" of the CLI and of  *)
(* the demo (packages/cli/src/commands.ts, packages/demo/src/orchestration *)
(* and export.ts of packages/core and packages/sqlite), run by programs of *)
(* several format versions beside others that write to the database and    *)
(* migrate it.                                                             *)
(*                                                                         *)
(* A row is its table and the rows it refers to; its fields are a counter  *)
(* of its changes.  A section of the model stands for the neighbouring     *)
(* sections of the format that hold rows of its kind.  Migrations are      *)
(* counted by the format version that knows their tables; every one of     *)
(* them brings tables.  A backup file is the document it holds, and        *)
(* whether its text is the canonical one.                                  *)
(***************************************************************************)
EXTENDS Naturals, FiniteSets, Sequences

CONSTANTS
  Programs,       (* installed programs, each running one command at a time *)
  Version,        (* the format version of each                             *)
  Rows,           (* the rows there may be                                  *)
  In,             (* the section of each                                    *)
  Needs,          (* its foreign keys: the rows it refers to                *)
  MaxCommits      (* bound on the writes to the workspace                   *)

-----------------------------------------------------------------------------
(* The format: the sections in the order in which they are restored.        *)

KnowledgeSections == << "knowledge" >>
CrossProjectSections == << "crossProject" >>
PlanSections == << "plans", "planLinks" >>
PlanRevisionSections == << "planRevisions", "planRevisionLinks" >>
MissionSections == << "missions" >>
ChatSections == << "chats" >>
AuditSections == << "audit" >>
DerivedSections == << "derived" >>

(* Mutant of RestoreOrder: what belongs to a plan comes before the plans.   *)
LinksFirst ==
  << "knowledge", "crossProject", "planLinks", "plans", "planRevisions",
     "planRevisionLinks", "missions", "chats", "audit", "derived" >>

RestoreOrder ==
  KnowledgeSections \o CrossProjectSections \o PlanSections \o PlanRevisionSections
    \o MissionSections \o ChatSections \o AuditSections \o DerivedSections

SectionNames == {"knowledge", "crossProject", "plans", "planLinks", "planRevisions",
                 "planRevisionLinks", "missions", "chats", "audit", "derived"}

(* The format version that added a section.                                 *)
AddedIn(section) ==
  CASE section \in {"planRevisions", "planRevisionLinks"} -> 2
    [] section = "missions" -> 3
    [] section = "chats" -> 4
    [] OTHER -> 1

SupportedVersions == 1 .. 4

ASSUME ExportConstants ==
  /\ Version \in [Programs -> SupportedVersions]
  /\ In \in [Rows -> SectionNames]
  /\ Needs \in [Rows -> SUBSET Rows]
  /\ MaxCommits \in Nat

(* The triggers that look for the row a new one belongs to as it comes:     *)
(* unlike foreign keys they are not deferred to the end of the transaction. *)
Guards(r) ==
  {g \in Needs[r] : \/ In[r] = "planLinks" /\ In[g] = "plans"
                    \/ In[r] = "planRevisionLinks" /\ In[g] = "planRevisions"}

Contents == [Rows -> Nat]
NoRows == [r \in Rows |-> 0]

(* Every foreign key of the rows that are there leads to a row.             *)
Closed(rowSet) == \A r \in Rows : rowSet[r] > 0 => \A x \in Needs[r] : rowSet[x] > 0

(* The rows of a version's sections.                                        *)
Known(version, rowSet) ==
  [r \in Rows |-> IF AddedIn(In[r]) <= version THEN rowSet[r] ELSE 0]

-----------------------------------------------------------------------------
VARIABLES
  schema,         (* the last migration that was applied                    *)
  content,        (* the rows of the workspace                              *)
  moments,        (* no part of the code: every state the workspace was in  *)
  backup,         (* the file that is exported to                            *)
  exports         (* the command each program is running                    *)

exportVars == << schema, content, moments, backup, exports >>

NoFile == [state |-> "absent"]
TornFile == [state |-> "torn"]
NoJob == [at |-> "idle"]

Document == [version : SupportedVersions, schema : SupportedVersions, rows : Contents]
File == [state : {"whole"}, document : Document, canonical : BOOLEAN]

ExportInit ==
  /\ schema \in {Version[p] : p \in Programs}
  /\ content = NoRows
  /\ moments = {[schema |-> schema, rows |-> content]}
  /\ backup = NoFile
  /\ exports = [p \in Programs |-> NoJob]

Advance(p, next) == exports' = [exports EXCEPT ![p] = next]

-----------------------------------------------------------------------------
(* Others.                                                                  *)

(* A transaction of some program on the tables there are.  SQLite checks    *)
(* the foreign keys; no row of these tables is ever removed.                *)
WriteRows ==
  /\ \E changed \in SUBSET {r \in Rows : AddedIn(In[r]) <= schema} :
       content' = [r \in Rows |-> IF r \in changed THEN content[r] + 1 ELSE content[r]]
  /\ content' # content /\ Closed(content')
  /\ Cardinality({m.rows : m \in moments}) <= MaxCommits
  /\ moments' = moments \union {[schema |-> schema, rows |-> content']}
  /\ UNCHANGED << schema, backup, exports >>

-----------------------------------------------------------------------------
(* export.                                                                  *)

(* openSqliteStore: the migrations this program has and the database lacks. *)
OpenToExport(p) ==
  /\ exports[p] = NoJob
  /\ schema' = IF schema < Version[p] THEN Version[p] ELSE schema
  /\ moments' = moments \union {[schema |-> schema', rows |-> content]}
  /\ Advance(p, [at |-> "opened"])
  /\ UNCHANGED << content, backup >>

(* assertSchemaMatchesFormat, before the transaction: a table the format    *)
(* does not have ends the command.                                          *)
CheckSchema(p) ==
  /\ exports[p].at = "opened"
  /\ Advance(p, IF schema = Version[p] THEN [at |-> "checked"] ELSE NoJob)
  /\ UNCHANGED << schema, content, moments, backup >>

(* BEGIN, and the SELECT of schema_migrations, which starts the snapshot    *)
(* that the SELECTs of the sections read.                                   *)
BeginExport(p) ==
  /\ exports[p].at = "checked"
  /\ Advance(p, [at |-> "reading", done |-> 0, snapshot |-> content,
                 document |-> [version |-> Version[p], schema |-> schema, rows |-> NoRows]])
  /\ UNCHANGED << schema, content, moments, backup >>

(* Mutant of SectionRows: the SELECTs are no transaction.                   *)
SectionRowsNow(p, section) ==
  [r \in Rows |-> IF In[r] = section THEN content[r] ELSE exports[p].document.rows[r]]

SectionRows(p, section) ==
  [r \in Rows |-> IF In[r] = section THEN exports[p].snapshot[r] ELSE exports[p].document.rows[r]]

(* readSection, for the sections this version of the format has.  The CLI   *)
(* reads it all once before, for its directory, which decides        *)
(* nothing here: a schema that is refused stays refused.                    *)
ReadSection(p) ==
  LET j == exports[p]
      section == RestoreOrder[j.done + 1]
  IN
  /\ j.at = "reading" /\ j.done < Len(RestoreOrder)
  /\ Advance(p, [at |-> "reading", done |-> j.done + 1, snapshot |-> j.snapshot,
                 document |-> [version |-> j.document.version, schema |-> j.document.schema,
                               rows |-> IF AddedIn(section) <= Version[p]
                                        THEN SectionRows(p, section) ELSE j.document.rows]])
  /\ UNCHANGED << schema, content, moments, backup >>

(* writeFileSync: the old file is cut off, then the text is written.  When  *)
(* two programs write to one path at once the rest of the longer text may   *)
(* stay behind the shorter one, and when the disk is full the end is        *)
(* missing.                                                                 *)
CutFile(p) ==
  /\ exports[p].at = "reading" /\ exports[p].done = Len(RestoreOrder)
  /\ backup' = TornFile
  /\ Advance(p, [at |-> "writing", document |-> exports[p].document])
  /\ UNCHANGED << schema, content, moments >>

FinishFile(p) ==
  /\ exports[p].at = "writing"
  /\ \/ backup' = [state |-> "whole", document |-> exports[p].document, canonical |-> TRUE]
     \/ backup' = TornFile
  /\ Advance(p, NoJob)
  /\ UNCHANGED << schema, content, moments >>

(* The process is stopped wherever it is, or a statement fails and the      *)
(* command ends.                                                            *)
ExportStops(p) ==
  /\ exports[p] # NoJob
  /\ Advance(p, NoJob)
  /\ UNCHANGED << schema, content, moments, backup >>

ExportNext ==
  \/ WriteRows
  \/ \E p \in Programs :
       \/ OpenToExport(p) \/ CheckSchema(p) \/ BeginExport(p) \/ ReadSection(p)
       \/ CutFile(p) \/ FinishFile(p) \/ ExportStops(p)

ExportSpec == ExportInit /\ [][ExportNext]_exportVars

-----------------------------------------------------------------------------
(* export verify, of the CLI or of the demo: what it answers is a function  *)
(* of the text it reads, since it restores to a database it has just made.  *)

(* parseWorkspaceExport refuses what is no JSON, a version it does not      *)
(* know, and sections the document's version does not have.                 *)
Parses(p, text) ==
  /\ text.state = "whole"
  /\ text.document.version <= Version[p]
  /\ text.document.rows = Known(text.document.version, text.document.rows)

(* upgradeWorkspaceExport: the sections of later versions, empty.           *)
Upgrade(p, document) ==
  [version |-> Version[p], schema |-> document.schema, rows |-> document.rows]

Earlier(one, other) ==
  \E i, j \in 1 .. Len(RestoreOrder) :
    i < j /\ RestoreOrder[i] = one /\ RestoreOrder[j] = other

(* insertSection for one section after the other: every trigger finds its   *)
(* row.                                                                     *)
Inserts(rowSet) ==
  \A r \in Rows : rowSet[r] > 0 =>
    \A g \in Guards(r) : rowSet[g] > 0 /\ Earlier(In[g], In[r])

(* Mutant of Restores: the foreign keys stay unchecked.                     *)
RestoresUnchecked(rowSet) == Inserts(rowSet)

(* COMMIT checks the foreign keys; where it or a trigger fails, everything  *)
(* is rolled back.                                                          *)
Restores(rowSet) == Inserts(rowSet) /\ Closed(rowSet)

(* The restored database is exported again.  The CLI also accepts a         *)
(* document that was upgraded, or whose text is not the canonical one, when *)
(* only sourceSchema differs.                                               *)
Verdict(p, text, tool) ==
  LET upgraded == Upgrade(p, text.document)
      restored == [version |-> Version[p], schema |-> Version[p], rows |-> text.document.rows]
      unchanged == text.canonical /\ upgraded = text.document
  IN CASE ~ Parses(p, text) -> "refused"
       [] Parses(p, text) /\ ~ Restores(text.document.rows) -> "refused"
       [] OTHER ->
            CASE /\ tool = "cli" /\ ~ unchanged
                 /\ [restored EXCEPT !.schema = text.document.schema] = upgraded -> "upgraded"
              [] unchanged /\ restored = text.document -> "identical"
              [] OTHER -> "differs"

-----------------------------------------------------------------------------
(* Properties.                                                             *)

(* The tables of migrations that were not applied have no rows, and the     *)
(* workspace always was and is closed under its foreign keys.               *)
ExportTypeOK ==
  /\ schema \in SupportedVersions /\ content \in Contents
  /\ Closed(content) /\ content = Known(schema, content)
  /\ [schema |-> schema, rows |-> content] \in moments
  /\ backup \in {NoFile, TornFile} \union File

(* A whole backup is the workspace as it was at one moment, in the sections *)
(* its version has, however many commits there were between its SELECTs;    *)
(* and it has all there was at that moment, unless its sourceSchema names   *)
(* migrations of later versions.                                            *)
BackupIsOneMoment ==
  /\ ExportTypeOK
  /\ backup.state = "whole" =>
       LET d == backup.document IN
       \E m \in moments : /\ m.schema = d.schema
                          /\ d.rows = Known(d.version, m.rows)
                          /\ d.schema = d.version => d.rows = m.rows

(* What has become of a file: reformatted, say with other ends of lines, or *)
(* with one record removed or added.                                        *)
Reformatted(b) == [b EXCEPT !.canonical = FALSE]
Altered(b) ==
  {[b EXCEPT !.document.rows[r] = IF @ = 0 THEN 1 ELSE 0] : r \in Rows}

(* Such a backup always verifies: with the CLI of its own or of any later   *)
(* version, also in another form, and with the demo of its own.             *)
BackupsVerify ==
  \A p \in Programs, tool \in {"cli", "demo"} :
    backup.state = "whole" /\ backup.document.schema = backup.document.version =>
      IF backup.document.version = Version[p] THEN
        /\ Verdict(p, backup, tool) = "identical"
        /\ Verdict(p, Reformatted(backup), tool) = IF tool = "cli" THEN "upgraded" ELSE "differs"
      ELSE Verdict(p, backup, tool) =
             IF backup.document.version > Version[p] THEN "refused"
             ELSE IF tool = "cli" THEN "upgraded" ELSE "differs"

(* A file that was cut short, or that has lost a record others refer to, is *)
(* never called identical; and the canonical one only when its sourceSchema *)
(* is that of its version.                                                  *)
IdenticalIsRestored ==
  \A p \in Programs, tool \in {"cli", "demo"} :
    /\ backup.state = "torn" => Verdict(p, backup, tool) = "refused"
    /\ backup.state = "whole" =>
         \A text \in {backup, Reformatted(backup)} \union Altered(backup) :
           /\ Verdict(p, text, tool) \in {"identical", "upgraded"} => Closed(text.document.rows)
           /\ Verdict(p, text, tool) = "identical" => text.document.schema = Version[p]

(* export verify is right in both directions: of whole backups, and of what *)
(* became of them.                                                          *)
VerifyIsTrue == BackupsVerify /\ IdenticalIsRestored

(* EXPORT-API.md: "a migration cannot silently drop data from exports".     *)
NothingIsDropped ==
  backup.state = "whole" => \E m \in moments : m.rows = backup.document.rows
=============================================================================
