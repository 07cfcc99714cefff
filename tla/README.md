# Loxora in TLA+

TLA+ models of Loxora, the TLC configurations that check them on small
instances, and theorems about them that TLAPS checks for every instance.
Everything is translated from the TypeScript under `packages/`; paths below are
relative to the root of the repository. `PROJECT.json` lists, for each
definition, the lines it stands for; for each property a plausible bug (a
"mutant") that breaks it; and the hazards of the code with the properties that
watch them.

Contents: [1 the system](#1-the-system) ·
[2 hard behaviours](#2-what-is-hard-to-get-right) ·
[3 modules](#3-the-modules-and-the-code) ·
[4 runs](#4-the-runs) ·
[5 proofs](#5-the-proofs) ·
[6 disagreements](#6-where-code-and-documents-disagree) ·
[7 not modelled](#7-what-is-not-modelled) ·
[8 what is left](#8-what-is-left)

## 1. The system

Loxora keeps a project's accepted knowledge in one SQLite file. Several
processes open that file at once: the CLI (a process per command), the local app
(an HTTP server with one event loop), the MCP server (read-only) and the demo.
There is no server that orders them. What orders them is SQLite: a write is one
`BEGIN IMMEDIATE ... COMMIT`, but the *reads* that precede it in the services of
`packages/core` are statements of their own, outside the transaction. Most of
the questions in this project come from that gap, from answers that arrive after
an await, and from operations made of many transactions, or of a file and a
database.

| Component | State | Operations | Talks to | Modules |
|---|---|---|---|---|
| Knowledge lifecycle (`core/src/service.ts`, `sqlite/src/adapter.ts`) | Proposals, Review Decisions, Nodes, Revisions, relationships, Rollback Events, Current pointers, audit events | submit Initial / Successor / Restoration Proposal, review, record rollback, read Current | everything | `CanonicalKnowledge`, `Lifecycle` |
| Knowledge history (`adapter.ts`, `getKnowledgeHistory`) | none; several queries | read the lineage and classify each Revision | lifecycle tables | `KnowledgeHistory` |
| Node keys (`core/src/node-keys.ts`, `sqlite/src/node-keys.ts`) | one key per Node, for good | assign a key, at a proposal or retroactively | lifecycle, CLI | `NodeKeys` |
| Missions (`core/src/mission.ts`, `sqlite/src/mission.ts`) | Mission row with a sequence, events, Attention Requests, Outcome | create, start, report, wait, answer, resume, pause, cancel, complete, fail | CLI, app | `MissionStore`, `Mission`, `MissionAtomic` |
| Plans (`core/src/planned.ts`, `sqlite/src/planned.ts`) | creation record, revisions, revision proposals, decisions | create, revise (or propose a revision), review | lifecycle (linked Nodes), CLI | `PlanStore`, `PlannedKnowledge`, `PlanAtomic` |
| Chat (`core/src/chat.ts`, `sqlite/src/chat.ts`, `app/src/server/chat.ts`) | chats, messages, threads | post, delete, create, rename, archive; Xora's answer | assistant, Missions, bridge | `Chat` |
| Bridge page (`app/src/web/components/Bridge.tsx`, `web/api.ts`) | open chat and thread, last views, input bars | poll, open, close, type, post | app server | `BridgePage` |
| Cross-project impact (`core/src/cross-project.ts`, `sqlite/src/impact.ts`) | relationship Proposals, decisions, relationships, assessments | propose, review, assess, report | lifecycle of two projects | `CrossProjectImpact` |
| Navigation projection (`core/src/navigation.ts`, `sqlite/src/navigation*.ts`) | generations of a stored map | rebuild after a write, read, fail | everything that writes | `NavigationProjection` |
| Files of a workspace (`sqlite/src/migrations.ts`, `app/src/server/update.ts`, `setup.ts`, `workspace/src`) | `workspace.json`, database and its migrations, backups, settings | create, open, migrate, update with backup, write | CLI, app | `WorkspaceFiles` |
| First steps of the setup (`app/src/server/first-steps.ts`) | settings file, pending actions, serial queue | create the project, start the first Mission, record the goal, finish the setup | lifecycle, Missions, settings | `FirstSteps` |
| Xora's runtime (`app/src/server/runtime.ts`, `main.ts`) | status, child process, last start in the settings | start, wait until ready, fail, stop, exit handler | llama-server | `XoraRuntime` |
| Demo (`demo/src/orchestration/coordinator.ts`, `mcp-proof-cli.ts`) | database, `runtime.json`, request and proof files | the guide's steps, resume, confirm, reset; the proof command | lifecycle, impact, plans, MCP | `DemoGuide` |
| Export and restore (`core/src/export.ts`, `sqlite/src/export.ts`, the export commands of CLI and demo) | a backup file; none in the database | export, export verify | every table, programs of other versions | `WorkspaceExport` |
| Review inbox and plan history, context packages, CLI, app server, assistant, MCP, other web pages | see section 7 | | | |

What makes each one correct:

* **Lifecycle**: a Node has one origin and one line of Revisions that only grows
  at its end; a stale Proposal is never accepted; the tables tell one story.
* **History**: a History that is answered is one lineage with one Current.
* **Node keys**: a key is never given away, replaced or shared.
* **Missions**: the log explains the row, only humans take the decisions
  reserved to them, a finished Mission stays finished, operations are atomic.
* **Plans**: no revision undoes what another one did unnoticed, closing is
  reviewed, a proposal is decided once, operations are atomic.
* **Chat**: no message is out of reach, an archived channel stays as it was,
  Xora's answer stands in the thread of its question.
* **Bridge page**: what is shown belongs to what is open, and the page catches up.
* **Impact**: what is stored was fresh when it was stored, and no report calls
  fresh what never was, or stale what still is.
* **Navigation**: however a map was put together, no part of it is older than the
  command that shows it, it reports no orphan that is none, and when nothing is
  written meanwhile it is the database as it is, up to what it announces as stale.
* **Files**: one writer, whole backups that come before the migration and stay,
  an update that is completed in the end.
* **Export**: a backup is the workspace of one moment, verifies, and is not called
  identical when something is missing.
* **First steps**: a repeated step continues and does not duplicate; nothing
  the captain closed is reopened by a run that started before.
* **Runtime**: every start ends, a runtime the app started does not outlive the
  session, a start whose failure is on record is not repeated by itself.
* **Demo**: the guide recovers from rejections and stops, goes back only when a
  proof is taken back, and is complete only when this very run was confirmed.

## 2. What is hard to get right

`PROJECT.json`, "hazards", lists them with their lines. In short:

* *stale reads*: a Successor written against a Revision that is no longer
  Current; a Mission, plan, thread or relationship endpoint that moved on between
  the service's reads and its transaction; a row and its links (or its Attention
  Request) read by two statements and so possibly never true together; a
  projection computed outside the transaction that stores it;
* *composed reads*: a History, an impact report and a map made of several
  SELECTs with other processes' commits between them; an export whose check of
  the tables precedes its read transaction;
* *competing writers*: two reviews of one Proposal, two Initial Proposals for
  one Node id, two commands that found the same key free, two processes that
  migrate one database;
* *late answers*: Xora's reply after its channel was archived or its thread
  deleted; fetches of a page that answer out of order; a health answer after the
  process exited;
* *long sequences*: restorations accepted long after their Rollback Event, a
  plan reopened and closed through proposals, an agent that reaches past a human
  decision, a demo rejected again and again until a free id is needed;
* *partial failure and restart*: a setup action of a dozen transactions whose ids
  are saved in another file; a command that commits its Proposal and dies before
  it assigns the key or rebuilds the projection; an update stopped between its
  backup and its migration; a reset stopped between its files;
* *clicks twice and late*: repeated actions, answers sent from an old page.

## 3. The modules and the code

```
CanonicalKnowledge  <== implemented by ==  Lifecycle
                                            |-- KnowledgeHistory  (EXTENDS, + a reader)
                                            |-- NodeKeys          (EXTENDS, + commands)
                                            |-- MCLifecycle       (all three, for TLC)
                                            `-- LifecycleProofs   (all three)
MissionAtomic       <== implemented by ==  Mission   -- MissionProofs
   `----------- both over MissionStore ------'
PlanAtomic          <== implemented by ==  PlannedKnowledge -- MCPlannedKnowledge, PlanProofs
   `----------- both over PlanStore ---------'
Chat, BridgePage (the browser's end of it)                -- ChatProofs
CrossProjectImpact                                        -- CrossProjectImpactProofs
WorkspaceFiles, WorkspaceExport (-- MCWorkspaceExport)    -- WorkspaceFilesProofs
CrossProjectImpact and WorkspaceExport for TLC            -- MCComposedReads
XoraRuntime, FirstSteps                                   -- MCSetup, SetupProofs
NavigationProjection (-- MCNavigationProjection), DemoGuide  -- DerivedStateProofs
```
`FirstSteps` uses the result that Mission operations are atomic. A proof module
that has two components states nothing about them together: one is the server
and the page of the same chat, one the files of a workspace, one the setup of the
app, one what is derived from the database.

Common conventions. A transaction is one action, because SQLite's
`BEGIN IMMEDIATE` serialises writers and a thrown error rolls all of it back; a
refused write and a crash inside a transaction are stuttering steps. Every read
outside a transaction is an action of its own that keeps what it read in a local
variable of the caller. Append-only tables are sequences, a row's id is its
position, 0 (or a value named `none`) is SQL's `NULL`. Texts, evidence lists and
timestamps are dropped unless a property needs them. Bounds are CONSTANTS named
`Max...` and occur only in guards.

**`CanonicalKnowledge`** is what readers are promised, with no Proposals in it:
for each Node and scope a chain of Revisions and its head; a step puts one new
Revision at the end of one chain; a Node has a chain in one scope only.

**`Lifecycle`** is `reviewProposal`, the submissions, `recordRollback` and the
tables of migrations 001 and 002. `SubmitInitial` checks nothing about the Node
(neither does the code: the primary key of `knowledge_nodes` is what refuses,
at acceptance). A client reads Current (`ReadCurrent`) and submits later
(`SubmitSuccessor`, compared in the transaction). `AcceptInitial`,
`AcceptSuccessor`, `AcceptRestoration` and `Reject` are the four outcomes of a
review; each writes the decision, the status, the Revision with its
relationships, the Current pointer and the audit events together. The CTE that
walks the lineage (`Lineage`, `IsAncestor`) is written without recursion, as the
least set closed under `DirectPredecessor`, so that the module can be proved
about. The refinement mapping takes `lineage` to that walk from Current.

**`KnowledgeHistory`** adds one reader. `getKnowledgeHistory` has no
transaction: Current, the accepted Revisions and the entries are separate
statements, one action each. The walk itself is one action, because
relationships that leave a Revision are written with it and never change.

**`NodeKeys`** adds the commands `propose new --key` and `node key`: load the
directory, submit, read the target, ask the policy, assign; `Abort` is a killed
process. Assignment repeats the tests on key and Node inside its transaction.

**`MissionStore`** has the rules (`Allowed`, `NewWait`, `NewRequests`) and the
transaction (`ApplyMissionChange`) of Missions. **`Mission`** has the callers:
`Begin` reads the row, `Plan` reads the Attention Request and decides, `Record`
runs the transaction or `Stale` gives up; pages (`OpenPage`, `CompletePage`)
read the same two statements and send the sequence they showed.
**`MissionAtomic`** does all of it in one step.

**`PlanStore`**, **`PlannedKnowledge`** and **`PlanAtomic`** are laid out the same
way for plans. Of the nine revisable fields two are kept: the status, for those in
the row, and the linked Nodes, for those in a table of their own, since these two
groups are read by different statements and can disagree.

**`Chat`** has the standing chats (`ship`, `project`, `direct`), which have no row
until a message is stored, and task channels, which can be renamed and archived.
A root of a thread is a message or something a chat offers (`Roots`); threads
have one level, so an answer to a reply goes to the root of that reply
(`ThreadOf`). A request checks the channel and the thread by reads of its own,
posts, and, when Xora is asked, awaits the model and stores her answer by the
same checks; other requests and a stop of the app come between any two steps.
`TopLevelMessages`, `OfferedThreads` and `ThreadView` are what the reader shows.

**`BridgePage`** is the browser's end: `usePolling` starts a load for what is
open, answers come in any order, none is cancelled, a failed one shows an error;
opening a chat or thread changes what is open at once and what is shown later
(`Shown`). The server is one version number. Each action ends with the render it
causes, in which an input bar that leaves the page loses its text.

**`CrossProjectImpact`** numbers the Revisions of a Node in the order they became
Current (justified by `CurrentNeverReturns`). A relationship Proposal reads its
two endpoints in two steps and is compared with Current when it is stored and
again when it is accepted; an assessment reads its consumer and is compared when
it is stored. A report of a dependency is cut at every SELECT (`ReportStages`).
`moment` is a history variable: the pointers at the first of the last two reads.
`Severity` is the builder's table of impacts.

**`NavigationProjection`** cuts `withWrite` of the CLI at the commit, the
fingerprints, each SELECT of the map, and the transaction that stores the
generation; a process may end after any of them, or record that the rebuild
failed. A reader builds a map of its own, compares its fingerprints with the
active generation and shows one of the two. The commits are those that move what
a map shows: Nodes accepted in the map's scope or in another one, Successors at
this project's end of a relationship and at the other, assessments of any pair
of Revisions, and plans of other projects whose relation to this one is set or
removed. A command's write may also be of nothing the map shows, and is followed by a
rebuild all the same.

**`WorkspaceFiles`** has one folder and who opens it: the app (create or open a
workspace, update with backup) and CLI processes. Opening is `exists`, a read of
the applied migrations, and per migration a lock, a write and a commit, where the
test whether it was applied precedes the lock; the backup is a directory under a
temporary name, the copy by `VACUUM INTO`, and a rename. `Stop` and a failing
operation may come anywhere.

**`WorkspaceExport`** has programs of several format versions on one database:
opening (with the migrations the program has), the comparison of the tables with
the format, `BEGIN` with the snapshot it fixes, one action per section, the file
cut off and written; writers and stops come in between. Rows carry their section
and the rows they refer to. `Verdict` is what `export verify` answers: parse,
upgrade, insert in `RestoreOrder` under triggers, check foreign keys, export again
and compare. `moments` is a history variable, all the workspace ever was.

**`FirstSteps`** walks the three setup actions step by step. `CreateRow` is the
Core operation, `SaveId` the write of the settings file after it;
`OperationFails`, `SaveFails` and `Restart` can come anywhere. The captain acts
meanwhile on the Mission, on the Proposal and through `POST /api/setup/finish`,
which does not take the queue. Core operations are single actions here; that
this is sound for Missions is `OperationsAreAtomic` below.

**`XoraRuntime`** cuts `start()` at its awaits (`port`, `ask`, `up`/`down`,
`pause`) and lets the exit handler, a failing chat answer, the death of the
process and a signal happen between them. The clock is the number of polls.
The last result stays in the settings file from session to session. What can
throw is an action of its own: no free port (the status is still off,
`PortFails`), the log file or the spawn (it is starting, `SpawnThrows`), and the
write of the result, in `start()` (`RecordThrows`) or in the exit handler, where
it ends the app (`ExitedThrows`); a settings file that cannot be read leaves the
result unrecorded (`Record`).

**`DemoGuide`** derives the guide's stage from the database and three files, as
the code does. A handler of the server is a list of its file and database
operations (`todo`), run one by one beside those of the proof command; an update
of `runtime.json` reads the whole file and writes the whole file later. The
person rejects, resumes, asks for and confirms the review of the temporal views
and resets, in any order; `MaxTrouble` bounds what goes wrong altogether. The
proof command reads its two packages one after the other, so that an acceptance or an
assessment between them makes it write a proof that failed. `Reset` waits for the
end of that command, as on Windows, where an open database cannot be moved away.

**`MCLifecycle`** puts the writers of `Lifecycle` alone, beside the reader or
beside the key commands, one of the three in each behaviour.
**`MCPlannedKnowledge`** lets a behaviour have links or a second reviewer.
**`MCNavigationProjection`** adds symmetry. **`MCWorkspaceExport`** gives two
programs their versions and three rows their sections and references.
**`MCSetup`** has the runtime and the first steps, **`MCComposedReads`** the reports
of `CrossProjectImpact` and the backups of `WorkspaceExport`; a behaviour has one of
the two and the other stays in an initial state. That loses nothing, since the two
share no variable and no property is about both; the fair actions of the runtime
cannot happen before it is launched, so the fairness asks nothing of a behaviour
that has the first steps.

## 4. The runs

All bounds are in the `.cfg` files. Deadlock is not checked, since the bounds end
every behaviour (`CHECK_DEADLOCK FALSE`). Properties marked * are temporal.

| Run | Instance | Shows |
|---|---|---|
| `lifecycle` | 2 Nodes, 2 scopes, 2 clients, 4 Proposals, 1 rollback; or one place, one client and a reader; or 2 Proposals, 2 keys, a reviewer and an agent; Nodes, scopes, clients and keys symmetric (no property orders them) | `OneOrigin`, `TablesAgree`, `CompleteLineage` (with `NoFork`), `RestorationIsGrounded`, `DecisionIsFinal`*, `HistoryHasOneCurrent`, `KeysArePermanent`*, and `ImplementsCanonicalKnowledge`* |
| `missions` | a human, on the CLI and on a page, and an agent; two wait reasons (one that asks, one that does not), 7 events | `LogExplainsRow`, `HumansDecide`, `AnswerReachesShownRequest`*, `ImplementsAtomicMission`* |
| `plans` | two reviewers and an agent, an open and a closed status, one link, 3 revisions, 1 proposal | `NothingIsLost`, `ReviewsDecide` (`ClosingIsReviewed`, `OneDecision`), `ImplementsAtomicPlan`* |
| `setup` | Xora's runtime: 3 polls, 3 sessions; or the first steps: 2 first Missions, one action pending or queued beside the one that runs, 1 pause, 1 lost id | `NoRuntimeIsLost`, `NoRetryAfterFailure`*, `StartEnds`*; `DuplicatesAreTorn`: a second row only for a lost id; `SettingsAreKept`*: nothing closed is reopened, no id is lost |
| `xora_exited` | 3 polls, 2 sessions | *violated*: ready after the exit was handled (section 6) |
| `chat` | two requests at once, the direct chat and one task channel, 3 messages, 1 lost request | `EveryMessageIsShown`, `ArchivedIsFrozen`*, `AnswerStaysInThread`*, `DirectIsAnswered`* |
| `bridge_page` | a channel, the direct chat, one thread; 2 loads under way, 1 post, 1 move, 1 failure, 1 message of others | `ShownIsOpen`, `CatchesUp`* |
| `composed_reads` | reports: 2 projects with a Node each, 2 Revisions, 2 Proposals, 2 assessments, one caller beside the reviewers; or backups: two programs, of format versions 1 and 4, a plan with a link and a revision, 2 commits | `RelationshipsAreReviewed`, `ReaderIsTold`, `WritesAreCurrent`*; `BackupIsOneMoment`, `VerifyIsTrue` (`BackupsVerify`, `IdenticalIsRestored`) |
| `navigation` | two Nodes, one of them at this project's end of a relationship, one plan of another project, two processes, 2 commits; processes symmetric | `MapsAreSound` (`NoPhantomOrphans`, `MapsAreRecent`), `QuietMapIsExact` |
| `files` | the app and a CLI, 3 migrations of which the app needs 2, 2 writes, 5 backup names, 1 fault | `BackupIsWhole`, `BackupsAreKept`*, `GetsUpdated`* |
| `export_race` | the same two programs | *violated*: a migration between the check and `BEGIN` drops rows (section 6) |
| `demo_guide` | 2 rejections, stops or resets altogether | `RecoveryWorks` and `GuideCompletes`* (both unless the note of a rejection was lost), `CompleteIsReviewed`, `StageMovesForward`* (but for a proof taken back) |

Type invariants are part of the first invariant of most runs (`LogExplainsRow`,
`NoRuntimeIsLost`, `BackupIsWhole`, and so on), so that the run shows them too.
Those of `Lifecycle` and `PlannedKnowledge` are not checked by a run; section 5
proves them.

Why these bounds are enough to be interesting.

* Four Proposals allow an Initial one, two Successors written against the same
  Revision (one goes stale), or a Successor, a rollback and a restoration with a
  further Successor after it; two Nodes and scopes let Initial Proposals compete
  for a Node in different scopes; two clients hold different stale reads.
* Seven Mission events are enough to wait, be answered, resume, wait again for
  another reason and finish, and to let the request a page shows be answered
  elsewhere and followed by a second one.
* Three plan revisions with a proposal let the base of the proposal, a revision
  after it and the accepted one differ.
* Three messages are a question, a reply in its thread and a late answer; two
  requests let one archive or delete while the other awaits the model.
* Two loads under way are what it takes for an older answer to arrive after a
  newer one, of another chat or of the same; one move makes both places old.
* Two Revisions at each end let either endpoint move on between any two reads.
* Two processes and two commits let a rebuild be torn by another command, be
  stored after a newer one, and be read in that state; the relationship is there
  from the start, so one commit moves an end or judges a pair. Rebuilds need no
  commit, so that there are any number of generations.
* Three migrations let the CLI and the app race on the one an update is about
  while another follows; two writes tell a backup before from one after; five
  names let a stopped update leave its folder and be repeated.
* Two versions let a migration bring tables the older export does not know;
  three rows let a link or a revision arrive, or be lost, without its plan.
* Two first Missions let a cancelled one be replaced; one lost id is what tears
  a step. Three sessions let a start fail, be refused, and be repeated after the
  settings were edited. Two troubles in the demo let a second rejection use up
  the ids the first one left, or a stop hit a reset or a resume.

That nothing depends on larger tables is what section 5 adds for its theorems.

**Fairness** and why the code justifies it:

* `XoraRuntime`: weak fairness of the steps of `start()` and of the exit handler.
  An await that can continue does (the health request has a timeout, the pause is
  a timer), and a child's exit event is delivered. Nothing is assumed of the
  runtime, which may neither answer nor exit, nor of the person.
* `Chat`: weak fairness of each request that has begun (`Continue`): its awaits
  end, since the model's answer is limited by `ANSWER_TIMEOUT_MS`. Requests that
  are lost when the app stops are counted (`aborts`) and excepted.
* `BridgePage` (`FairPageSpec`): weak fairness of the poll timer, and of every request under way
  being served and answered (a failure is an answer). `CatchesUp` is for the time
  when nobody writes, moves or fails any more, which the bounds bring about.
* `WorkspaceFiles`: strong fairness of a process that was not stopped, because
  the write lock is granted within SQLite's busy timeout although others keep
  taking it; and strong fairness of the captain, who opens the folder and clicks
  the update for as long as the page offers it. Faults are bounded.
* `DemoGuide` (`FairGuideSpec`): weak fairness of the handler and the command that run, strong
  fairness of what the guide tells the person to do, weak fairness of a reset when
  the database is missing. `GuideCompletes` excepts a demo whose note of a
  rejection was lost (section 6).

The other modules state safety only: nothing in the code makes a review, an
answer or a click happen.

## 5. The proofs

For all values of the CONSTANTS, under their named assumptions
(`LifecycleConstants`, `ReviewersAreActors`, `MissionConstants`,
`ViewersAreHuman`, `PlanConstants`, `ChatConstants`, `FilesConstants`,
`RuntimeConstants`, `PageConstants`, `FirstStepsConstants`, `DemoConstants`,
`ExportConstants`, `NavigationConstants`; `CrossProjectImpactProofs` needs none). `PROJECT.json`,
"theorems", names the property each theorem states. The bounds `Max...` are
arbitrary numbers there, so the theorems hold of every finite behaviour.

**`LifecycleProofs`**. `TypeCorrect`: `TypeOK` is inductive as it stands.
`CompleteLineage` and `NoFork` are not: a second successor could hang off a
Revision in the middle if Current were not the end of its line, and a new
Initial Revision could join a line if a Node with Revisions were unknown to
`nodes`. The inductive invariant is

    LineageInv == TypeOK /\ NoFork /\ CurrentIsHead /\ KnownNodes /\ CompleteLineage

`CurrentIsHead` says that Current is a Revision of its own Node and scope that
nothing succeeds yet, `KnownNodes` that a Node with a Revision is in `nodes`. The
heart is `LineageExtended`: an acceptance either starts the line of an unknown
Node or hangs a new Revision on the head that is Current, and the walk from the
new head is the old walk and the new Revision. From it follow
`HistoryIsComplete`, `LineageNeverForks`, `CurrentNeverReturns` and
`Implementation` (every step is a step of `CanonicalKnowledge` or leaves what it
sees unchanged). `NodesHaveOneOrigin` is inductive together with `LineageInv`.
`ReviewsAreFinal` needs that a step either appends a Proposal or writes the
decision of one that is Submitted. `RestorationsAreGrounded` carries
`RollbacksDiffer` beside it: the restored and the abandoned Revision of a Rollback
Event are different members of one line, and a line never loses a member.
`TablesTellOneStory` rests on `RowsNameProposals` and `Agree`: what each table says
of a Proposal is a function of its status.

The second half of the module is about those who use the lifecycle. A History is read while Revisions are
accepted; `HistoryInv` says at each stage of the reader what it has read of a line
that has only grown since (`Reads`, `Entries`): the walk from the Current it read
is fixed (`LineageIsFixed`), and every Revision of it but that one is superseded by
another of it (`OthersAreSuperseded`). Hence `HistoriesHaveOneCurrent`.
`KeysStay` is over `KeysInv`, keys unique with what each command has found out
so far (`KnownJob`), because assignment tests key and Node in its transaction.

**`MissionProofs`**. `OperationsAreAtomic`: the interleaved Mission implements
the atomic one. The invariant `UpToDate` says: if the sequence a call has read
is still the Mission's sequence, then the row it has read, and the Attention
Request it has decided on, are still what the store holds; every change of the
store advances the sequence. So a `Record` that passes the comparison is the
atomic operation at that moment. It covers the two-statement read: a request that
belongs to a later wait than the row implies a later sequence. Over it,
`HumansTakeDecisions` follows from `Logged` (an answer is kept in a request only
after the log has it), `FinishedStays` from the rules, `LogTellsTheStory` from
`Story` (no two requests come from one wait, and a request has exactly the answer
the log has for it: an answer goes to the request of the last wait, so for every
older request another wait stands between), and `AnswersReachTheirRequest` from
`PagesKnown` (a complete page whose sequence is still the Mission's shows its
current request).

**`PlanProofs`**. `PlanTypeCorrect`, by `Typed`. `PlanOperationsAreAtomic`, by
`UpToDate` in the same manner with the number of the effective revision.
`PlansLoseNothing`, by `Story == NothingIsLost /\ ProposalsDiffer`: an accepted
proposal changes exactly the fields it declares, because its fields still have the
values of its base. `ProposalsAreDecidedOnce`, by `SourcesExist` and `DecidedOnce`:
a revision names the proposal it was made of, and each acceptance has one.
`ClosingNeedsReview` follows step by step from what an agent's call may write.
`ReviewsAreDecisive` puts the two together.

**`ChatProofs`**. `ChatInv` is the shape of the tables (`Tables`: a root is never
a reply, `RootHolds`; a message's chat has a row, `HasRow`) with what each request
knows from its reads (`KnownCall`), which stays true because the tables only grow
(`Grows`) and a message is at most deleted. Hence `MessagesAreShown` (in exactly
one thread, or at the top level), `ChannelsStayFrozen` (the transaction repeats the
test that the request made before) and `AnswersStay`. For the page,
`ShownIsAlwaysOpen` needs `PageInv`: whatever is shown, remembered or under way is a
view of one place at a version the server had reached; and an input bar on the page
has something shown to write to (`OnPage`).

**`CrossProjectImpactProofs`**. `ReportsAreTrue`, by `ImpactInv`: the tables with
what a report may rely on at each of its stages (`KnownReport`). The pointers only
move on (`MovesOn`), so what was once not Current is never so again, and what is
Current now and was bound at the earlier moment was Current throughout.
`WritesAreOfTheMoment` follows from the comparison inside each transaction.
`ReviewsTellOneStory`, by `ReviewInv`: each status has its decision, its
relationship and its audit events, and no two relationships come from one
Proposal. `SeverityGrows`: making any fact of a change worse never makes its
impact less severe, so no case of the table falls through.

**`WorkspaceFilesProofs`**. `BackupsAreWhole`, by `FilesInv`: types; the migrations
applied are the first ones (`Done`); an update past its copy has its backup with
everything it was asked for (`BackedUp`); whoever is inside a transaction holds the
lock (`Holds`); and `OneCallMoves`, that a step moves one process.
`FinishedBackupsStay` as an action property over the same invariant.

For the export, `ExportInv` says of every program what its command holds: one that
reads has a snapshot that was the workspace of one past moment, with the
migrations its document names, and its document is that snapshot in the sections
read so far (`ReadSoFar`) and empty in the others; one that writes has a document
of one moment. `BackupsAreOneMoment` is that for the file. With it the rows of a
backup are closed under their references, so that `RestoreOrder` meets every
trigger and foreign key: `EveryBackupVerifies`. `IdenticalMeansRestored` follows
from what `Verdict` compares; `VerifyIsRight` is both.

**`SetupProofs`**. `RuntimesAreNotLost`, by `RuntimeInv == TypeOK /\ Held`: what
`start()` holds at each of its places. `FailuresAreNotRetried`.

`NoStepIsRepeated` is about the first steps. `DuplicatesAreTorn` bounds a number by
a number and is far from inductive; `StepsInv` counts the same thing otherwise:

    StepsInv == StepTables /\ RunIsSound /\ CountAll(LostRows) <= tears

A row is lost (`LostRows`) when neither the settings file nor the run under way has
its id, unless it is a Mission that was cancelled, which the setup has no more use
for. `RunHolds` says what a run may rely on at each of its places: an id not yet
saved is of the row created last, and nothing else is saved for that step. Creating
a row then makes none of them lost, and only a failed or interrupted save does,
which is what `tears` counts. A second row of a kind means a lost one
(`DuplicatesAreLost`). `SettingsSurviveRuns` is
an action property over the same invariant.

**`DerivedStateProofs`**. For the map, `NavInv` says of a build that has read its
first `k` statements what each read is worth by now: it is bounded by the database
as it is (`ReadUpTo`), it has at least what there was when the map was asked for
(`AtLeast`), and it is exact if nothing changed since (`Exact`). This stays true
because the database only grows (`Older`) and every commit moves one of its counters
(`Moved`); a plan can stop being related, but it is then at a later revision, and
what the count may miss or have too many of is bounded accordingly (`Still`, `Ever`).
`MapsHaveNoPhantomOrphans` and `MapsShowWhatWasThere`, together
`MapsAreAlwaysSound`, and `QuietMapsAreExact` are the invariants of the run.
`MapsAreAlwaysSound` is about the parts of a map: a map that was torn can combine
parts of different moments. That it does not when nothing was written since it was
asked for is `QuietMapsAreExact`, with the count of plans as the exception that the
code makes (section 6).

For the guided demo,

    GuideInv == FilesHold /\ DatabaseHolds /\ CallsHold /\ RunsArePaid /\ IdsAreKnown

`FilesHold` and `CallsHold` follow one note: that a review is of *this* run may
stand in `runtime.json`, in the copy of it that a process has read, or in what a
call has still to write, only when this run was confirmed (`Notes`, `GoodKeys`).
A reset makes a new run, so that every older note is harmless from then on,
wherever it waits; `CompletionIsOfThisRun`. `IdsAreKnown` follows the ids of the
manifest: one that was used belongs to a Proposal that is open or accepted, or its
rejection is noted, or is the very next thing the handler writes, or is lost. A
reset that is under way (`AfterReset`) has none, and right after the new database
was moved in nothing was accepted yet (`AfterMoveIn`). So a kind that resumeOne would
prepare (`MayPrepare`) has a free id: `TheGuideRecovers`. `RunsArePaid` keeps run
numbers within their bound. `TheGuideMovesForward`: no
action of a run takes back an acceptance, an assessment or the Rollback
(`Grows`), and the stage is monotone in them and in the proof (`RankIs`,
`RankGrows`). The proof itself is written by the command alone, within a run that has
begun (`ProofMoves`), and a failed one is the exception that the property states.

**Model-checked only**: liveness (`StartEnds`, `DirectIsAnswered`, `CatchesUp`,
`GetsUpdated`, `GuideCompletes`). Liveness under fairness, `ENABLED` and induction
over data are out of the proof system's reach. Every invariant and every other
action property that a passing run checks is stated by a theorem.

## 6. Where code and documents disagree

Two are runs of their own. `xora_exited`: `waitReady` sets ready after an await without
looking at the status again; an exit that was handled while the health answer was
under way is overwritten (`docs/adr/ADR-008-xora-model-runtime.md:55`). `export_race`:
`readWorkspaceExport` compares the tables with the format before its transaction
begins (`sqlite/src/export.ts:84`); a newer program that migrates the database in
between and writes to the new tables leaves a backup without those rows, and no
error, against "a migration cannot silently drop data from exports"
(`docs/implementation/EXPORT-API.md:55`). `BackupIsOneMoment` shows that its
`sourceSchema` then tells: a backup whose schema is that of its version has it all.

Five more have a configuration that TLC finds violated (`tlc -config X.cfg M`):

* `HistoryRace.cfg` (`KnowledgeHistory`): a review that commits between the query
  for Current and the query for the accepted Revisions makes `getKnowledgeHistory`
  throw `InvalidLineageError` (`adapter.ts:896`), though the lineage is complete
  before and after (`docs/implementation/LIFECYCLE-API.md:38`). A read transaction
  around the call would avoid it.
* `FirstStepsTorn.cfg` (`FirstSteps`): the id of a new row is saved after the
  transaction that created it; a stop between the two makes the repeated step
  create a second row (`first-steps.ts:24-25`,
  `docs/implementation/MILESTONE-13.md:133`). `DuplicatesAreTorn` shows that,
  within the bounds, this is the only way.
* `SetupStuck.cfg` (`WorkspaceFiles`): a stop after `workspace.json` was written
  and before the database was created leaves a folder that the setup takes for a
  workspace without a database and does not complete (`setup.ts:357-367`), against
  "An interrupted setup continues where it stopped on the next start, using
  `setup` in the settings file." (`MILESTONE-13.md:104`).
* `NavigationTorn.cfg` (`MCNavigationProjection`, `QuietCountIsExact`): the related
  plans are counted by a SELECT of its own, and no fingerprint covers the count
  (`core/src/navigation.ts:34-63`). When a plan of another project becomes related
  between the two SELECTs of a rebuild and later stops being related, the stored map
  goes on counting it although it is announced as fresh, against "A stale projection must not silently present
  superseded knowledge as current." (`ADR-002:87`). `QuietMapIsExact` of the run
  `navigation` bounds the count and shows that nothing else tears a map.
* `BridgeDraft.cfg` (`BridgePage`): the draft in the chat's input bar is gone when
  the first load of another thread fails, since the bar is mounted anew, against
  the comment at `Bridge.tsx:69`. Of the same kind: a post whose answer comes after
  another chat was opened opens its own chat again (`Bridge.tsx:412`), so what is
  typed meanwhile stands in a bar that writes elsewhere (`DraftStaysPut`,
  `MILESTONE-15.md:52`).

Met while modelling, visible in the models, without a configuration:

* a Node accepted between `assignNodeKey`'s read of the target and its
  transaction gets a retroactive key from an actor who may not decide
  (`core/src/node-keys.ts:71`, against lines 51-52);
* the evidence of a cancelled first Mission stays in the settings and is reused
  for its successor, whose Outcome then quotes the wrong Mission
  (`first-steps.ts:243`, `MILESTONE-13.md:129`);
* when there is no free port the status stays off, and when opening the log file,
  spawning or the write of the result throws it stays starting, until the child exits
  (`runtime.ts:102,135-160,205-209`); `StartEnds` therefore has a third case. A late
  runtime whose time limit cannot be recorded is not stopped before the app quits,
  and an exit handler that cannot record ends the app;
* an acceptance compares values, so a field changed and changed back since the
  base of a plan revision proposal counts as untouched (`ADR-006:59`);
* a plan can be created with a closed status by any author (`core/src/planned.ts:44`);
* in the demo, an update of `runtime.json` that a stop or the proof command costs
  the note of a rejection makes every later resume fail, as the id it wants is
  taken, against "This recovery works for Initial, Relationship, Successor, and
  Restoration Proposals." (`DEMO-RUNBOOK.md:50`); `RecoveryWorks` and
  `GuideCompletes` except exactly that case (`lost`);
* a second proof command that is overtaken by the acceptance or the assessment of
  V3 writes a proof that failed, and a complete guide is back at V3Restored
  (`mcp-proof-cli.ts:72-83`, `coordinator.ts:511-517`) until the proof is repeated;
* the guide shows its step 8 early when the proof command itself built the context
  (`DEMO-RUNBOOK.md:34`); a proof written at an earlier stage counts at a later
  one; and a stop between the acceptance of V3 and its assessment leaves V3
  unassessed.

## 7. What is not modelled

* **A signal the app cannot handle** (`app/src/server/main.ts:45`): no code runs, and
  the llama-server it started goes on. `NoRuntimeIsLost` excepts that session.
* **Review inbox and plan history** (`sqlite/src/planned.ts:333`): queries that
  order rows by a time in milliseconds and then by a random id. The documents
  promise an order by time only.
* **Export and restore**: `readWorkspaceSections`, which reads labels for the app,
  and the digest of a document. A restore is only called on a database it has just
  created, so it is an operator and not an action.
* **Context packages**: a pure selection and truncation of text over what was
  read; `DemoGuide` has what a package depends on.
* **CLI** and **app server**: parsing, lookup, HTTP, sessions, output. Their
  commands and routes that make several operations are in `NodeKeys`,
  `PlannedKnowledge`, `Mission`, `FirstSteps`, `Chat`, `WorkspaceFiles` and
  `NavigationProjection`.
* **Assistant and model**, **MCP server**, **other web pages**: text in, text out,
  or read-only over one query.
* Within the modelled parts: creation of Projects, Spaces, Collections, Sources
  and Evidence (one insert and its audit event each); a second Project in
  `Lifecycle` (every query filters on the Project); wording and the order of
  lists; what a reader may see of the other project; Spaces, Collections and
  previews of the map; the map's views of one Evidence and one Source, which do
  not read the projection; the choice of a folder, the answers of the setup, and
  two processes that initialize one folder; a map of another scope than the one
  its Nodes were accepted in, beyond its orphans; of the demo, a `runtime.json` cut
  short in mid-write, failing renames, receipts and the export commands.
* **The demo on POSIX**: a database that is open can be moved away there, so a reset
  can come between the readings of the proof command, which then reads on in the
  old file. The model is of Windows.
* **Seeding a later stage** (`demo:reset --stage`): the ids of such a run are the same
  every time (`coordinator.ts:40-45`), so a receipt of an earlier seeded run could
  match in a later one. `CompleteIsReviewed` is about runs that begin at Prepared.

## 8. What is left

1. The plan history and the review inbox with a clock that stands still: what a
   page of them may show in which order.
2. Backups taken while an update of `WorkspaceFiles` runs, the two in one module.
3. Initialization of one folder by two processes, and the setup's own answers.
4. The views of one Evidence and of one Source, beside the projection.
5. Context packages as operators against a reference definition.
6. A refinement for the projection and for the export, an abstract backup that is
   taken in one step, which their invariants nearly state.
7. The safety half of the liveness properties: that the states they wait for can
   only be left by the faults they except.
