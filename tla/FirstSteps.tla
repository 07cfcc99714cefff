----------------------------- MODULE FirstSteps -----------------------------
(***************************************************************************)
(* The first steps of the app's setup                                      *)
(* (packages/app/src/server/first-steps.ts): the project, the first        *)
(* Mission and the first accepted knowledge.                               *)
(*                                                                         *)
(* A confirmed action is a run of many Core operations with no transaction *)
(* around them.  After each operation that creates a row, its id is saved  *)
(* in the settings file, a second file beside the database; a repeated     *)
(* action starts at what is not yet saved.  Runs follow each other in the  *)
(* server's serial queue; the captain meanwhile uses the Mission page, the *)
(* CLI, and POST /api/setup/finish, which does not queue.  An operation    *)
(* can fail, and the process can stop, at any step of a run.               *)
(*                                                                         *)
(* Every Core operation is one action: module Mission shows that those on  *)
(* a Mission are atomic.  A Mission that failed is treated like one that   *)
(* was cancelled by every step here, and counts as such.                   *)
(***************************************************************************)
EXTENDS Naturals, Sequences, FiniteSets, FiniteSetsExt

CONSTANTS
  MaxMissions,    (* bound on the Missions created                          *)
  MaxPending,     (* bound on the pending and queued actions                *)
  MaxPauses,      (* bound on how often the captain pauses a Mission        *)
  MaxTears        (* bound on how often a run stops after it has created a  *)
                  (* row and before it has saved its id                     *)

ASSUME FirstStepsConstants ==
  MaxMissions \in Nat /\ MaxPending \in Nat /\ MaxPauses \in Nat /\ MaxTears \in Nat

VARIABLES
  settings,       (* the ids saved in the settings file, 0 for none         *)
  closed,         (* completedAt and firstMissionDismissedAt, there         *)
  rows,           (* how many rows each step of the setup has created       *)
  missions,       (* the first Missions, with their answer and Outcome      *)
  evidence,       (* evidence references: the Mission each one quotes       *)
  proposals,      (* "Project goal" Proposals: their evidence and status    *)
  pending,        (* actions proposed and not yet confirmed, in memory      *)
  queue,          (* confirmed actions that wait for their turn             *)
  run,            (* the action being executed                              *)
  pauses,         (* how often a Mission was paused, to bound it            *)
  tears           (* how often a run stopped between row and saved id       *)

stepVars == << settings, closed, rows, missions, evidence, proposals, pending,
           queue, run, pauses, tears >>

Kinds == {"createProject", "startFirstMission", "recordGoal"}
Spaces == {"space1", "space2", "space3"}
Plain == {"project", "collection", "source"} \union Spaces
Items == Plain \union {"mission", "evidence", "proposal"}
MissionStates == {"queued", "running", "waiting", "paused", "completed", "cancelled"}

Idle == [at |-> "idle"]

(* The order of a run.  The last steps, which rebuild the navigation        *)
(* projection, change nothing that is modelled here.                        *)
FirstOf ==
  [createProject |-> "project", startFirstMission |-> "mission", recordGoal |-> "source"]
After ==
  [project |-> "space1", space1 |-> "space2", space2 |-> "space3",
   space3 |-> "collection", collection |-> "idle",
   mission |-> "start", start |-> "wait", wait |-> "idle",
   source |-> "evidence", evidence |-> "resume", resume |-> "proposal",
   proposal |-> "complete", complete |-> "review", review |-> "idle"]

-----------------------------------------------------------------------------
(* stage(): which action is due.                                            *)

ProjectDone == \A i \in {"project", "collection"} \union Spaces : settings[i] # 0

CurrentMission ==
  LET m == settings["mission"] IN
  IF m = 0 THEN 0 ELSE IF missions[m].state = "cancelled" THEN 0 ELSE m

MissionStage(m) ==
  CASE m.state = "completed" ->
         IF proposals[m.outcome].status = "Submitted" THEN "record" ELSE "hints"
    [] m.state = "waiting" -> IF m.answered THEN "record" ELSE "answer"
    [] m.state = "paused"  -> "answer"
    [] m.state \in {"queued", "running"} -> IF m.answered THEN "record" ELSE "mission"

Stage ==
  IF ~ ProjectDone THEN "goal"
  ELSE IF CurrentMission = 0 THEN "mission"
  ELSE MissionStage(missions[CurrentMission])

ActionStage ==
  [createProject |-> "goal", startFirstMission |-> "mission", recordGoal |-> "record"]

IsClosed(k) == IF k = "createProject" THEN closed.completed ELSE closed.dismissed

-----------------------------------------------------------------------------
StepsInit ==
  /\ settings = [i \in Items |-> 0]
  /\ closed = [completed |-> FALSE, dismissed |-> FALSE]
  /\ rows = [i \in Plain |-> 0]
  /\ missions = <<>> /\ evidence = <<>> /\ proposals = <<>>
  /\ pending = [k \in Kinds |-> 0]
  /\ queue = <<>>
  /\ run = Idle
  /\ pauses = 0 /\ tears = 0

files == << settings, closed >>
store == << rows, missions, evidence, proposals >>
memory == << pending, queue, run >>
counters == << pauses, tears >>

(* The assistant proposes an action; nothing asks whether it is due.        *)
Propose(k) ==
  /\ MapThenSumSet(LAMBDA l : pending[l], Kinds) + Len(queue) < MaxPending
  /\ pending' = [pending EXCEPT ![k] = @ + 1]
  /\ UNCHANGED << files, store, queue, run, counters >>

(* PendingActions.take: an action leaves the map before it is executed, so  *)
(* two clicks on it cannot both find it.  `confirm: false` and the expiry   *)
(* of an action only drop it.                                               *)
Take(k) ==
  /\ pending[k] > 0
  /\ pending' = [pending EXCEPT ![k] = @ - 1]
  /\ queue' \in {queue, Append(queue, k)}
  /\ UNCHANGED << files, store, run, counters >>

(* executeAction, when its turn comes: the step must be open and due.       *)
Begin ==
  /\ run = Idle
  /\ queue # <<>>
  /\ queue' = Tail(queue)
  /\ LET k == Head(queue) IN
     IF IsClosed(k) \/ Stage # ActionStage[k]
     THEN run' = Idle
     ELSE run' = [at |-> FirstOf[k], unsaved |-> 0, mission |-> CurrentMission,
                  state |-> IF CurrentMission = 0 THEN "none"
                            ELSE missions[CurrentMission].state,
                  loaded |-> closed]
  /\ UNCHANGED << files, store, pending, counters >>

(* What the run does next; a run that is over leaves nothing behind.        *)
GoOn(r) == run' = IF After[r.at] = "idle" THEN Idle ELSE [r EXCEPT !.at = After[r.at], !.unsaved = 0]
EndRun == run' = Idle

(* Mutant of HasRow: a repeated step does not look at the saved ids.        *)
ForgetsRow(i) == IF i = "mission" THEN run.mission # 0 ELSE FALSE

(* Whether the row of this step exists already, as far as the run knows.    *)
HasRow(i) == IF i = "mission" THEN run.mission # 0 ELSE settings[i] # 0

SkipRow ==
  /\ run.at \in Items
  /\ run.unsaved = 0
  /\ HasRow(run.at)
  /\ GoOn(run)
  /\ UNCHANGED << files, store, pending, queue, counters >>

(* The Core operation that creates the row; its id is only in memory yet.   *)
CreateRow ==
  LET created(id) == run' = [run EXCEPT !.unsaved = id] IN
  /\ run.at \in Items
  /\ run.unsaved = 0
  /\ ~ HasRow(run.at)
  /\ \/ /\ run.at \in Plain
        /\ rows' = [rows EXCEPT ![run.at] = @ + 1]
        /\ created(rows[run.at] + 1)
        /\ UNCHANGED << missions, evidence, proposals >>
     \/ /\ run.at = "mission"
        /\ Len(missions) < MaxMissions
        /\ missions' = Append(missions, [state |-> "queued", answered |-> FALSE, outcome |-> 0])
        /\ run' = [run EXCEPT !.unsaved = Len(missions) + 1,
                              !.mission = Len(missions) + 1, !.state = "queued"]
        /\ UNCHANGED << rows, evidence, proposals >>
     \/ /\ run.at = "evidence"
        /\ evidence' = Append(evidence, run.mission)
        /\ created(Len(evidence) + 1)
        /\ UNCHANGED << rows, missions, proposals >>
     \/ /\ run.at = "proposal"
        /\ proposals' = Append(proposals,
                               [evidence |-> settings["evidence"], status |-> "Submitted"])
        /\ created(Len(proposals) + 1)
        /\ UNCHANGED << rows, missions, evidence >>
  /\ UNCHANGED << files, pending, queue, counters >>

(* Mutant of SaveId: it saves what the run had loaded when it began.        *)
SaveOverLoaded ==
  /\ run.at \in Items
  /\ run.unsaved # 0
  /\ settings' = [settings EXCEPT ![run.at] = run.unsaved]
  /\ closed' = run.loaded
  /\ GoOn(run)
  /\ UNCHANGED << store, pending, queue, counters >>

(* save(): the settings file as it is now, with the new id.                 *)
SaveId ==
  /\ run.at \in Items
  /\ run.unsaved # 0
  /\ settings' = [settings EXCEPT ![run.at] = run.unsaved]
  /\ GoOn(run)
  /\ UNCHANGED << closed, store, pending, queue, counters >>

(* startMission, waitMission, resumeMission, completeMission: the run goes  *)
(* by the state it last saw, Core by the state the Mission is in.           *)
MissionSteps ==
  [start    |-> [from |-> "queued",  to |-> "running"],
   wait     |-> [from |-> "running", to |-> "waiting"],
   resume   |-> [from |-> "waiting", to |-> "running"],
   complete |-> [from |-> "running", to |-> "completed"]]

MissionOperation ==
  LET step == MissionSteps[run.at]  m == run.mission IN
  /\ run.at \in DOMAIN MissionSteps
  /\ IF run.state # step.from
     THEN GoOn(run) /\ UNCHANGED missions
     ELSE IF missions[m].state # step.from
     THEN EndRun /\ UNCHANGED missions
     ELSE /\ missions' = [missions EXCEPT
                ![m].state = step.to,
                ![m].outcome = IF run.at = "complete" THEN settings["proposal"] ELSE @]
          /\ GoOn([run EXCEPT !.state = step.to])
  /\ UNCHANGED << files, rows, evidence, proposals, pending, queue, counters >>

(* The captain's review of the Outcome, unless somebody decided before.     *)
ReviewOutcome ==
  LET p == missions[run.mission].outcome IN
  /\ run.at = "review"
  /\ proposals' = IF p # 0 /\ proposals[p].status = "Submitted"
                  THEN [proposals EXCEPT ![p].status = "Accepted"] ELSE proposals
  /\ EndRun
  /\ UNCHANGED << files, rows, missions, evidence, pending, queue, counters >>

(* A Core operation throws: the run ends, nothing of it was written.        *)
OperationFails ==
  /\ run # Idle
  /\ run.unsaved = 0
  /\ EndRun
  /\ UNCHANGED << files, store, pending, queue, counters >>

(* The id of a row that was created is lost.                                *)
Torn == tears < MaxTears /\ tears' = tears + 1

(* The settings file cannot be written: the run ends after its row.         *)
SaveFails ==
  /\ run # Idle
  /\ run.unsaved # 0
  /\ Torn
  /\ EndRun
  /\ UNCHANGED << files, store, pending, queue, pauses >>

(* The app stops and starts again; what it kept in memory is gone.          *)
Restart ==
  /\ IF run # Idle /\ run.unsaved # 0 THEN Torn ELSE UNCHANGED tears
  /\ pending' = [k \in Kinds |-> 0]
  /\ queue' = <<>>
  /\ run' = Idle
  /\ UNCHANGED << files, store, pauses >>

-----------------------------------------------------------------------------
(* The captain, on the Mission page, in the CLI, and ending the setup.      *)

Move(m, from, to) ==
  /\ missions[m].state \in from
  /\ missions' = [missions EXCEPT ![m].state = to]
  /\ UNCHANGED << files, rows, evidence, proposals, memory >>

Answer(m) ==
  /\ missions[m].state = "waiting" /\ ~ missions[m].answered
  /\ missions' = [missions EXCEPT ![m].answered = TRUE]
  /\ UNCHANGED << files, rows, evidence, proposals, memory, counters >>

Pause(m) ==
  /\ pauses < MaxPauses
  /\ pauses' = pauses + 1 /\ UNCHANGED tears
  /\ Move(m, {"running", "waiting"}, "paused")

Resume(m) ==
  /\ missions[m].state = "waiting" => missions[m].answered
  /\ Move(m, {"paused", "waiting"}, "running")
  /\ UNCHANGED counters

Cancel(m) ==
  /\ Move(m, {"queued", "running", "waiting", "paused"}, "cancelled")
  /\ UNCHANGED counters

ReviewElsewhere(p) ==
  /\ proposals[p].status = "Submitted"
  /\ \E d \in {"Accepted", "Rejected"} : proposals' = [proposals EXCEPT ![p].status = d]
  /\ UNCHANGED << files, rows, missions, evidence, memory, counters >>

FinishSetup(skipped) ==
  /\ closed' = [completed |-> TRUE, dismissed |-> closed.dismissed \/ skipped]
  /\ UNCHANGED << settings, store, memory, counters >>

-----------------------------------------------------------------------------
Run ==
  \/ Begin
  \/ SkipRow
  \/ CreateRow
  \/ SaveId
  \/ MissionOperation
  \/ ReviewOutcome
  \/ OperationFails
  \/ SaveFails

Captain ==
  \/ \E m \in DOMAIN missions : Answer(m) \/ Pause(m) \/ Resume(m) \/ Cancel(m)
  \/ \E p \in DOMAIN proposals : ReviewElsewhere(p)
  \/ \E skipped \in BOOLEAN : FinishSetup(skipped)

StepsNext ==
  \/ \E k \in Kinds : Propose(k) \/ Take(k)
  \/ Run
  \/ Restart
  \/ Captain

StepsSpec == StepsInit /\ [][StepsNext]_stepVars
-----------------------------------------------------------------------------
(* Properties.                                                             *)

(* Every saved id names a row of the store, and what a row names exists.    *)
StepsTypeOK ==
  /\ settings \in [Items -> Nat]
  /\ closed \in [completed : BOOLEAN, dismissed : BOOLEAN]
  /\ \A i \in Plain : settings[i] \in 0 .. rows[i]
  /\ settings["mission"] \in 0 .. Len(missions)
  /\ settings["evidence"] \in 0 .. Len(evidence)
  /\ settings["proposal"] \in 0 .. Len(proposals)
  /\ \A m \in DOMAIN missions :
       /\ missions[m].state \in MissionStates
       /\ missions[m].outcome \in
            (IF missions[m].state = "completed" THEN 1 .. Len(proposals) ELSE {0})
  /\ \A p \in DOMAIN proposals : proposals[p].evidence \in DOMAIN evidence

(* How many rows a step has created more than the setup has a use for: it   *)
(* has a use for one, and for one first Mission that was not cancelled.     *)
Duplicates ==
  LET Extra(n) == IF n = 0 THEN 0 ELSE n - 1 IN
  Extra(rows["project"]) + Extra(rows["collection"]) + Extra(rows["source"])
    + Extra(rows["space1"]) + Extra(rows["space2"]) + Extra(rows["space3"])
    + Extra(Len(evidence)) + Extra(Len(proposals))
    + Extra(Cardinality({m \in DOMAIN missions : missions[m].state # "cancelled"}))

(* However often a step is proposed, clicked, interrupted and repeated, and *)
(* whatever the captain does meanwhile, a second row of a kind is only      *)
(* created where the id of the first was lost on its way to the settings    *)
(* file, and one for every id that was lost; every saved id names a row.    *)
DuplicatesAreTorn == StepsTypeOK /\ Duplicates <= tears

(* first-steps.ts:25: "a step repeated after a failure continues instead of *)
(* duplicating".  Every step has created one row at most, whatever failed.  *)
NoDuplicates == Duplicates = 0

(* What the captain closed stays closed although a run that started before  *)
(* saves to the same settings file afterwards, and no saved id is lost: an  *)
(* id is only replaced for a Mission that was cancelled.                    *)
SettingsAreKept ==
  [][/\ closed.completed => closed'.completed
     /\ closed.dismissed => closed'.dismissed
     /\ \A i \in Items :
          settings'[i] # settings[i] /\ settings[i] # 0 =>
            i = "mission" /\ missions[settings[i]].state = "cancelled"]_stepVars
=============================================================================
