---------------------------- MODULE XoraRuntime ----------------------------
(***************************************************************************)
(* Xora's model runtime (packages/app/src/server/runtime.ts): the app      *)
(* starts llama-server as a child process, or attaches to one, polls its   *)
(* /health until it is ready, and falls back to script mode.               *)
(*                                                                         *)
(* start() is one asynchronous function: between its awaits (the free      *)
(* port, the answer of /health, the pause before the next poll) the event  *)
(* loop runs the child's exit handler and the failures of chat answers.    *)
(* The result of a start is kept in the settings file and decides what     *)
(* the next session does.                                                  *)
(*                                                                         *)
(* Clock readings are abstracted to the number of polls: the limit may     *)
(* have passed after any poll, and has passed after MaxPolls.              *)
(***************************************************************************)
EXTENDS Naturals

CONSTANTS
  MaxPolls,       (* polls after which the time limit has passed            *)
  MaxSessions     (* bound on the launches of the app                       *)

ASSUME RuntimeConstants == MaxPolls \in Nat /\ MaxSessions \in Nat

VARIABLES
  up,             (* whether the app runs                                   *)
  mode,           (* how the session reaches a runtime                      *)
  lastStart,      (* xora.lastStart.result in the settings file             *)
  state,          (* XoraStatus.state                                       *)
  reason,         (* XoraStatus.reason, the reason for script mode          *)
  child,          (* whether the session holds a child process              *)
  runtime,        (* the process this session started                       *)
  taken,          (* another program listens on the port of the runtime     *)
  at,             (* where start() waits                                    *)
  polls,          (* the polls so far                                       *)
  noticed,        (* this session's exit handler has run, not after stop()  *)
  sessions        (* launches so far, to bound them                         *)

session == << up, mode, sessions >>
status == << state, reason >>
process == << child, runtime, taken >>
vars == << session, lastStart, status, process, at, polls, noticed >>

(* A session is attached by the settings file or by the flag --xora-url.    *)
Modes == {"none", "managed", "attached", "flag"}
States == {"off", "starting", "ready", "scriptMode"}
Results == {"none", "ready", "timeout", "exited", "lowMemory"}
Reasons == {"none", "notConfigured", "lowMemory", "timeout", "exited",
            "failedBefore", "missingFile", "notLocal", "declined"}
Places == {"start", "port", "ask", "up", "down", "pause", "done", "threw"}

Set(s, r) == state' = s /\ reason' = r
ScriptMode(r) == Set("scriptMode", r)

(* record(): not for a session with --xora-url, and not into a settings     *)
(* file that cannot be read any more, which stays as it is.                 *)
Record(result) == lastStart' \in {lastStart, IF mode = "flag" THEN lastStart ELSE result}

-----------------------------------------------------------------------------
Init ==
  /\ up = FALSE /\ mode = "none" /\ sessions = 0
  /\ lastStart = "none"
  /\ state = "off" /\ reason = "none"
  /\ child = FALSE /\ runtime = "none" /\ taken = FALSE
  /\ at = "start" /\ polls = 0 /\ noticed = FALSE

Launch ==
  /\ ~ up /\ sessions < MaxSessions
  /\ up' = TRUE /\ sessions' = sessions + 1
  /\ mode' \in Modes
  /\ Set("off", "none")
  /\ child' = FALSE /\ runtime' = "none" /\ taken' = FALSE
  /\ at' = "start" /\ polls' = 0 /\ noticed' = FALSE
  /\ UNCHANGED lastStart

(* The person edits the settings file and drops the last result.            *)
EditSettings ==
  /\ ~ up
  /\ lastStart' = "none"
  /\ UNCHANGED << session, status, process, at, polls, noticed >>

-----------------------------------------------------------------------------
(* start(), up to its first await.                                          *)

(* Mutant of FailedBefore: a runtime that exited is not seen as a failure.  *)
TimedOutBefore == mode # "flag" /\ lastStart = "timeout"

FailedBefore == mode # "flag" /\ lastStart \notin {"none", "ready"}

Finish(r) == ScriptMode(r) /\ at' = "done"

Start ==
  /\ up /\ at = "start"
  /\ \/ mode = "none" /\ Finish("notConfigured") /\ UNCHANGED lastStart
     \/ mode = "none" /\ Finish("declined") /\ UNCHANGED lastStart
     \/ mode # "none" /\ FailedBefore /\ Finish("failedBefore") /\ UNCHANGED lastStart
     \/ /\ mode \in {"attached", "flag"} /\ ~ FailedBefore
        /\ \/ Finish("notLocal")
           \/ Set("starting", "none") /\ at' = "ask"
        /\ UNCHANGED lastStart
     \/ /\ mode = "managed" /\ ~ FailedBefore
        /\ \/ Finish("missingFile") /\ UNCHANGED lastStart
           \/ Finish("lowMemory") /\ Record("lowMemory")
           \/ at' = "threw" /\ UNCHANGED << status, lastStart >>  (* record() threw *)
           \/ at' = "port" /\ UNCHANGED << status, lastStart >>
  /\ UNCHANGED << session, process, polls, noticed >>

(* The probe's port is free: the child is spawned on it.  Another program   *)
(* may take the port between the probe's close and the child's bind.  A     *)
(* child that cannot run reports it through the same handler as its exit.   *)
Spawn ==
  /\ up /\ at = "port"
  /\ Set("starting", "none")
  /\ child' = TRUE /\ runtime' \in {"running", "dead"} /\ taken' \in BOOLEAN
  /\ at' = "ask"
  /\ UNCHANGED << session, lastStart, polls, noticed >>

(* No port can be had: the promise of start() is rejected while the status  *)
(* is still off, and main.ts prints a line.                                 *)
PortFails ==
  /\ up /\ at = "port"
  /\ at' = "threw"
  /\ UNCHANGED << session, lastStart, status, process, polls, noticed >>

(* Opening the log file or spawning throws, after the status was set.       *)
SpawnThrows ==
  /\ up /\ at = "port"
  /\ Set("starting", "none")
  /\ at' = "threw"
  /\ UNCHANGED << session, lastStart, process, polls, noticed >>

-----------------------------------------------------------------------------
(* waitReady().  healthy() asks whoever listens on the address; its answer  *)
(* is under way while the loop runs other handlers.                         *)
Ask ==
  /\ up /\ at = "ask"
  /\ \/ at' = "down"
     \/ at' = "up" /\ (mode = "managed" => runtime = "running" \/ taken)
  /\ UNCHANGED << session, lastStart, status, process, polls, noticed >>

Ready ==
  /\ up /\ at = "up"
  /\ Record("ready")
  /\ Set("ready", "none")
  /\ at' = "done"
  /\ UNCHANGED << session, process, polls, noticed >>

(* record() throws, as its write fails: start() is rejected before it has   *)
(* set the status, or has stopped a runtime that is late.                   *)
RecordThrows ==
  /\ up /\ at \in {"up", "down"} /\ mode # "flag"
  /\ at' = "threw"
  /\ UNCHANGED << session, lastStart, status, process, polls, noticed >>

(* stop(), of a managed runtime.                                            *)
StopChild ==
  /\ child' = FALSE
  /\ runtime' = IF child /\ runtime = "running" THEN "killed" ELSE runtime
  /\ UNCHANGED taken

(* Mutant of TimedOut: the late runtime is forgotten without stop().        *)
TimedOutWithoutStop ==
  /\ up /\ at = "down"
  /\ Record("timeout")
  /\ child' = FALSE /\ UNCHANGED << runtime, taken >>
  /\ Finish("timeout")
  /\ UNCHANGED << session, polls, noticed >>

TimedOut ==
  /\ up /\ at = "down"
  /\ Record("timeout")
  /\ StopChild
  /\ Finish("timeout")
  /\ UNCHANGED << session, polls, noticed >>

(* Mutant of NotYet: the time that has passed is not counted.               *)
NotYetUncounted ==
  /\ up /\ at = "down"
  /\ at' = "pause"
  /\ UNCHANGED << session, lastStart, status, process, polls, noticed >>

NotYet ==
  /\ up /\ at = "down"
  /\ polls < MaxPolls
  /\ polls' = polls + 1
  /\ at' = "pause"
  /\ UNCHANGED << session, lastStart, status, process, noticed >>

(* The pause is over; the loop ends unless Xora is still starting.          *)
Wake ==
  /\ up /\ at = "pause"
  /\ at' = IF state = "starting" THEN "ask" ELSE "done"
  /\ UNCHANGED << session, lastStart, status, process, polls, noticed >>

-----------------------------------------------------------------------------
(* Meanwhile.                                                               *)

RuntimeDies ==
  /\ runtime \in {"running", "killed"}
  /\ runtime' = "dead"
  /\ UNCHANGED << session, lastStart, status, child, taken, at, polls, noticed >>

(* exited(): the handler of the child's "exit" and "error" events.          *)
Exited ==
  /\ up /\ runtime = "dead"
  /\ runtime' = "none" /\ child' = FALSE
  /\ IF state = "starting" THEN Record("exited") ELSE UNCHANGED lastStart
  /\ IF state \in {"starting", "ready"} THEN ScriptMode("exited") ELSE UNCHANGED status
  /\ noticed' = TRUE
  /\ UNCHANGED << session, taken, at, polls >>

(* record() throws in the handler, where nothing catches it: the app ends.  *)
ExitedThrows ==
  /\ up /\ runtime = "dead" /\ state = "starting"
  /\ up' = FALSE /\ runtime' = "none" /\ child' = FALSE
  /\ UNCHANGED << mode, sessions, lastStart, status, taken, at, polls, noticed >>

(* fail(): a chat answer did not come.                                      *)
AnswerFails ==
  /\ up /\ state = "ready"
  /\ \E r \in {"timeout", "exited"} : ScriptMode(r)
  /\ UNCHANGED << session, lastStart, process, at, polls, noticed >>

(* A signal: main.ts stops the runtime and exits at once.                   *)
Quit ==
  /\ up
  /\ up' = FALSE
  /\ StopChild
  /\ UNCHANGED << mode, sessions, lastStart, status, at, polls, noticed >>

-----------------------------------------------------------------------------
Starting ==
  \/ Start \/ Spawn \/ PortFails \/ SpawnThrows
  \/ Ask \/ Ready \/ RecordThrows \/ TimedOut \/ NotYet \/ Wake

Next ==
  \/ Launch
  \/ EditSettings
  \/ Starting
  \/ RuntimeDies
  \/ Exited
  \/ ExitedThrows
  \/ AnswerFails
  \/ Quit

(* The event loop: an await that can continue does, and so does a handler.  *)
Spec == Init /\ [][Next]_vars /\ WF_vars(Starting) /\ WF_vars(Exited)
-----------------------------------------------------------------------------
(* Properties.                                                             *)

(* Every variable has its type, and script mode has a reason.               *)
TypeOK ==
  /\ up \in BOOLEAN /\ mode \in Modes /\ lastStart \in Results
  /\ state \in States /\ reason \in Reasons
  /\ child \in BOOLEAN /\ runtime \in {"none", "running", "killed", "dead"}
  /\ at \in Places /\ polls \in 0 .. MaxPolls
  /\ (reason = "none") <=> (state # "scriptMode")

(* Loxora stops the runtime it started: as long as it runs the session      *)
(* holds its handle, and no runtime runs on (unless it was told to end)     *)
(* after the app has quit or start() has recorded that it gave up.  (When   *)
(* that record cannot be written, the runtime runs on until the app quits.) *)
NoRuntimeIsLost ==
  /\ TypeOK
  /\ runtime = "running" =>
       /\ up /\ child
       /\ ~ (at = "done" /\ lastStart = "timeout")

(* RFC-011, section 2: no automatic retry after a failed start.  A session  *)
(* that begins after a failure on record never starts or asks for a runtime.*)
NoRetryAfterFailure ==
  [][(up /\ mode \in {"managed", "attached"} /\ lastStart \notin {"none", "ready"})
       => (state' = "starting" => state = "starting")]_vars

(* The wait for the runtime ends, although neither an answer nor an exit     *)
(* may ever come: every start of a session that goes on comes to ready, to  *)
(* script mode, or to a rejected promise (there was no port, the log file   *)
(* could not be opened, spawn threw, or the result could not be written).   *)
(* runtime.ts:102 promises the first two only: after the third the status   *)
(* is off, or starting, until the child exits or the session ends.          *)
StartEnds ==
  (up /\ at = "start") ~> (state \in {"ready", "scriptMode"} \/ at = "threw" \/ ~ up)

(* ADR-008: "if the process exits, Xora stays in script mode for this       *)
(* session".  After the exit handler has run Xora is never ready.           *)
ExitedMeansScriptMode == noticed => state # "ready"
=============================================================================
