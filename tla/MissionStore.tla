---------------------------- MODULE MissionStore ----------------------------
(***************************************************************************)
(* One Mission in the store: its row, its append-only events, its          *)
(* Attention Requests and its Outcome (packages/core/src/mission.ts,       *)
(* packages/sqlite/src/mission.ts), with the rules that decide which       *)
(* operation is possible and the transaction that records it.              *)
(*                                                                         *)
(* Texts, evidence, references and timestamps are abstracted away, and so  *)
(* are the details of a provider limit.  A Mission's predecessor must be   *)
(* in a terminal state when it is named; FinishedForGood (module Mission)  *)
(* says that it stays in it.                                               *)
(***************************************************************************)
EXTENDS Naturals, Sequences

CONSTANTS
  Humans,         (* actors whose id does not start with "agent:"           *)
  Agents,         (* actors whose id does                                   *)
  WaitReasons,    (* the Wait Reasons in use                                *)
  MaxSequence     (* bound on the events of the Mission                     *)

ASSUME MissionConstants ==
  /\ Humans \intersect Agents = {} /\ "nobody" \notin Humans \union Agents
  /\ WaitReasons \subseteq {"provider_limit", "needs_input", "needs_approval",
                            "needs_permission", "needs_manual_action"}
  /\ MaxSequence \in Nat

VARIABLES
  row,            (* missions: state, wait reason, sequence                 *)
  events,         (* mission_events; an event's sequence is its position    *)
  requests,       (* mission_attention_requests; an id is a position        *)
  outcome         (* mission_outcomes: the kind, "none" without a row       *)

store == << row, events, requests, outcome >>

Actors == Humans \union Agents
States == {"queued", "running", "waiting", "paused", "completed", "failed", "cancelled"}
Terminal == {"completed", "failed", "cancelled"}
Outcomes == {"Completed", "Failed"}
Waits == WaitReasons \union {"none"}
EventTypes == {"Started", "ActivityReported", "Waiting", "AttentionAnswered", "Resumed",
               "Paused", "Cancelled", "Completed", "Failed"}

(* MISSION_TRANSITIONS.                                                     *)
Transitions ==
  ({"queued"} \X {"running", "cancelled"})
    \union ({"running"} \X {"waiting", "paused", "completed", "failed", "cancelled"})
    \union ({"waiting"} \X {"running", "paused", "failed", "cancelled"})
    \union ({"paused"} \X {"running", "cancelled"})

(* An operation a caller may ask for: the event it appends, and the         *)
(* arguments that decide whether it is possible.                            *)
Calls ==
  [type : {"Waiting"}, wait : WaitReasons, decision : {FALSE}]
    \union [type : {"AttentionAnswered"}, wait : {"none"}, decision : BOOLEAN]
    \union [type : EventTypes \ {"Waiting", "AttentionAnswered"},
            wait : {"none"}, decision : {FALSE}]

(* The state each operation leads to.                                       *)
Target(type) ==
  IF type \in {"Started", "ActivityReported", "Resumed"} THEN "running"
  ELSE IF type \in {"Waiting", "AttentionAnswered"} THEN "waiting"
  ELSE IF type = "Paused" THEN "paused"
  ELSE IF type = "Cancelled" THEN "cancelled"
  ELSE IF type = "Completed" THEN "completed" ELSE "failed"

(* The Attention Request of the Waiting event that started the current      *)
(* wait; a wait for a provider limit has none.                              *)
NoRequest == [id |-> 0, wait |-> "none", answered |-> FALSE]

LastWaiting(i) ==
  /\ events[i].type = "Waiting"
  /\ \A j \in i + 1 .. Len(events) : events[j].type # "Waiting"

CurrentRequests ==
  {[id |-> q, wait |-> requests[q].wait, answered |-> requests[q].by # "nobody"] :
     q \in {p \in 1 .. Len(requests) : LastWaiting(requests[p].event)}}

CurrentRequest ==
  IF CurrentRequests = {} THEN NoRequest ELSE CHOOSE q \in CurrentRequests : TRUE

(* What getMission returns of the request, given the row it has read.       *)
RequestOf(old) == IF old.state = "waiting" THEN CurrentRequest ELSE NoRequest

-----------------------------------------------------------------------------
(* The plan of each operation: what it demands of the Mission it has read.  *)
Allowed(call, actor, old, request) ==
  /\ Target(call.type) = old.state \/ << old.state, Target(call.type) >> \in Transitions
  /\ call.type = "Started" => old.state = "queued"
  /\ call.type \in {"ActivityReported", "Waiting", "Completed"} => old.state = "running"
  /\ call.type \in {"AttentionAnswered", "Paused", "Cancelled"} => actor \in Humans
  /\ call.type = "AttentionAnswered" =>
       /\ old.state = "waiting" /\ request # NoRequest
       /\ ~ request.answered
       /\ call.decision <=> request.wait = "needs_approval"
  /\ call.type = "Resumed" =>
       \/ old.state = "paused" /\ actor \in Humans
       \/ old.state = "waiting" /\ (old.wait = "provider_limit" \/ request.answered)
  /\ call.type \in {"Paused", "Failed"} => old.state \in {"running", "waiting"}
  /\ call.type = "Cancelled" => old.state \notin Terminal

(* The wait reason of the new row: named, kept or cleared.                  *)
NewWait(call, old) ==
  IF call.type = "Waiting" THEN call.wait
  ELSE IF call.type \in {"Started", "ActivityReported", "AttentionAnswered"} THEN old.wait
  ELSE "none"

(* A wait for a human asks; an answer is written into what was asked.       *)
NewRequests(call, actor, old, request) ==
  IF call.type = "Waiting" /\ call.wait # "provider_limit"
  THEN Append(requests, [event |-> old.sequence + 1, wait |-> call.wait, by |-> "nobody"])
  ELSE IF call.type = "AttentionAnswered"
       THEN [requests EXCEPT ![request.id].by = actor]
       ELSE requests

(* Mutant of ApplyMissionChange: a change planned from an older Mission is  *)
(* applied on top of the newer one.                                         *)
ApplyAnyway(call, actor, old, request) ==
  /\ row.sequence < MaxSequence
  /\ row' = [state |-> Target(call.type), wait |-> NewWait(call, old),
             sequence |-> row.sequence + 1]
  /\ events' = Append(events, [type |-> call.type, prev |-> old.state,
                               new |-> Target(call.type), wait |-> NewWait(call, old),
                               actor |-> actor])
  /\ requests' = NewRequests(call, actor, old, request)
  /\ outcome' = IF call.type \in Outcomes THEN call.type ELSE outcome

(* applyMissionChange: one transaction, given the Mission the plan was made *)
(* from.  The row is updated only at the sequence that was read; one event  *)
(* follows, and the request, the answer or the Outcome of the operation.    *)
ApplyMissionChange(call, actor, old, request) ==
  /\ row.sequence = old.sequence
  /\ call.type = "AttentionAnswered" => requests[request.id].by = "nobody"
  /\ call.type \in Outcomes => outcome = "none"
  /\ row.sequence < MaxSequence
  /\ row' = [state |-> Target(call.type), wait |-> NewWait(call, old),
             sequence |-> row.sequence + 1]
  /\ events' = Append(events, [type |-> call.type, prev |-> old.state,
                               new |-> Target(call.type), wait |-> NewWait(call, old),
                               actor |-> actor])
  /\ requests' = NewRequests(call, actor, old, request)
  /\ outcome' = IF call.type \in Outcomes THEN call.type ELSE outcome

(* createMission of the store.                                              *)
InsertMission(actor) ==
  /\ row.state = "absent"
  /\ row' = [state |-> "queued", wait |-> "none", sequence |-> 1]
  /\ events' = << [type |-> "Created", prev |-> "absent", new |-> "queued",
                   wait |-> "none", actor |-> actor] >>
  /\ UNCHANGED << requests, outcome >>

StoreInit ==
  /\ row = [state |-> "absent", wait |-> "none", sequence |-> 0]
  /\ events = << >>
  /\ requests = << >>
  /\ outcome = "none"
=============================================================================
