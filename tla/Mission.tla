------------------------------ MODULE Mission ------------------------------
(***************************************************************************)
(* MissionService (packages/core/src/mission.ts) used by several processes *)
(* at once: agents and humans on the CLI, and humans on a page of the app  *)
(* (packages/app/src/server/server.ts, act).                               *)
(*                                                                         *)
(* An operation reads the Mission's row and then, in another statement,    *)
(* its Attention Request; it decides on what it has read, and only then    *)
(* opens the transaction that records the change.  A page reads the same   *)
(* two statements, is looked at for a while, and sends the sequence it     *)
(* showed with the action.  The app reads and tests the Mission once more  *)
(* before it calls the service, which repeats every one of those tests.    *)
(***************************************************************************)
EXTENDS MissionStore

CONSTANT
  Viewers         (* the humans who act on pages of the app, and only there *)

ASSUME ViewersAreHuman == Viewers \subseteq Humans

VARIABLES
  calls,          (* the operation each actor has under way                 *)
  pages           (* the page each viewer has open                          *)

vars == << store, calls, pages >>

Phases == {"idle", "read", "apply"}
NoCall == [type |-> "none", wait |-> "none", decision |-> FALSE]
Idle == [at |-> "idle", call |-> NoCall, expected |-> 0,
         old |-> [state |-> "absent", wait |-> "none", sequence |-> 0],
         request |-> NoRequest]
NoPage == [complete |-> FALSE, old |-> Idle.old, request |-> 0]

(* What the row alone does not refuse.  An operation that is refused writes *)
(* nothing, so one the row already refuses is a stuttering step.            *)
Conceivable(call, actor, old) ==
  \E request \in [id : {1}, wait : WaitReasons, answered : BOOLEAN] \union {NoRequest} :
     Allowed(call, actor, old, request)

Init ==
  /\ StoreInit
  /\ calls = [a \in Actors |-> Idle]
  /\ pages = [h \in Viewers |-> NoPage]

Create(a) ==
  /\ InsertMission(a)
  /\ UNCHANGED << calls, pages >>

(* A page (missionDetail): the row first, the Attention Request after it.   *)
OpenPage(h) ==
  /\ calls[h].at = "idle" /\ row.state # "absent"
  /\ pages' = [pages EXCEPT ![h] = [NoPage EXCEPT !.old = row]]
  /\ UNCHANGED << store, calls >>

CompletePage(h) ==
  /\ calls[h].at = "idle"
  /\ pages[h].old.state # "absent" /\ ~ pages[h].complete
  /\ pages' = [pages EXCEPT ![h].complete = TRUE,
                            ![h].request = RequestOf(pages[h].old).id]
  /\ UNCHANGED << store, calls >>

(* Mutant of Begin: the sequence the page showed is not compared.           *)
BeginUnchecked(a, call, expected) ==
  /\ calls[a].at = "idle" /\ row.state # "absent"
  /\ Conceivable(call, a, row)
  /\ calls' = [calls EXCEPT ![a] =
                 [Idle EXCEPT !.at = "read", !.call = call, !.expected = expected, !.old = row]]
  /\ UNCHANGED << store, pages >>

(* transition begins: it reads the row and compares its sequence with the   *)
(* one the caller expects, if it names one (0 for none).                    *)
Begin(a, call, expected) ==
  /\ calls[a].at = "idle" /\ row.state # "absent"
  /\ expected \in {0, row.sequence}
  /\ Conceivable(call, a, row)
  /\ calls' = [calls EXCEPT ![a] =
                 [Idle EXCEPT !.at = "read", !.call = call, !.expected = expected, !.old = row]]
  /\ UNCHANGED << store, pages >>

(* The operations a page sends, with the sequence it showed.                *)
BeginFromPage(h, call) ==
  /\ pages[h].complete
  /\ call.type \in {"AttentionAnswered", "Resumed", "Paused", "Cancelled"}
  /\ Begin(h, call, pages[h].old.sequence)

(* It reads the Attention Request and plans the change, or refuses.         *)
Plan(a) ==
  LET c == calls[a]
      request == RequestOf(c.old)
  IN
  /\ c.at = "read"
  /\ calls' = [calls EXCEPT ![a] =
                 IF Allowed(c.call, a, c.old, request)
                 THEN [at |-> "apply", call |-> c.call, expected |-> c.expected,
                       old |-> c.old, request |-> request]
                 ELSE Idle]
  /\ UNCHANGED << store, pages >>

(* It records the change it planned.                                        *)
Record(a) ==
  /\ calls[a].at = "apply"
  /\ ApplyMissionChange(calls[a].call, a, calls[a].old, calls[a].request)
  /\ calls' = [calls EXCEPT ![a] = Idle]
  /\ UNCHANGED pages

(* StaleMissionError: the Mission has moved on; nothing is written.         *)
Stale(a) ==
  /\ calls[a].at = "apply"
  /\ row.sequence # calls[a].old.sequence
  /\ calls' = [calls EXCEPT ![a] = Idle]
  /\ UNCHANGED << store, pages >>

Next ==
  \/ \E a \in Actors :
       \/ Create(a)
       \/ a \notin Viewers /\ \E call \in Calls : Begin(a, call, 0)
       \/ Plan(a)
       \/ Record(a)
       \/ Stale(a)
  \/ \E h \in Viewers :
       \/ OpenPage(h)
       \/ CompletePage(h)
       \/ \E call \in Calls : BeginFromPage(h, call)

Spec == Init /\ [][Next]_vars
-----------------------------------------------------------------------------
(* Properties.                                                             *)

Rows == [state : States \union {"absent"}, wait : Waits, sequence : Nat]
SeenRequests == [id : Nat, wait : Waits, answered : BOOLEAN]

(* Every table and every local variable holds values of its type.           *)
TypeOK ==
  /\ row \in Rows
  /\ events \in Seq([type : EventTypes \union {"Created"}, prev : States \union {"absent"},
                     new : States, wait : Waits, actor : Actors])
  /\ requests \in Seq([event : Nat, wait : WaitReasons \ {"provider_limit"},
                       by : Actors \union {"nobody"}])
  /\ outcome \in Outcomes \union {"none"}
  /\ calls \in [Actors -> [at : Phases, call : Calls \union {NoCall}, expected : Nat,
                           old : Rows, request : SeenRequests]]
  /\ pages \in [Viewers -> [complete : BOOLEAN, old : Rows, request : Nat]]

(* Attention Requests and events agree: a request per wait for a human, and *)
(* an answer in the request exactly when the log has one for its wait, by   *)
(* the same human, and only one.                                            *)
AnswersAreLogged ==
  \A q \in 1 .. Len(requests) :
    LET asked == requests[q].event
        answers == {j \in asked + 1 .. Len(events) :
                      /\ events[j].type = "AttentionAnswered"
                      /\ \A k \in asked + 1 .. j : events[k].type # "Waiting"}
    IN
    /\ events[asked].type = "Waiting" /\ events[asked].wait = requests[q].wait
    /\ \A j, k \in answers : j = k
    /\ {requests[q].by} \ {"nobody"} = {events[j].actor : j \in answers}

(* The events tell the whole story of the row: as many as its sequence, an  *)
(* unbroken chain of permitted transitions that ends in its state, and a    *)
(* wait reason exactly while it is waiting; its Attention Requests agree.   *)
LogExplainsRow ==
  /\ TypeOK /\ AnswersAreLogged
  /\ Len(events) = row.sequence
  /\ \A i \in 2 .. Len(events) :
       /\ events[i].prev = events[i - 1].new
       /\ events[i].prev = events[i].new \/ << events[i].prev, events[i].new >> \in Transitions
  /\ events # << >> => /\ events[Len(events)].new = row.state
                       /\ events[Len(events)].wait = row.wait
  /\ row.state = "waiting" <=> row.wait # "none"

(* The human who answered the wait that event i ends, if it is answered.    *)
AnsweredBefore(i) ==
  \E j \in 1 .. i - 1 :
    /\ events[j].type = "AttentionAnswered"
    /\ \A k \in j + 1 .. i - 1 : events[k].type # "Waiting"

(* Only a human answers, pauses, cancels and resumes from a pause, and a    *)
(* Mission that waits for a human is not resumed before a human has         *)
(* answered that very wait, whatever an agent had read before               *)
(* (docs/adr/ADR-005; MISSION-API.md, Operations).                          *)
HumansDecide ==
  \A i \in 1 .. Len(events) :
    LET e == events[i] IN
    /\ e.type \in {"AttentionAnswered", "Paused", "Cancelled"} => e.actor \in Humans
    /\ e.type = "Resumed" /\ e.prev = "paused" => e.actor \in Humans
    /\ e.type = "Resumed" /\ e.prev = "waiting" =>
         events[i - 1].wait = "provider_limit" \/ AnsweredBefore(i)

(* A finished Mission stays finished: no later event, and its Outcome, of   *)
(* the kind its last event says, is never replaced.                         *)
FinishedForGood ==
  [][/\ row.state \in Terminal => UNCHANGED store
     /\ outcome' # outcome =>
          /\ outcome = "none"
          /\ events'[Len(events')].type = outcome']_vars

(* docs/implementation/MILESTONE-12.md, "Atomic stale check": an answer     *)
(* given on a page reaches the very request that page showed, or nothing.   *)
AnswerReachesShownRequest ==
  [][\A q \in 1 .. Len(requests) :
       requests'[q] # requests[q] =>
         \E h \in Humans :
           /\ requests[q].by = "nobody" /\ requests'[q].by = h
           /\ calls[h].expected # 0 => h \in Viewers /\ pages[h].request = q]_vars

(* Every interleaving of the callers' reads, decisions and transactions is  *)
(* one in which each operation happens in one step.                         *)
Atomic == INSTANCE MissionAtomic

ImplementsAtomicMission == Atomic!AtomicSpec
=============================================================================
