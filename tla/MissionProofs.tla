---------------------------- MODULE MissionProofs ----------------------------
(***************************************************************************)
(* The optimistic concurrency of MissionService is enough: for any number  *)
(* of humans and agents and a Mission of any length, operations that read, *)
(* decide and record in separate steps are indivisible to an observer of   *)
(* the store.                                                              *)
(***************************************************************************)
EXTENDS Mission, SequenceTheorems, TLAPS

-----------------------------------------------------------------------------
(* The instance of MissionAtomic has the rules of MissionStore under names  *)
(* of its own; they are the same.                                           *)
LEMMA SameActors == Atomic!Actors = Actors
  BY DEF Atomic!Actors, Actors

LEMMA SameCalls == Atomic!Calls = Calls
  BY DEF Atomic!Calls, Calls, Atomic!EventTypes, EventTypes

LEMMA SameRequest == \A old : Atomic!RequestOf(old) = RequestOf(old)
<1>1. Atomic!CurrentRequests = CurrentRequests
  BY DEF Atomic!CurrentRequests, CurrentRequests, Atomic!LastWaiting, LastWaiting
<1> QED BY <1>1 DEF Atomic!RequestOf, RequestOf, Atomic!CurrentRequest, CurrentRequest,
                    Atomic!NoRequest, NoRequest

LEMMA SameRules ==
  \A call, actor, old, request :
    Atomic!Allowed(call, actor, old, request) <=> Allowed(call, actor, old, request)
  BY DEF Atomic!Allowed, Allowed, Atomic!Target, Target, Atomic!Transitions, Transitions,
         Atomic!NoRequest, NoRequest, Atomic!Terminal, Terminal

LEMMA SameChange ==
  ASSUME NEW call, NEW actor, NEW old, NEW request,
         ApplyMissionChange(call, actor, old, request)
  PROVE  Atomic!ApplyMissionChange(call, actor, old, request)
  BY DEF Atomic!ApplyMissionChange, ApplyMissionChange, Atomic!Target, Target,
         Atomic!NewWait, NewWait, Atomic!NewRequests, NewRequests, Atomic!Outcomes, Outcomes

LEMMA SameInsert ==
  ASSUME NEW actor, InsertMission(actor)
  PROVE  Atomic!InsertMission(actor)
  BY DEF Atomic!InsertMission, InsertMission

-----------------------------------------------------------------------------
(* The inductive invariant.  What a call has read may be old, but if its    *)
(* sequence is still the Mission's, then so is everything else it has read  *)
(* and decided: whatever changes the Mission advances the sequence.         *)
Known(c, a) ==
  /\ c.at \in Phases
  /\ c.at # "idle" =>
       /\ row.state # "absent" /\ c.call \in Calls
       /\ c.old.sequence \in Nat /\ c.old.sequence <= row.sequence
       /\ c.old.sequence = row.sequence => c.old = row
  /\ c.at = "apply" /\ c.old.sequence = row.sequence =>
       /\ c.request = RequestOf(row)
       /\ Allowed(c.call, a, row, c.request)

UpToDate ==
  /\ row.sequence \in Nat
  /\ calls = [a \in Actors |-> calls[a]]
  /\ \A a \in Actors : Known(calls[a], a)

(* The two ways the store changes: a Mission appears, before any call has   *)
(* begun, or its sequence advances.                                         *)
LEMMA ChangeAdvances ==
  ASSUME NEW call, NEW actor, NEW old, NEW request, row.sequence \in Nat,
         ApplyMissionChange(call, actor, old, request)
  PROVE  row'.sequence = row.sequence + 1 /\ row'.state # "absent"
  BY DEF ApplyMissionChange, Target

LEMMA KnownWhileUnchanged ==
  ASSUME NEW a \in Actors, Known(calls[a], a), UNCHANGED store, calls'[a] = calls[a]
  PROVE  Known(calls[a], a)'
<1>1. RequestOf(row)' = RequestOf(row)
  BY DEF store, RequestOf, CurrentRequest, CurrentRequests, LastWaiting
<1> QED BY <1>1 DEF Known, store, Allowed, Target

LEMMA UpToDateInductive == UpToDate /\ [Next]_vars => UpToDate'
<1> SUFFICES ASSUME UpToDate, [Next]_vars PROVE UpToDate'
  OBVIOUS
<1> USE DEF UpToDate
<1>1. ASSUME UNCHANGED store,
             NEW a \in Actors, NEW c,
             calls' = [calls EXCEPT ![a] = c], Known(c, a)'
      PROVE  UpToDate'
  <2>1. \A b \in Actors \ {a} : calls'[b] = calls[b] /\ Known(calls[b], b)'
    BY <1>1, KnownWhileUnchanged
  <2>2. calls'[a] = c /\ calls' = [b \in Actors |-> calls'[b]]
    BY <1>1
  <2> QED BY <1>1, <2>1, <2>2 DEF store
<1>2. ASSUME UNCHANGED store, UNCHANGED calls
      PROVE  UpToDate'
  BY <1>2, KnownWhileUnchanged DEF store
<1>4. \A a \in Actors : Known(Idle, a)'
  BY DEF Known, Idle, Phases
<1>5. CASE \E a \in Actors : Create(a)
  <2> PICK a \in Actors : Create(a)
    BY <1>5
  <2>1. \A b \in Actors : calls'[b] = calls[b] /\ calls[b].at = "idle"
    BY DEF Create, InsertMission, Known, Phases
  <2>2. \A b \in Actors : Known(calls[b], b)'
    BY <2>1 DEF Known, Phases
  <2> QED BY <2>1, <2>2 DEF Create, InsertMission
<1>6. ASSUME NEW a \in Actors, NEW call \in Calls, NEW expected, Begin(a, call, expected)
      PROVE  UpToDate'
  <2> PICK c :
        c = [Idle EXCEPT !.at = "read", !.call = call, !.expected = expected, !.old = row]
    OBVIOUS
  <2>1. c.at = "read" /\ c.call = call /\ c.old = row
    BY DEF Idle
  <2>2. calls' = [calls EXCEPT ![a] = c] /\ UNCHANGED store /\ row.state # "absent"
    BY <1>6 DEF Begin
  <2>3. Known(c, a)'
    BY <2>1, <2>2 DEF Known, Phases, store
  <2> QED BY <1>1, <2>2, <2>3
<1>7. CASE \E a \in Actors : Plan(a)
  <2> PICK a \in Actors : Plan(a)
    BY <1>7
  <2> PICK c, request : c = calls[a] /\ request = RequestOf(c.old)
    OBVIOUS
  <2> DEFINE planned == [at |-> "apply", call |-> c.call, expected |-> c.expected,
                         old |-> c.old, request |-> request]
  <2>1. UNCHANGED store /\ c.at = "read"
    BY DEF Plan
  <2>2. CASE Allowed(c.call, a, c.old, request)
    <3>1. calls' = [calls EXCEPT ![a] = planned]
      BY <2>2 DEF Plan
    <3>2. /\ c.call \in Calls /\ c.old.sequence \in Nat /\ c.old.sequence <= row.sequence
          /\ row.state # "absent"
          /\ c.old.sequence = row.sequence => c.old = row
      BY <2>1 DEF Known
    <3>3. RequestOf(row)' = RequestOf(row)
      BY <2>1 DEF store, RequestOf, CurrentRequest, CurrentRequests, LastWaiting
    <3>4. Known(planned, a)'
      <4>1. c.old.sequence = row.sequence => request = RequestOf(row)' /\ row' = c.old
        BY <2>1, <3>2, <3>3 DEF store
      <4> QED BY <2>1, <2>2, <3>2, <4>1 DEF Known, Phases, store
    <3> QED BY <1>1, <2>1, <3>1, <3>4
  <2>3. CASE ~ Allowed(c.call, a, c.old, request)
    <3>1. calls' = [calls EXCEPT ![a] = Idle]
      BY <2>3 DEF Plan
    <3> QED BY <1>1, <1>4, <2>1, <3>1
  <2> QED BY <2>2, <2>3
<1>8. CASE \E a \in Actors : Record(a)
  <2> PICK a \in Actors : Record(a)
    BY <1>8
  <2>1. row'.sequence = row.sequence + 1 /\ row'.state # "absent"
    BY ChangeAdvances DEF Record
  <2>2. calls' = [calls EXCEPT ![a] = Idle]
    BY DEF Record
  <2>3. \A b \in Actors \ {a} : calls'[b] = calls[b] /\ Known(calls[b], b)'
    BY <2>1, <2>2 DEF Known
  <2>4. calls'[a] = Idle /\ calls' = [b \in Actors |-> calls'[b]]
    BY <2>2
  <2> QED BY <1>4, <2>1, <2>3, <2>4
<1>9. CASE \E a \in Actors : Stale(a)
  BY <1>1, <1>4, <1>9 DEF Stale
<1>10. CASE \E h \in Viewers : OpenPage(h) \/ CompletePage(h)
  BY <1>2, <1>10 DEF OpenPage, CompletePage
<1>11. CASE \E h \in Viewers, call \in Calls : BeginFromPage(h, call)
  BY <1>6, <1>11, ViewersAreHuman DEF BeginFromPage, Actors
<1>12. CASE UNCHANGED vars
  BY <1>2, <1>12 DEF vars
<1> QED BY <1>5, <1>6, <1>7, <1>8, <1>9, <1>10, <1>11, <1>12 DEF Next

LEMMA AlwaysUpToDate == Spec => []UpToDate
<1>1. Init => UpToDate
  <2> SUFFICES ASSUME Init PROVE UpToDate
    OBVIOUS
  <2>1. \A a \in Actors : Known(Idle, a)
    BY DEF Known, Idle, Phases
  <2> QED BY <2>1 DEF Init, StoreInit, UpToDate
<1> QED BY <1>1, UpToDateInductive, PTL DEF Spec

-----------------------------------------------------------------------------
(* The detailed Mission implements the atomic one: a call takes effect when *)
(* it records its change, as if it had read and decided at that moment; a   *)
(* call that is refused or goes stale never happened.                       *)
THEOREM OperationsAreAtomic == Spec => ImplementsAtomicMission
<1>1. Init => Atomic!StoreInit
  BY DEF Init, StoreInit, Atomic!StoreInit
<1>2. UpToDate /\ [Next]_vars => [Atomic!AtomicNext]_(Atomic!store)
  <2> SUFFICES ASSUME UpToDate, [Next]_vars PROVE [Atomic!AtomicNext]_(Atomic!store)
    OBVIOUS
  <2>1. CASE \E a \in Actors : Create(a)
    BY <2>1, SameInsert, SameActors DEF Create, Atomic!AtomicNext
  <2>2. CASE \E a \in Actors : Record(a)
    <3> PICK a \in Actors : Record(a)
      BY <2>2
    <3> DEFINE c == calls[a]
    <3>1. c.at = "apply" /\ ApplyMissionChange(c.call, a, c.old, c.request)
      BY DEF Record
    <3>2. c.old.sequence = row.sequence
      BY <3>1 DEF ApplyMissionChange
    <3>3. /\ c.call \in Calls /\ c.old = row /\ c.request = RequestOf(row)
          /\ row.state # "absent" /\ Allowed(c.call, a, row, RequestOf(row))
      BY <3>1, <3>2 DEF UpToDate, Known
    <3>4. Atomic!ApplyMissionChange(c.call, a, row, RequestOf(row))
      BY <3>1, <3>3, SameChange
    <3>5. Atomic!Operate(a, c.call)
      BY <3>3, <3>4, SameRequest, SameRules DEF Atomic!Operate
    <3> QED BY <3>3, <3>5, SameActors, SameCalls DEF Atomic!AtomicNext
  <2>3. ASSUME UNCHANGED store PROVE UNCHANGED Atomic!store
    BY <2>3 DEF store, Atomic!store
  <2>4. CASE \E a \in Actors :
               \/ \E call \in Calls : Begin(a, call, 0)
               \/ Plan(a) \/ Stale(a)
    BY <2>3, <2>4 DEF Begin, Plan, Stale
  <2>5. CASE \E h \in Viewers :
               \/ OpenPage(h) \/ CompletePage(h)
               \/ \E call \in Calls : BeginFromPage(h, call)
    BY <2>3, <2>5 DEF OpenPage, CompletePage, BeginFromPage, Begin
  <2>6. CASE UNCHANGED vars
    BY <2>3, <2>6 DEF vars
  <2> QED BY <2>1, <2>2, <2>4, <2>5, <2>6 DEF Next
<1> QED BY <1>1, <1>2, AlwaysUpToDate, PTL DEF Spec, ImplementsAtomicMission, Atomic!AtomicSpec

-----------------------------------------------------------------------------
(* The log.  What a change is planned from is what it is applied to, so its *)
(* event says what the row was, and the request it looked at is the one of  *)
(* the current wait.                                                        *)
Event == [type : EventTypes \union {"Created"}, prev : States \union {"absent"},
          new : States, wait : Waits, actor : Actors]
Request == [event : Nat, wait : WaitReasons, by : Actors \union {"nobody"}]

(* An answer is kept in a request only after the log has it.                *)
AnswerIsLogged(q) ==
  /\ requests[q].event \in 1 .. Len(events)
  /\ requests[q].by # "nobody" =>
       \E j \in requests[q].event + 1 .. Len(events) : events[j].type = "AttentionAnswered"

(* What HumansDecide demands of one event.                                  *)
HumanEvent(i) ==
  /\ events[i].type \in {"AttentionAnswered", "Paused", "Cancelled"} => events[i].actor \in Humans
  /\ events[i].type = "Resumed" /\ events[i].prev = "paused" => events[i].actor \in Humans
  /\ events[i].type = "Resumed" /\ events[i].prev = "waiting" =>
       events[i - 1].wait = "provider_limit" \/ AnsweredBefore(i)

Logged ==
  /\ row \in Rows /\ events \in Seq(Event) /\ requests \in Seq(Request)
  /\ row.sequence = Len(events)
  /\ row.state = "absent" <=> Len(events) = 0
  /\ Len(events) = 0 => Len(requests) = 0
  /\ Len(events) > 0 => events[1].type = "Created" /\ events[Len(events)].wait = row.wait
  /\ \A q \in 1 .. Len(requests) : AnswerIsLogged(q)
  /\ \A i \in 1 .. Len(events) : HumanEvent(i)

(* The current request is one of the table.                                 *)
LEMMA CurrentRequestIsStored ==
  ASSUME RequestOf(row) # NoRequest
  PROVE  \E q \in 1 .. Len(requests) :
           /\ LastWaiting(requests[q].event)
           /\ RequestOf(row).id = q
           /\ RequestOf(row).answered <=> requests[q].by # "nobody"
<1>1. CurrentRequests # {} /\ RequestOf(row) = CHOOSE q \in CurrentRequests : TRUE
  BY DEF RequestOf, CurrentRequest
<1>2. RequestOf(row) \in CurrentRequests
  BY <1>1
<1>3. PICK q \in 1 .. Len(requests) :
        /\ LastWaiting(requests[q].event)
        /\ RequestOf(row) = [id |-> q, wait |-> requests[q].wait,
                            answered |-> requests[q].by # "nobody"]
  BY <1>2 DEF CurrentRequests
<1>4. RequestOf(row).id = q
  BY <1>3
<1>5. RequestOf(row).answered <=> requests[q].by # "nobody"
  <2>1. CASE requests[q].by # "nobody"
    <3>1. RequestOf(row) = [id |-> q, wait |-> requests[q].wait, answered |-> TRUE]
      BY <1>3, <2>1, Zenon
    <3> QED BY <2>1, <3>1
  <2>2. CASE requests[q].by = "nobody"
    <3>1. RequestOf(row) = [id |-> q, wait |-> requests[q].wait, answered |-> FALSE]
      BY <1>3, <2>2, Zenon
    <3> QED BY <2>2, <3>1
  <2> QED BY <2>1, <2>2
<1> QED BY <1>3, <1>4, <1>5

(* The human's answer stands between the wait and the end of it.            *)
LEMMA AnsweredWaitIsLogged ==
  ASSUME Logged, RequestOf(row).answered
  PROVE  \E j \in 1 .. Len(events) :
           /\ events[j].type = "AttentionAnswered"
           /\ \A k \in j + 1 .. Len(events) : events[k].type # "Waiting"
<1>1. RequestOf(row) # NoRequest
  BY DEF NoRequest
<1>2. PICK q \in 1 .. Len(requests) :
        LastWaiting(requests[q].event) /\ requests[q].by # "nobody"
  BY <1>1, CurrentRequestIsStored
<1>4. PICK j \in requests[q].event + 1 .. Len(events) : events[j].type = "AttentionAnswered"
  BY <1>2 DEF Logged, AnswerIsLogged
<1>5. requests[q].event \in 1 .. Len(events) /\ Len(events) \in Nat
  BY DEF Logged, AnswerIsLogged
<1> QED BY <1>2, <1>4, <1>5 DEF LastWaiting

(* The log only grows, so a request that is left as it was stays logged.     *)
LEMMA KeptRequestIsLogged ==
  ASSUME Logged, NEW e, events' = Append(events, e),
         NEW q \in 1 .. Len(requests), requests'[q] = requests[q]
  PROVE  AnswerIsLogged(q)'
<1> PICK n \in Nat : n = Len(events)
  BY DEF Logged
<1> PICK m \in 1 .. n : m = requests[q].event
  BY DEF Logged, AnswerIsLogged
<1>1. Len(events') = n + 1 /\ \A i \in 1 .. n : events'[i] = events[i]
  BY DEF Logged
<1>2. requests'[q].event = m /\ requests'[q].by = requests[q].by
  OBVIOUS
<1>3. requests[q].by # "nobody" => \E j \in m + 1 .. n : events[j].type = "AttentionAnswered"
  BY DEF Logged, AnswerIsLogged
<1>4. requests'[q].by # "nobody" => \E j \in m + 1 .. n + 1 : events'[j].type = "AttentionAnswered"
  BY <1>1, <1>2, <1>3
<1> QED BY <1>1, <1>2, <1>4 DEF AnswerIsLogged

LEMMA LoggedChange ==
  ASSUME Logged, NEW call \in Calls, NEW a \in Actors, row.state # "absent",
         Allowed(call, a, row, RequestOf(row)),
         ApplyMissionChange(call, a, row, RequestOf(row))
  PROVE  Logged'
<1> DEFINE e == [type |-> call.type, prev |-> row.state, new |-> Target(call.type),
                 wait |-> NewWait(call, row), actor |-> a]
<1> PICK n \in Nat : n = Len(events)
  BY DEF Logged
<1>1. /\ events' = Append(events, e) /\ n = Len(events) /\ row.sequence = n
      /\ row' = [state |-> Target(call.type), wait |-> NewWait(call, row),
                 sequence |-> row.sequence + 1]
      /\ requests' = NewRequests(call, a, row, RequestOf(row))
  BY DEF ApplyMissionChange, Logged
<1>0. /\ call.type \in EventTypes /\ call.wait \in Waits
      /\ call.type = "Waiting" => call.wait \in WaitReasons
  BY DEF Calls, EventTypes, Waits
<1>2. e \in Event /\ row' \in Rows
  <2>1. Target(call.type) \in States /\ row.wait \in Waits /\ row.sequence \in Nat
        /\ row.state \in States \union {"absent"}
    BY <1>0 DEF Target, States, Logged, Rows
  <2>2. NewWait(call, row) \in Waits
    BY <1>0, <2>1 DEF NewWait, Waits
  <2> QED BY <1>0, <1>1, <2>1, <2>2 DEF Event, Rows
<1>6. /\ e.type = call.type /\ e.prev = row.state /\ e.actor = a
      /\ e.new = Target(call.type) /\ e.wait = NewWait(call, row)
  OBVIOUS
<1> HIDE DEF e
<1>3. /\ events' \in Seq(Event) /\ Len(events') = n + 1 /\ events'[n + 1] = e
      /\ \A i \in 1 .. n : events'[i] = events[i]
  BY <1>1, <1>2 DEF Logged
<1>4. requests' \in Seq(Request) /\ \A q \in 1 .. Len(requests') : AnswerIsLogged(q)'
  <2>1. CASE call.type = "Waiting" /\ call.wait # "provider_limit"
    <3>1. requests' = Append(requests, [event |-> n + 1, wait |-> call.wait, by |-> "nobody"])
      BY <1>1, <2>1 DEF NewRequests, Logged
    <3>2. [event |-> n + 1, wait |-> call.wait, by |-> "nobody"] \in Request
      BY <1>0, <1>1, <2>1 DEF Request
    <3>3. /\ requests' \in Seq(Request) /\ Len(requests') = Len(requests) + 1
          /\ requests'[Len(requests) + 1] = [event |-> n + 1, wait |-> call.wait, by |-> "nobody"]
          /\ \A q \in 1 .. Len(requests) : requests'[q] = requests[q]
      BY <3>1, <3>2 DEF Logged
    <3>4. PICK m : m = Len(requests) + 1 /\ Len(requests) \in Nat
      BY DEF Logged
    <3>5. AnswerIsLogged(m)'
      BY <1>3, <3>3, <3>4, <1>1 DEF AnswerIsLogged
    <3>6. ASSUME NEW q \in 1 .. Len(requests) PROVE AnswerIsLogged(q)'
      BY <3>3, <1>1, KeptRequestIsLogged
    <3> QED BY <3>3, <3>4, <3>5, <3>6
  <2>2. CASE call.type = "AttentionAnswered"
    <3>1. PICK p \in 1 .. Len(requests) : RequestOf(row).id = p
      <4>1. RequestOf(row) # NoRequest
        BY <2>2 DEF Allowed
      <4> QED BY <4>1, CurrentRequestIsStored
    <3>2. requests' = [requests EXCEPT ![p].by = a]
      BY <1>1, <2>2, <3>1 DEF NewRequests
    <3>3. /\ requests' \in Seq(Request) /\ Len(requests') = Len(requests)
          /\ \A q \in 1 .. Len(requests) : requests'[q].event = requests[q].event
          /\ \A q \in 1 .. Len(requests) \ {p} : requests'[q] = requests[q]
      <4> PICK x : x = [requests[p] EXCEPT !.by = a]
        OBVIOUS
      <4>1. requests[p] \in Request
        BY DEF Logged
      <4>2. x \in Request /\ x.event = requests[p].event
        BY <4>1 DEF Request
      <4>3. requests' = [requests EXCEPT ![p] = x]
        BY <3>2
      <4> QED BY <4>2, <4>3, ExceptSeq DEF Logged
    <3>4. ASSUME NEW q \in 1 .. Len(requests) PROVE AnswerIsLogged(q)'
      <4> PICK m \in 1 .. n : m = requests[q].event
        BY DEF Logged, AnswerIsLogged
      <4>1. requests'[q].event = m
        BY <3>3
      <4>2. events'[n + 1].type = "AttentionAnswered"
        BY <1>3, <1>6, <2>2
      <4>3. n + 1 \in m + 1 .. n + 1 /\ m \in 1 .. n + 1
        OBVIOUS
      <4>4. m \in 1 .. Len(events') /\ n + 1 \in m + 1 .. Len(events')
        BY <1>3, <4>3
      <4>5. \E j \in m + 1 .. Len(events') : events'[j].type = "AttentionAnswered"
        BY <4>2, <4>4
      <4>6. requests'[q].event \in 1 .. Len(events') /\ \E j \in requests'[q].event + 1 .. Len(events') : events'[j].type = "AttentionAnswered"
        BY <4>1, <4>4, <4>5
      <4> QED BY <4>6 DEF AnswerIsLogged
    <3> QED BY <3>3, <3>4
  <2>3. CASE ~ (call.type = "Waiting" /\ call.wait # "provider_limit") /\ call.type # "AttentionAnswered"
    <3>1. requests' = requests
      BY <1>1, <2>3 DEF NewRequests
    <3>2. ASSUME NEW q \in 1 .. Len(requests) PROVE AnswerIsLogged(q)'
      BY <1>1, <3>1, KeptRequestIsLogged
    <3> QED BY <3>1, <3>2 DEF Logged
  <2> QED BY <2>1, <2>2, <2>3
<1>5. \A i \in 1 .. Len(events') : HumanEvent(i)'
  <2>1. ASSUME NEW i \in 1 .. n
        PROVE  /\ events'[i] = events[i]
               /\ i # 1 => events'[i - 1] = events[i - 1]
               /\ AnsweredBefore(i) => AnsweredBefore(i)'
    <3>1. events'[i] = events[i] /\ (i # 1 => events'[i - 1] = events[i - 1])
      BY <1>1, <1>3
    <3>2. \A k \in 1 .. i : events'[k] = events[k]
      BY <1>1, <1>3
    <3>3. AnsweredBefore(i) => AnsweredBefore(i)'
      BY <3>2 DEF AnsweredBefore
    <3> QED BY <3>1, <3>3
  <2>2. call.type = "Resumed" /\ row.state = "waiting" =>
          n > 0 /\ (events'[n].wait = "provider_limit" \/ AnsweredBefore(n + 1)')
    <3>1. HAVE call.type = "Resumed" /\ row.state = "waiting"
    <3>2. row.wait = "provider_limit" \/ RequestOf(row).answered
      BY <3>1 DEF Allowed
    <3>3. n > 0 /\ events'[n] = events[n] /\ events[n].wait = row.wait
      BY <1>1, <1>3, <3>1 DEF Logged, Rows
    <3>4. CASE RequestOf(row).answered
      <4>1. PICK j \in 1 .. n : /\ events[j].type = "AttentionAnswered"
                              /\ \A k \in j + 1 .. n : events[k].type # "Waiting"
        BY <3>4, AnsweredWaitIsLogged
      <4> QED BY <1>1, <1>3, <3>3, <4>1 DEF AnsweredBefore
    <3> QED BY <3>2, <3>3, <3>4
  <2>3. ASSUME NEW i \in 1 .. n + 1 PROVE HumanEvent(i)'
    <3>1. CASE i \in 1 .. n
      <4>1. events[1].type = "Created"
        BY <1>1, <3>1 DEF Logged
      <4>2. HumanEvent(i)
        BY <1>1, <3>1 DEF Logged
      <4> QED BY <2>1, <3>1, <4>1, <4>2 DEF HumanEvent
    <3>2. CASE i = n + 1
      <4>1. events'[i] = e /\ i - 1 = n
        BY <1>3, <3>2
      <4>2. /\ call.type \in {"AttentionAnswered", "Paused", "Cancelled"} => a \in Humans
            /\ call.type = "Resumed" /\ row.state = "paused" => a \in Humans
        BY DEF Allowed
      <4>3. events'[i].type = "Resumed" /\ events'[i].prev = "waiting" =>
              events'[i - 1].wait = "provider_limit" \/ AnsweredBefore(i)'
        <5>1. i = n + 1 /\ e.type = call.type /\ e.prev = row.state
          BY <1>6, <3>2
        <5> QED BY <2>2, <4>1, <5>1 DEF AnsweredBefore
      <4> QED BY <1>6, <4>1, <4>2, <4>3 DEF HumanEvent
    <3>3. i \in 1 .. n \/ i = n + 1
      OBVIOUS
    <3> QED BY <3>1, <3>2, <3>3
  <2>4. Len(events') = n + 1
    BY <1>3
  <2> HIDE <1>1, <1>3
  <2>5. \A i \in 1 .. n + 1 : HumanEvent(i)'
    BY <2>3
  <2> QED BY <2>4, <2>5
<1>7. n > 0 /\ events[1].type = "Created"
  BY <1>1 DEF Logged
<1>8. row'.sequence = Len(events') /\ row'.state # "absent" /\ Len(events') # 0
  <2>1. row'.sequence = n + 1 /\ row'.state = Target(call.type)
    BY <1>1
  <2>2. Target(call.type) # "absent"
    BY DEF Target
  <2> QED BY <1>3, <2>1, <2>2
<1>9. events'[1].type = "Created" /\ events'[Len(events')].wait = row'.wait
  <2>1. events'[1] = events[1] /\ events'[Len(events')] = e
    BY <1>3, <1>7
  <2>2. row'.wait = NewWait(call, row)
    BY <1>1
  <2> QED BY <1>6, <1>7, <2>1, <2>2
<1>10. row' \in Rows /\ events' \in Seq(Event)
  BY <1>2, <1>3
<1> HIDE <1>1, <1>2, <1>3, <1>6
<1> QED BY <1>4, <1>5, <1>8, <1>9, <1>10 DEF Logged

(* The log with its answers, over the invariant that lets a change planned  *)
(* in two reads be taken for one planned in the present.                    *)
LEMMA LoggedWhileUnchanged == Logged /\ UNCHANGED store => Logged'
  BY DEF Logged, store, AnswerIsLogged, HumanEvent, AnsweredBefore

LEMMA LoggedInductive == UpToDate /\ Logged /\ [Next]_vars => Logged'
<1> SUFFICES ASSUME UpToDate, Logged, [Next]_vars PROVE Logged'
  OBVIOUS
<1>1. ASSUME NEW a \in Actors, Create(a) PROVE Logged'
  <2> PICK e : e = [type |-> "Created", prev |-> "absent", new |-> "queued",
                    wait |-> "none", actor |-> a]
    OBVIOUS
  <2>1. /\ row' = [state |-> "queued", wait |-> "none", sequence |-> 1]
        /\ events' = << e >> /\ requests' = requests /\ Len(requests) = 0
    BY <1>1 DEF Create, InsertMission, Logged
  <2>2. e \in Event /\ e.type = "Created" /\ e.wait = "none"
    BY DEF Event, EventTypes, States, Waits
  <2>3. row' \in Rows /\ row'.sequence = 1 /\ row'.state = "queued" /\ row'.wait = "none"
    BY <2>1 DEF Rows, States, Waits
  <2>4. events' \in Seq(Event) /\ Len(events') = 1 /\ events'[1] = e
    BY <2>1, <2>2
  <2>5. \A i \in 1 .. Len(events') : HumanEvent(i)'
    BY <2>2, <2>4 DEF HumanEvent
  <2> QED BY <2>1, <2>2, <2>3, <2>4, <2>5 DEF Logged
<1>2. ASSUME NEW a \in Actors, Record(a) PROVE Logged'
  <2> DEFINE c == calls[a]
  <2>1. c.at = "apply" /\ ApplyMissionChange(c.call, a, c.old, c.request)
    BY <1>2 DEF Record
  <2>2. /\ c.call \in Calls /\ c.old = row /\ c.request = RequestOf(row)
        /\ row.state # "absent" /\ Allowed(c.call, a, row, RequestOf(row))
    BY <2>1 DEF ApplyMissionChange, UpToDate, Known
  <2> QED BY <2>1, <2>2, LoggedChange
<1>3. CASE UNCHANGED store
  BY <1>3, LoggedWhileUnchanged
<1>4. CASE Next
  BY <1>1, <1>2, <1>3, <1>4
     DEF Next, Begin, Plan, Stale, OpenPage, CompletePage, BeginFromPage
<1> QED BY <1>3, <1>4 DEF vars

LEMMA AlwaysLogged == Spec => []Logged
<1>1. Init => Logged
  BY DEF Init, StoreInit, Logged, Rows, States, Waits
<1> QED BY <1>1, LoggedInductive, AlwaysUpToDate, PTL DEF Spec

(* Whatever the callers had read, the log shows that humans took the        *)
(* decisions reserved to them: nobody else answers, pauses, cancels or ends *)
(* a pause, and no Mission that waits for a human is resumed before that    *)
(* very wait is answered.                                                   *)
THEOREM HumansTakeDecisions == Spec => []HumansDecide
<1>1. Logged => HumansDecide
  BY DEF Logged, HumanEvent, HumansDecide
<1> QED BY <1>1, AlwaysLogged, PTL

-----------------------------------------------------------------------------
(* A call records only what it could do to the Mission of that moment.      *)
LEMMA RecordIsCurrent ==
  ASSUME UpToDate, NEW a \in Actors, Record(a)
  PROVE  /\ ApplyMissionChange(calls[a].call, a, row, RequestOf(row))
         /\ calls[a].call \in Calls /\ Allowed(calls[a].call, a, row, RequestOf(row))
         /\ calls[a].old.sequence = row.sequence /\ row.state # "absent"
  BY DEF Record, ApplyMissionChange, UpToDate, Known

(* A finished Mission stays finished, and its Outcome is never replaced.    *)
THEOREM FinishedStays == Spec => FinishedForGood
<1> DEFINE Step == /\ row.state \in Terminal => UNCHANGED store
                   /\ outcome' # outcome =>
                        /\ outcome = "none"
                        /\ events'[Len(events')].type = outcome'
<1>1. UpToDate /\ Logged /\ [Next]_vars => Step
  <2> SUFFICES ASSUME UpToDate, Logged, [Next]_vars PROVE Step
    OBVIOUS
  <2>1. CASE \E a \in Actors : Create(a)
    BY <2>1 DEF Create, InsertMission, Terminal
  <2>2. ASSUME NEW a \in Actors, Record(a) PROVE Step
    <3> PICK call \in Calls : call = calls[a].call
      BY <2>2, RecordIsCurrent
    <3>1. ApplyMissionChange(call, a, row, RequestOf(row)) /\ Allowed(call, a, row, RequestOf(row))
      BY <2>2, RecordIsCurrent
    <3>2. row.state \notin Terminal
      BY <3>1 DEF Allowed, Target, Transitions, Terminal, Calls, EventTypes
    <3>3. ASSUME outcome' # outcome
          PROVE  outcome = "none" /\ events'[Len(events')].type = outcome'
      <4>1. outcome = "none" /\ outcome' = call.type
        BY <3>1, <3>3 DEF ApplyMissionChange
      <4> PICK e : e = [type |-> call.type, prev |-> row.state, new |-> Target(call.type),
                        wait |-> NewWait(call, row), actor |-> a]
        OBVIOUS
      <4>2. events' = Append(events, e) /\ e.type = call.type
        BY <3>1 DEF ApplyMissionChange
      <4>3. events'[Len(events')] = e
        BY <4>2 DEF Logged
      <4> QED BY <4>1, <4>2, <4>3
    <3> QED BY <3>2, <3>3
  <2>3. CASE UNCHANGED store
    BY <2>3 DEF store
  <2>4. CASE Next
    BY <2>1, <2>2, <2>3, <2>4
       DEF Next, Begin, Plan, Stale, OpenPage, CompletePage, BeginFromPage
  <2> QED BY <2>3, <2>4 DEF vars
<1> QED BY <1>1, AlwaysUpToDate, AlwaysLogged, PTL DEF Spec, FinishedForGood

-----------------------------------------------------------------------------
(* Pages.  A complete page whose sequence is still the Mission's shows the  *)
(* Mission's row and current request; a call sent from it kept that         *)
(* sequence, and the page does not change while the call is under way.      *)
PageKnown(p) ==
  /\ p.old.state # "absent" =>
       /\ row.state # "absent"
       /\ p.old.sequence \in Nat /\ p.old.sequence <= row.sequence
       /\ p.old.sequence = row.sequence => p.old = row
  /\ p.complete => p.old.state # "absent"
  /\ p.complete /\ p.old.sequence = row.sequence => p.request = RequestOf(row).id

FromPage(c, h) ==
  c.at # "idle" /\ c.expected # 0 =>
    h \in Viewers /\ pages[h].complete /\ pages[h].old.sequence = c.old.sequence

PagesKnown ==
  /\ pages = [h \in Viewers |-> pages[h]]
  /\ \A h \in Viewers : PageKnown(pages[h])
  /\ \A a \in Actors : FromPage(calls[a], a)

LEMMA RequestWhileUnchanged ==
  ASSUME UNCHANGED store PROVE RequestOf(row)' = RequestOf(row)
  BY DEF store, RequestOf, CurrentRequest, CurrentRequests, LastWaiting

(* A call that ends, or goes on, keeps what it was sent from.               *)
LEMMA CallGoesOn ==
  ASSUME PagesKnown, UpToDate, UNCHANGED pages, NEW a \in Actors, NEW c,
         calls' = [calls EXCEPT ![a] = c], FromPage(c, a)
  PROVE  \A b \in Actors : FromPage(calls[b], b)'
<1>1. calls'[a] = c /\ \A b \in Actors \ {a} : calls'[b] = calls[b]
  BY DEF UpToDate
<1>2. ASSUME NEW b \in Actors PROVE FromPage(calls[b], b)'
  <2>1. CASE b = a
    BY <1>1, <2>1 DEF FromPage
  <2>2. CASE b # a
    <3>1. calls'[b] = calls[b] /\ FromPage(calls[b], b)
      BY <1>1, <2>2 DEF PagesKnown
    <3> QED BY <3>1 DEF FromPage
  <2> QED BY <2>1, <2>2
<1> QED BY <1>2

(* A page stays what it is while the store and the pages do, and one of an  *)
(* older Mission knows nothing that a further change could belie.           *)
LEMMA PagesStay ==
  ASSUME PagesKnown, UNCHANGED pages,
         \/ UNCHANGED store
         \/ row'.sequence = row.sequence + 1 /\ row'.state # "absent" /\ row.sequence \in Nat
  PROVE  \A h \in Viewers : PageKnown(pages[h])'
<1> SUFFICES ASSUME NEW h \in Viewers PROVE PageKnown(pages[h])'
  OBVIOUS
<1>1. PageKnown(pages[h]) /\ pages'[h] = pages[h]
  BY DEF PagesKnown
<1>2. CASE UNCHANGED store
  BY <1>1, <1>2, RequestWhileUnchanged DEF PageKnown, store
<1>3. CASE row'.sequence = row.sequence + 1 /\ row'.state # "absent" /\ row.sequence \in Nat
  BY <1>1, <1>3 DEF PageKnown
<1> QED BY <1>2, <1>3

(* Reading a page, by a viewer who has no call under way.                   *)
LEMMA PageIsRead ==
  ASSUME PagesKnown, UpToDate, NEW h \in Viewers, NEW p,
         calls[h].at = "idle", UNCHANGED << store, calls >>,
         pages' = [pages EXCEPT ![h] = p], PageKnown(p)
  PROVE  PagesKnown'
<1>1. pages'[h] = p /\ \A g \in Viewers \ {h} : pages'[g] = pages[g]
  BY DEF PagesKnown
<1>2. pages' = [g \in Viewers |-> pages'[g]]
  BY DEF PagesKnown
<1>3. ASSUME NEW g \in Viewers PROVE PageKnown(pages[g])'
  <2>1. PageKnown(pages'[g])
    BY <1>1 DEF PagesKnown
  <2> QED BY <2>1, RequestWhileUnchanged DEF PageKnown, store
<1>4. ASSUME NEW a \in Actors PROVE FromPage(calls[a], a)'
  <2>1. FromPage(calls[a], a) /\ calls'[a] = calls[a]
    BY DEF PagesKnown
  <2> QED BY <1>1, <2>1 DEF FromPage
<1> QED BY <1>2, <1>3, <1>4 DEF PagesKnown

LEMMA PagesKnownInductive == UpToDate /\ PagesKnown /\ [Next]_vars => PagesKnown'
<1> SUFFICES ASSUME UpToDate, PagesKnown, [Next]_vars PROVE PagesKnown'
  OBVIOUS
<1>0. \A a \in Actors : FromPage(Idle, a)
  BY DEF FromPage, Idle
<1>1. ASSUME NEW a \in Actors, Create(a) PROVE PagesKnown'
  <2>1. \A h \in Viewers : pages[h].old.state = "absent"
    BY <1>1 DEF Create, InsertMission, PagesKnown, PageKnown
  <2>2. \A h \in Viewers : PageKnown(pages[h])'
    BY <1>1, <2>1 DEF Create, PagesKnown, PageKnown
  <2> QED BY <1>1, <2>2 DEF Create, PagesKnown, FromPage
<1>2. ASSUME NEW h \in Viewers, OpenPage(h) PROVE PagesKnown'
  <2> PICK p : p = [NoPage EXCEPT !.old = row]
    OBVIOUS
  <2>1. p.old = row /\ p.complete = FALSE
    BY DEF NoPage
  <2>2. PageKnown(p)
    BY <1>2, <2>1 DEF PageKnown, UpToDate, OpenPage
  <2> QED BY <1>2, <2>2, PageIsRead DEF OpenPage
<1>3. ASSUME NEW h \in Viewers, CompletePage(h) PROVE PagesKnown'
  <2> PICK p : p = [pages[h] EXCEPT !.complete = TRUE, !.request = RequestOf(pages[h].old).id]
    OBVIOUS
  <2>1. pages' = [pages EXCEPT ![h] = p]
    BY <1>3 DEF CompletePage, PagesKnown
  <2>2. p.old = pages[h].old /\ p.complete /\ p.request = RequestOf(pages[h].old).id
    BY <1>3
  <2>3. PageKnown(p)
    BY <1>3, <2>2 DEF PageKnown, PagesKnown, CompletePage
  <2> QED BY <1>3, <2>1, <2>3, PageIsRead DEF CompletePage
<1>4. ASSUME NEW a \in Actors, NEW call, NEW expected, Begin(a, call, expected),
             expected # 0 => a \in Viewers /\ pages[a].complete
                               /\ pages[a].old.sequence = expected
      PROVE  PagesKnown'
  <2> PICK c :
        c = [Idle EXCEPT !.at = "read", !.call = call, !.expected = expected, !.old = row]
    OBVIOUS
  <2>1. c.at = "read" /\ c.expected = expected /\ c.old = row
    BY DEF Idle
  <2>2. /\ calls' = [calls EXCEPT ![a] = c] /\ UNCHANGED << store, pages >>
        /\ expected \in {0, row.sequence}
    BY <1>4 DEF Begin
  <2>3. FromPage(c, a)
    BY <1>4, <2>1, <2>2 DEF FromPage
  <2>4. \A b \in Actors : FromPage(calls[b], b)'
    BY <2>2, <2>3, CallGoesOn
  <2>5. \A h \in Viewers : PageKnown(pages[h])'
    BY <2>2, PagesStay
  <2> QED BY <2>2, <2>4, <2>5 DEF PagesKnown
<1>5. ASSUME NEW a \in Actors, Plan(a) PROVE PagesKnown'
  <2>1. PICK c : calls' = [calls EXCEPT ![a] = c] /\ FromPage(c, a)
    <3> DEFINE planned == [at |-> "apply", call |-> calls[a].call,
                           expected |-> calls[a].expected, old |-> calls[a].old,
                           request |-> RequestOf(calls[a].old)]
    <3>1. calls' = [calls EXCEPT ![a] = planned] \/ calls' = [calls EXCEPT ![a] = Idle]
      BY <1>5 DEF Plan
    <3>2. FromPage(calls[a], a) /\ calls[a].at = "read"
      BY <1>5 DEF PagesKnown, Plan
    <3>3. FromPage(planned, a)
      BY <3>2 DEF FromPage
    <3> HIDE DEF planned
    <3> QED BY <1>0, <3>1, <3>3
  <2>2. UNCHANGED << store, pages >>
    BY <1>5 DEF Plan
  <2>3. \A b \in Actors : FromPage(calls[b], b)'
    BY <2>1, <2>2, CallGoesOn
  <2>4. \A h \in Viewers : PageKnown(pages[h])'
    BY <2>2, PagesStay
  <2> QED BY <2>2, <2>3, <2>4 DEF PagesKnown
<1>6. ASSUME NEW a \in Actors, Record(a) \/ Stale(a) PROVE PagesKnown'
  <2>1. calls' = [calls EXCEPT ![a] = Idle] /\ UNCHANGED pages
    BY <1>6 DEF Record, Stale
  <2>2. \/ UNCHANGED store
        \/ row'.sequence = row.sequence + 1 /\ row'.state # "absent" /\ row.sequence \in Nat
    BY <1>6, ChangeAdvances DEF Record, Stale, UpToDate
  <2>3. \A b \in Actors : FromPage(calls[b], b)'
    BY <1>0, <2>1, CallGoesOn
  <2>4. \A h \in Viewers : PageKnown(pages[h])'
    BY <2>1, <2>2, PagesStay
  <2> QED BY <2>1, <2>3, <2>4 DEF PagesKnown
<1>7. ASSUME NEW h \in Viewers, NEW call \in Calls, BeginFromPage(h, call)
      PROVE  PagesKnown'
  BY <1>4, <1>7, ViewersAreHuman DEF BeginFromPage, Actors
<1>8. CASE UNCHANGED vars
  <2>1. UNCHANGED store /\ UNCHANGED << calls, pages >>
    BY <1>8 DEF vars
  <2> QED BY <2>1, PagesStay DEF PagesKnown, FromPage
<1> QED BY <1>1, <1>2, <1>3, <1>4, <1>5, <1>6, <1>7, <1>8 DEF Next

LEMMA AlwaysPagesKnown == Spec => []PagesKnown
<1>1. Init => PagesKnown
  BY DEF Init, PagesKnown, PageKnown, FromPage, NoPage, Idle
<1> QED BY <1>1, PagesKnownInductive, AlwaysUpToDate, PTL DEF Spec

(* An answer reaches the request its page showed, or nothing: the page's    *)
(* sequence is the Mission's at the moment the answer is recorded.          *)
THEOREM AnswersReachTheirRequest == Spec => AnswerReachesShownRequest
<1> DEFINE Step == \A q \in 1 .. Len(requests) :
                     requests'[q] # requests[q] =>
                       \E h \in Humans :
                         /\ requests[q].by = "nobody" /\ requests'[q].by = h
                         /\ calls[h].expected # 0 => h \in Viewers /\ pages[h].request = q
<1>1. UpToDate /\ Logged /\ PagesKnown /\ [Next]_vars => Step
  <2> SUFFICES ASSUME UpToDate, Logged, PagesKnown, [Next]_vars PROVE Step
    OBVIOUS
  <2>1. ASSUME NEW a \in Actors, Record(a) PROVE Step
    <3> SUFFICES ASSUME NEW q \in 1 .. Len(requests), requests'[q] # requests[q]
                 PROVE  \E h \in Humans :
                          /\ requests[q].by = "nobody" /\ requests'[q].by = h
                          /\ calls[h].expected # 0 => h \in Viewers /\ pages[h].request = q
      OBVIOUS
    <3> PICK call \in Calls : call = calls[a].call
      BY <2>1, RecordIsCurrent
    <3>1. /\ ApplyMissionChange(call, a, row, RequestOf(row))
          /\ Allowed(call, a, row, RequestOf(row))
          /\ calls[a].old.sequence = row.sequence
      BY <2>1, RecordIsCurrent
    <3>2. requests' = NewRequests(call, a, row, RequestOf(row)) /\ requests \in Seq(Request)
      BY <3>1 DEF ApplyMissionChange, Logged
    <3>3. call.type = "AttentionAnswered"
      BY <3>2 DEF NewRequests
    <3>4. /\ requests' = [requests EXCEPT ![RequestOf(row).id].by = a]
          /\ requests[RequestOf(row).id].by = "nobody"
          /\ a \in Humans
      BY <3>1, <3>2, <3>3 DEF NewRequests, ApplyMissionChange, Allowed
    <3>5. q = RequestOf(row).id
      BY <3>2, <3>4
    <3>6. requests'[q].by = a
      <4>1. requests[q] \in Request /\ DOMAIN requests = 1 .. Len(requests)
        BY <3>2
      <4> QED BY <3>4, <3>5, <4>1 DEF Request
    <3>7. calls[a].expected # 0 => a \in Viewers /\ pages[a].request = q
      BY <2>1, <3>1, <3>5 DEF PagesKnown, FromPage, PageKnown, Record
    <3> QED BY <3>4, <3>5, <3>6, <3>7
  <2>2. CASE UNCHANGED requests
    BY <2>2
  <2>3. CASE Next
    BY <2>1, <2>2, <2>3
       DEF Next, Create, InsertMission, Begin, Plan, Stale, OpenPage, CompletePage,
           BeginFromPage, store
  <2> QED BY <2>2, <2>3 DEF vars, store
<1> QED BY <1>1, AlwaysUpToDate, AlwaysLogged, AlwaysPagesKnown, PTL
        DEF Spec, AnswerReachesShownRequest

-----------------------------------------------------------------------------
(* The log tells the whole story of the row and of its requests.            *)
Asked == [event : Nat, wait : WaitReasons \ {"provider_limit"}, by : Actors \union {"nobody"}]

Answers(q) ==
  {j \in requests[q].event + 1 .. Len(events) :
     /\ events[j].type = "AttentionAnswered"
     /\ \A k \in requests[q].event + 1 .. j : events[k].type # "Waiting"}

(* What AnswersAreLogged demands of one request.                            *)
ExactlyAnswered(q) ==
  /\ events[requests[q].event].type = "Waiting"
  /\ events[requests[q].event].wait = requests[q].wait
  /\ \A j, k \in Answers(q) : j = k
  /\ {requests[q].by} \ {"nobody"} = {events[j].actor : j \in Answers(q)}

Linked(i) ==
  /\ events[i].prev = events[i - 1].new
  /\ events[i].prev = events[i].new \/ << events[i].prev, events[i].new >> \in Transitions

(* No two requests come from one wait: an answer is the answer to one.      *)
Story ==
  /\ outcome \in Outcomes \union {"none"} /\ requests \in Seq(Asked)
  /\ \A i \in 2 .. Len(events) : Linked(i)
  /\ Len(events) > 0 => events[Len(events)].new = row.state
  /\ row.state = "waiting" <=> row.wait # "none"
  /\ \A q \in 1 .. Len(requests) : ExactlyAnswered(q)
  /\ \A p, q \in 1 .. Len(requests) : requests[p].event = requests[q].event => p = q

CallsTyped ==
  /\ calls \in [Actors -> [at : Phases, call : Calls \union {NoCall}, expected : Nat,
                           old : Rows, request : SeenRequests]]
  /\ pages \in [Viewers -> [complete : BOOLEAN, old : Rows, request : Nat]]

(* A request that is left as it was keeps its answer when the new event     *)
(* answers nothing, or another wait has begun since it was asked.           *)
LEMMA KeptRequestIsAnswered ==
  ASSUME Logged, NEW e, events' = Append(events, e), NEW q \in 1 .. Len(requests),
         requests'[q] = requests[q], ExactlyAnswered(q),
         \/ e.type # "AttentionAnswered"
         \/ \E k \in requests[q].event + 1 .. Len(events) : events[k].type = "Waiting"
  PROVE  ExactlyAnswered(q)'
<1> PICK n \in Nat : n = Len(events)
  BY DEF Logged
<1> PICK m \in 1 .. n : m = requests[q].event
  BY DEF Logged, AnswerIsLogged
<1>1. /\ Len(events') = n + 1 /\ events'[n + 1] = e
      /\ \A i \in 1 .. n : events'[i] = events[i]
  BY DEF Logged
<1>2. ASSUME NEW j \in m + 1 .. n
      PROVE  j \in Answers(q) <=> j \in Answers(q)'
  BY <1>1 DEF Answers
<1>3. n + 1 \notin Answers(q)'
  <2>1. CASE e.type # "AttentionAnswered"
    BY <1>1, <2>1 DEF Answers
  <2>2. ASSUME NEW k \in m + 1 .. n, events[k].type = "Waiting" PROVE n + 1 \notin Answers(q)'
    <3>1. k \in m + 1 .. n + 1 /\ events'[k].type = "Waiting"
      BY <1>1, <2>2
    <3> QED BY <1>1, <3>1 DEF Answers
  <2> QED BY <2>1, <2>2
<1>4. Answers(q) \subseteq m + 1 .. n /\ Answers(q)' \subseteq m + 1 .. n + 1
  BY <1>1 DEF Answers
<1>5. Answers(q)' = Answers(q)
  <2>1. \A j \in m + 1 .. n + 1 : j \in m + 1 .. n \/ j = n + 1
    OBVIOUS
  <2> QED BY <1>2, <1>3, <1>4, <2>1
<1>6. \A j \in Answers(q) : events'[j] = events[j]
  BY <1>1, <1>4
<1>7. events'[m] = events[m]
  BY <1>1
<1>8. {events'[j].actor : j \in Answers(q)'} = {events[j].actor : j \in Answers(q)}
  BY <1>5, <1>6
<1>9. \A j, k \in Answers(q)' : j = k
  BY <1>5 DEF ExactlyAnswered
<1>10. /\ events'[requests'[q].event].type = "Waiting"
       /\ events'[requests'[q].event].wait = requests'[q].wait
  BY <1>7 DEF ExactlyAnswered
<1>11. {requests'[q].by} \ {"nobody"} = {events'[j].actor : j \in Answers(q)'}
  BY <1>8 DEF ExactlyAnswered
<1> QED BY <1>9, <1>10, <1>11 DEF ExactlyAnswered

LEMMA StoryChange ==
  ASSUME Logged, Story, NEW call \in Calls, NEW a \in Actors, row.state # "absent",
         Allowed(call, a, row, RequestOf(row)),
         ApplyMissionChange(call, a, row, RequestOf(row))
  PROVE  Story'
<1> PICK n \in Nat : n = Len(events)
  BY DEF Logged
<1> PICK e : e = [type |-> call.type, prev |-> row.state, new |-> Target(call.type),
                  wait |-> NewWait(call, row), actor |-> a]
  OBVIOUS
<1>1. /\ events' = Append(events, e) /\ row.sequence = n
      /\ row' = [state |-> Target(call.type), wait |-> NewWait(call, row), sequence |-> n + 1]
      /\ requests' = NewRequests(call, a, row, RequestOf(row))
  BY DEF ApplyMissionChange, Logged
<1>2. /\ e.type = call.type /\ e.prev = row.state /\ e.new = Target(call.type)
      /\ e.wait = NewWait(call, row) /\ e.actor = a
  OBVIOUS
<1>3. /\ Len(events') = n + 1 /\ events'[n + 1] = e
      /\ \A i \in 1 .. n : events'[i] = events[i]
  BY <1>1 DEF Logged
<1>4. n > 0
  BY DEF Logged
<1>5. /\ call.type \in EventTypes
      /\ call.type = "Waiting" => call.wait \in WaitReasons
      /\ "none" \notin WaitReasons
  BY MissionConstants DEF Calls, EventTypes
<1>6. outcome' \in Outcomes \union {"none"}
  BY DEF ApplyMissionChange, Story
<1>7. ASSUME NEW i \in 2 .. n + 1 PROVE Linked(i)'
  <2>1. CASE i \in 2 .. n
    <3>1. Linked(i) /\ events'[i] = events[i] /\ events'[i - 1] = events[i - 1]
      BY <1>3, <2>1 DEF Story
    <3> QED BY <3>1 DEF Linked
  <2>2. CASE i = n + 1
    <3>1. events'[i] = e /\ events'[i - 1] = events[n] /\ events[n].new = row.state
      BY <1>3, <1>4, <2>2 DEF Story
    <3> QED BY <1>2, <3>1 DEF Linked, Allowed
  <2>3. i \in 2 .. n \/ i = n + 1
    OBVIOUS
  <2> QED BY <2>1, <2>2, <2>3
<1>8. row'.state = Target(call.type) /\ row'.wait = NewWait(call, row)
  BY <1>1
<1>9. row'.state = "waiting" <=> row'.wait # "none"
  BY <1>5, <1>8 DEF Story, Allowed, Target, NewWait, EventTypes
<1>10. /\ requests' \in Seq(Asked)
       /\ \A q \in 1 .. Len(requests') : ExactlyAnswered(q)'
       /\ \A p, q \in 1 .. Len(requests') : requests'[p].event = requests'[q].event => p = q
  <2>0. \A q \in 1 .. Len(requests) : requests[q].event \in 1 .. n /\ ExactlyAnswered(q)
    BY DEF Logged, AnswerIsLogged, Story
  <2>1. CASE call.type = "Waiting" /\ call.wait # "provider_limit"
    <3> PICK r, m : m = Len(requests) + 1 /\ r = [event |-> n + 1, wait |-> call.wait, by |-> "nobody"]
      OBVIOUS
    <3>1. requests' = Append(requests, r)
      BY <1>1, <2>1 DEF NewRequests
    <3>2. r \in Asked /\ r.event = n + 1 /\ r.wait = call.wait /\ r.by = "nobody"
      BY <1>5, <2>1 DEF Asked
    <3>3. /\ requests' \in Seq(Asked) /\ Len(requests) \in Nat /\ Len(requests') = m
          /\ requests'[m] = r
          /\ \A q \in 1 .. Len(requests) : requests'[q] = requests[q]
      BY <3>1, <3>2 DEF Story
    <3>4. ExactlyAnswered(m)'
      <4>1. Answers(m)' = {}
        BY <1>3, <3>2, <3>3 DEF Answers
      <4>2. e.type = "Waiting" /\ e.wait = call.wait
        BY <1>2, <2>1 DEF NewWait
      <4> QED BY <1>3, <3>2, <3>3, <4>1, <4>2 DEF ExactlyAnswered
    <3>5. ASSUME NEW q \in 1 .. Len(requests) PROVE ExactlyAnswered(q)'
      <4>1. e.type # "AttentionAnswered"
        BY <1>2, <2>1
      <4> QED BY <1>1, <2>0, <3>3, <4>1, KeptRequestIsAnswered
    <3>6. ASSUME NEW p \in 1 .. m, NEW q \in 1 .. m, requests'[p].event = requests'[q].event
          PROVE  p = q
      <4>1. \A i \in 1 .. m : i \in 1 .. Len(requests) \/ i = m
        BY <3>3
      <4>2. \A i \in 1 .. Len(requests) :
              requests'[i].event = requests[i].event /\ requests'[i].event # n + 1
        BY <2>0, <3>3
      <4>3. requests'[m].event = n + 1
        BY <3>2, <3>3
      <4>4. CASE p \in 1 .. Len(requests) /\ q \in 1 .. Len(requests)
        BY <3>6, <4>2, <4>4 DEF Story
      <4> QED BY <3>6, <4>1, <4>2, <4>3, <4>4
    <3> QED BY <3>3, <3>4, <3>5, <3>6
  <2>2. CASE call.type = "AttentionAnswered"
    <3>1. PICK p \in 1 .. Len(requests) : RequestOf(row).id = p /\ LastWaiting(requests[p].event)
      <4>1. RequestOf(row) # NoRequest
        BY <2>2 DEF Allowed
      <4> QED BY <4>1, CurrentRequestIsStored
    <3>2. requests' = [requests EXCEPT ![p].by = a] /\ requests[p].by = "nobody"
      BY <1>1, <2>2, <3>1 DEF NewRequests, ApplyMissionChange
    <3> PICK m \in 1 .. n : m = requests[p].event
      BY <2>0
    <3>3. /\ requests' \in Seq(Asked) /\ Len(requests') = Len(requests)
          /\ \A q \in 1 .. Len(requests) \ {p} : requests'[q] = requests[q]
          /\ requests'[p].event = m /\ requests'[p].wait = requests[p].wait
          /\ requests'[p].by = a
      <4> PICK x : x = [requests[p] EXCEPT !.by = a]
        OBVIOUS
      <4>1. requests[p] \in Asked
        BY DEF Story
      <4>2. x \in Asked /\ x.event = m /\ x.wait = requests[p].wait /\ x.by = a
        BY <4>1 DEF Asked
      <4>3. requests' = [requests EXCEPT ![p] = x]
        BY <3>2
      <4> QED BY <4>2, <4>3, ExceptSeq DEF Story
    <3>4. ExactlyAnswered(p)'
      <4>1. Answers(p) = {}
        <5>1. {events[j].actor : j \in Answers(p)} = {}
          BY <2>0, <3>2 DEF ExactlyAnswered
        <5> QED BY <5>1
      <4>2. ASSUME NEW j \in m + 1 .. n PROVE j \notin Answers(p)'
        <5>1. \A k \in m + 1 .. j : events'[k] = events[k]
          BY <1>3
        <5>2. j \notin Answers(p)
          BY <4>1
        <5> QED BY <1>3, <3>3, <5>1, <5>2 DEF Answers
      <4>3. n + 1 \in Answers(p)'
        <5>1. \A k \in m + 1 .. n : events'[k].type # "Waiting"
          BY <1>3, <3>1 DEF LastWaiting
        <5>2. events'[n + 1].type = "AttentionAnswered"
          BY <1>2, <1>3, <2>2
        <5>3. \A k \in m + 1 .. n + 1 : events'[k].type # "Waiting"
          BY <5>1, <5>2
        <5> QED BY <1>3, <3>3, <5>2, <5>3 DEF Answers
      <4>4. Answers(p)' = {n + 1}
        <5>1. Answers(p)' \subseteq m + 1 .. n + 1
          BY <1>3, <3>3 DEF Answers
        <5>2. \A j \in m + 1 .. n + 1 : j \in m + 1 .. n \/ j = n + 1
          OBVIOUS
        <5> QED BY <4>2, <4>3, <5>1, <5>2
      <4>5. a # "nobody"
        BY MissionConstants DEF Actors
      <4>6. {events'[j].actor : j \in Answers(p)'} = {a}
        BY <1>2, <1>3, <4>4
      <4>7. events'[m] = events[m] /\ events[m].type = "Waiting" /\ events[m].wait = requests[p].wait
        BY <1>3, <2>0 DEF ExactlyAnswered
      <4> QED BY <3>3, <4>4, <4>5, <4>6, <4>7 DEF ExactlyAnswered
    <3>5. ASSUME NEW q \in 1 .. Len(requests), q # p PROVE ExactlyAnswered(q)'
      <4> PICK i \in 1 .. n : i = requests[q].event
        BY <2>0
      <4>1. i # m /\ events[i].type = "Waiting" /\ events[m].type = "Waiting"
        BY <2>0, <3>5 DEF Story, ExactlyAnswered
      <4>2. m \in i + 1 .. n
        BY <3>1, <4>1 DEF LastWaiting
      <4> QED BY <1>1, <2>0, <3>3, <3>5, <4>1, <4>2, KeptRequestIsAnswered
    <3>6. \A q \in 1 .. Len(requests) : requests'[q].event = requests[q].event
      BY <3>3
    <3> QED BY <3>3, <3>4, <3>5, <3>6 DEF Story
  <2>3. CASE ~ (call.type = "Waiting" /\ call.wait # "provider_limit") /\ call.type # "AttentionAnswered"
    <3>1. requests' = requests
      BY <1>1, <2>3 DEF NewRequests
    <3>2. ASSUME NEW q \in 1 .. Len(requests) PROVE ExactlyAnswered(q)'
      BY <1>1, <1>2, <2>0, <2>3, <3>1, KeptRequestIsAnswered
    <3> QED BY <3>1, <3>2 DEF Story
  <2> QED BY <2>1, <2>2, <2>3
<1>11. events'[Len(events')].new = row'.state
  BY <1>2, <1>3, <1>8
<1>12. \A i \in 2 .. Len(events') : Linked(i)'
  BY <1>3, <1>7
<1> QED BY <1>6, <1>9, <1>10, <1>11, <1>12 DEF Story

LEMMA StoryInductive == UpToDate /\ Logged /\ Story /\ [Next]_vars => Story'
<1> SUFFICES ASSUME UpToDate, Logged, Story, [Next]_vars PROVE Story'
  OBVIOUS
<1>1. ASSUME NEW a \in Actors, Create(a) PROVE Story'
  <2> PICK e : e = [type |-> "Created", prev |-> "absent", new |-> "queued",
                    wait |-> "none", actor |-> a]
    OBVIOUS
  <2>1. /\ row' = [state |-> "queued", wait |-> "none", sequence |-> 1]
        /\ events' = << e >> /\ requests' = requests /\ Len(requests) = 0 /\ outcome' = outcome
    BY <1>1 DEF Create, InsertMission, Logged
  <2>2. Len(events') = 1 /\ events'[1].new = "queued"
    BY <2>1
  <2>3. row'.state = "queued" /\ row'.wait = "none"
    BY <2>1
  <2> QED BY <2>1, <2>2, <2>3 DEF Story
<1>2. ASSUME NEW a \in Actors, Record(a) PROVE Story'
  BY <1>2, RecordIsCurrent, StoryChange
<1>3. ASSUME UNCHANGED store PROVE Story'
  <2>1. row' = row /\ events' = events /\ requests' = requests /\ outcome' = outcome
    BY <1>3 DEF store
  <2>2. ASSUME NEW q \in 1 .. Len(requests) PROVE ExactlyAnswered(q)'
    <3>1. Answers(q)' = Answers(q)
      BY <2>1 DEF Answers
    <3>2. {events'[j].actor : j \in Answers(q)'} = {events[j].actor : j \in Answers(q)}
      BY <2>1, <3>1
    <3>3. ExactlyAnswered(q)
      BY DEF Story
    <3> QED BY <2>1, <3>1, <3>2, <3>3 DEF ExactlyAnswered
  <2> QED BY <2>1, <2>2 DEF Story, Linked
<1>4. CASE Next
  BY <1>1, <1>2, <1>3, <1>4
     DEF Next, Begin, Plan, Stale, OpenPage, CompletePage, BeginFromPage
<1> QED BY <1>3, <1>4 DEF vars

LEMMA RequestIsTyped ==
  ASSUME Logged, Story, NEW old
  PROVE  RequestOf(old) \in SeenRequests
<1>1. NoRequest \in SeenRequests
  BY DEF NoRequest, SeenRequests, Waits
<1>2. CurrentRequests \subseteq SeenRequests
  <2> SUFFICES ASSUME NEW q \in 1 .. Len(requests)
               PROVE  [id |-> q, wait |-> requests[q].wait,
                       answered |-> requests[q].by # "nobody"] \in SeenRequests
    BY DEF CurrentRequests
  <2>1. requests[q].wait \in Waits /\ q \in Nat
    <3>1. requests[q] \in Request
      BY ElementOfSeq DEF Logged
    <3> QED BY <3>1 DEF Request, Waits
  <2>2. (requests[q].by # "nobody") \in BOOLEAN
    OBVIOUS
  <2> QED BY <2>1, <2>2, Zenon DEF SeenRequests
<1>3. CurrentRequest \in SeenRequests
  BY <1>1, <1>2 DEF CurrentRequest
<1> QED BY <1>1, <1>3 DEF RequestOf

LEMMA CallsTypedInductive ==
  ASSUME Logged, Story, CallsTyped, [Next]_vars
  PROVE  CallsTyped'
<1> DEFINE CallSet == [at : Phases, call : Calls \union {NoCall}, expected : Nat,
                       old : Rows, request : SeenRequests]
           PageSet == [complete : BOOLEAN, old : Rows, request : Nat]
<1>0. row \in Rows /\ Idle \in CallSet /\ NoPage \in PageSet /\ NoRequest \in SeenRequests
  BY DEF Logged, Idle, NoPage, NoRequest, SeenRequests, Phases, Rows, States, Waits
<1>1. ASSUME NEW a \in Actors, NEW c \in CallSet, calls' = [calls EXCEPT ![a] = c], pages' = pages
      PROVE  CallsTyped'
  BY <1>1 DEF CallsTyped
<1>2. ASSUME NEW h \in Viewers, NEW p \in PageSet, pages' = [pages EXCEPT ![h] = p], calls' = calls
      PROVE  CallsTyped'
  BY <1>2 DEF CallsTyped
<1>3. ASSUME NEW a \in Actors, NEW call \in Calls, NEW expected, Begin(a, call, expected)
      PROVE  CallsTyped'
  <2> PICK c : c = [Idle EXCEPT !.at = "read", !.call = call, !.expected = expected, !.old = row]
    OBVIOUS
  <2>1. expected \in Nat
    BY <1>0, <1>3 DEF Begin, Rows
  <2>2. c \in CallSet
    BY <1>0, <2>1 DEF Idle, Phases
  <2> QED BY <1>1, <1>3, <2>2 DEF Begin
<1>4. ASSUME NEW a \in Actors, Plan(a) PROVE CallsTyped'
  <2>1. calls[a] \in CallSet
    BY DEF CallsTyped
  <2> PICK q \in SeenRequests : q = RequestOf(calls[a].old)
    BY RequestIsTyped
  <2> PICK c : c = [at |-> "apply", call |-> calls[a].call, expected |-> calls[a].expected,
                    old |-> calls[a].old, request |-> q]
    OBVIOUS
  <2>2. c \in CallSet
    BY <2>1 DEF Phases
  <2> QED BY <1>0, <1>1, <1>4, <2>2 DEF Plan
<1>5. ASSUME NEW a \in Actors, Record(a) \/ Stale(a) PROVE CallsTyped'
  BY <1>0, <1>1, <1>5 DEF Record, Stale
<1>6. ASSUME NEW a \in Actors, Create(a) PROVE CallsTyped'
  BY <1>6 DEF Create, CallsTyped
<1>7. ASSUME NEW h \in Viewers, OpenPage(h) PROVE CallsTyped'
  <2> PICK p : p = [NoPage EXCEPT !.old = row]
    OBVIOUS
  <2>1. p \in PageSet
    BY <1>0 DEF NoPage
  <2> QED BY <1>2, <1>7, <2>1 DEF OpenPage
<1>8. ASSUME NEW h \in Viewers, CompletePage(h) PROVE CallsTyped'
  <2>1. pages[h] \in PageSet
    BY DEF CallsTyped
  <2> PICK q \in SeenRequests : q = RequestOf(pages[h].old)
    BY RequestIsTyped
  <2> PICK p : p = [pages[h] EXCEPT !.complete = TRUE, !.request = q.id]
    OBVIOUS
  <2>2. p \in PageSet
    BY <2>1 DEF SeenRequests
  <2>3. pages' = [pages EXCEPT ![h] = p]
    BY <1>8, <2>1 DEF CompletePage, CallsTyped
  <2> QED BY <1>2, <1>8, <2>2, <2>3 DEF CompletePage, store
<1>9. CASE UNCHANGED vars
  BY <1>9 DEF vars, CallsTyped
<1>10. \A h \in Viewers : h \in Actors
  BY ViewersAreHuman DEF Actors
<1> HIDE DEF CallSet, PageSet
<1> QED BY <1>3, <1>4, <1>5, <1>6, <1>7, <1>8, <1>9, <1>10 DEF Next, BeginFromPage

(* The events of a Mission explain its row: as many as its sequence, an     *)
(* unbroken chain of permitted transitions that ends in its state, and for  *)
(* every Attention Request the one answer that the log has for its wait.    *)
THEOREM LogTellsTheStory == Spec => []LogExplainsRow
<1>1. Init => Story /\ CallsTyped
  <2> SUFFICES ASSUME Init PROVE Story /\ CallsTyped
    OBVIOUS
  <2>1. Story
    BY EmptySeq DEF Init, StoreInit, Story
  <2>2. CallsTyped
    BY DEF Init, CallsTyped, Idle, NoPage, NoRequest, SeenRequests, Phases, Rows, Waits
  <2> QED BY <2>1, <2>2
<1>2. UpToDate /\ Logged /\ Story /\ CallsTyped /\ [Next]_vars => Story' /\ CallsTyped'
  BY StoryInductive, CallsTypedInductive
<1>3. Logged /\ Story /\ CallsTyped => LogExplainsRow
  <2> SUFFICES ASSUME Logged, Story, CallsTyped PROVE LogExplainsRow
    OBVIOUS
  <2>1. TypeOK
    BY DEF TypeOK, Logged, Story, CallsTyped, Event, Asked
  <2>2. AnswersAreLogged
    BY DEF AnswersAreLogged, Story, ExactlyAnswered, Answers
  <2>3. events # << >> => Len(events) > 0
    BY DEF Logged
  <2> QED BY <2>1, <2>2, <2>3 DEF LogExplainsRow, Logged, Story, Linked
<1> QED BY <1>1, <1>2, <1>3, AlwaysUpToDate, AlwaysLogged, PTL DEF Spec
=============================================================================
