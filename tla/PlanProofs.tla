----------------------------- MODULE PlanProofs -----------------------------
(***************************************************************************)
(* Plans under any number of concurrent callers: changes and reviews are   *)
(* indivisible to an observer of the store, and no field of a plan is ever *)
(* changed behind the back of the revision that says what it changed.      *)
(***************************************************************************)
EXTENDS PlannedKnowledge, SequenceTheorems, TLAPS

-----------------------------------------------------------------------------
(* The operators on plan states.                                            *)

LEMMA ChangesApplied ==
  ASSUME NEW s \in PlanState, NEW c \in Changes
  PROVE  ApplyChanges(s, c) \in PlanState
  BY DEF ApplyChanges, PlanState, Changes

LEMMA DiffIsFields == \A s, t : DiffStates(s, t) \in SUBSET Fields
  BY DEF DiffStates

LEMMA MergedState ==
  ASSUME NEW p, proposals[p].state \in PlanState, NEW s \in PlanState
  PROVE  /\ Merge(p, s) \in PlanState
         /\ \A f \in Fields : Merge(p, s)[f] = IF f \in proposals[p].changed
                                               THEN proposals[p].state[f] ELSE s[f]
  BY DEF Merge, PlanState, Fields

(* Merging changes exactly the fields the proposal changed, when none of    *)
(* them is stale.                                                           *)
LEMMA MergeChanges ==
  ASSUME NEW p, NEW b, NEW s \in PlanState,
         b = revisions[proposals[p].base].state,
         proposals[p].state \in PlanState, proposals[p].changed \in SUBSET Fields,
         proposals[p].changed = DiffStates(b, proposals[p].state),
         StaleFields(p, s) = {}
  PROVE  DiffStates(s, Merge(p, s)) = proposals[p].changed
<1>1. \A f \in Fields : Merge(p, s)[f] = IF f \in proposals[p].changed
                                         THEN proposals[p].state[f] ELSE s[f]
  BY MergedState
<1>2. \A f \in proposals[p].changed : b[f] = s[f] /\ b[f] # proposals[p].state[f]
  BY DEF StaleFields, DiffStates
<1> QED BY <1>1, <1>2 DEF DiffStates

-----------------------------------------------------------------------------
(* Types.  A call in progress has read what its place says it has.          *)

CallType ==
  [at : Places, changes : Changes, proposal : 0 .. Len(proposals),
   decision : {"none", "Accepted", "Rejected"}, number : 0 .. Effective,
   status : Statuses \union {"none"}, links : SUBSET LinkNodes]

(* What a call at its place has read and checked for good.                  *)
Reads(c, a) ==
  /\ c.at # "idle" => revisions # << >> /\ c.status \in Statuses
  /\ c.at \in {"review", "decide", "record"} =>
       /\ a \in Reviewers
       /\ c.proposal \in 1 .. Len(proposals) /\ c.decision \in {"Accepted", "Rejected"}

Typed == TypeOK /\ \A a \in Actors : Reads(calls[a], a)

(* The tables only grow.                                                    *)
Grows ==
  /\ Len(revisions) <= Len(revisions') /\ Len(proposals) <= Len(proposals')
  /\ \A k \in 1 .. Len(revisions) : revisions'[k] = revisions[k]
  /\ \A p \in 1 .. Len(proposals) : proposals'[p] = proposals[p]

LEMMA EffectiveTyped ==
  ASSUME TypeOK, revisions # << >>
  PROVE  Effective \in Nat \ {0} /\ EffectiveState \in PlanState
         /\ EffectiveState.status \in Statuses /\ EffectiveState.links \in SUBSET LinkNodes
<1>1. Effective \in Nat \ {0} /\ revisions[Effective] \in Revision
  BY EmptySeq, ElementOfSeq DEF TypeOK, Effective
<1> QED BY <1>1 DEF Revision, EffectiveState, PlanState

LEMMA IdleTyped ==
  ASSUME TypeOK
  PROVE  Idle \in CallType /\ \A a \in Actors : Reads(Idle, a)
  BY DEF TypeOK, Idle, NoChanges, CallType, Changes, Places, Effective, Reads

(* A step that only moves one call on.                                      *)
LEMMA CallTyped ==
  ASSUME Typed, UNCHANGED store, NEW a \in Actors, NEW c \in CallType, Reads(c, a),
         calls' = [calls EXCEPT ![a] = c]
  PROVE  Typed'
<1>1. \A b \in Actors : Reads(calls[b], b)'
  BY DEF Typed, TypeOK, Reads, store
<1>2. calls' \in [Actors -> CallType] /\ CallType' = CallType
  BY DEF Typed, TypeOK, CallType, store, Effective
<1> QED BY <1>1, <1>2 DEF Typed, TypeOK, CallType, store, Effective

(* A step that writes, and ends the call it belongs to, if any.             *)
LEMMA WriteTyped ==
  ASSUME Typed, Grows, NEW a \in Actors,
         calls' = calls \/ calls' = [calls EXCEPT ![a] = Idle],
         revisions' \in Seq(Revision), proposals' \in Seq(Proposal),
         \A p \in 1 .. Len(proposals') : proposals'[p].base \in 1 .. Len(revisions'),
         decisions' \subseteq Decision,
         \A d \in decisions' : d.proposal \in 1 .. Len(proposals')
  PROVE  Typed'
<1>1. Len(revisions) \in Nat /\ Len(proposals) \in Nat
      /\ Len(revisions') \in Nat /\ Len(proposals') \in Nat
  BY LenProperties DEF Typed, TypeOK
<1>2. CallType \subseteq CallType' /\ Idle \in CallType
  BY <1>1, IdleTyped DEF Grows, CallType, Effective, Typed
<1>3. calls' \in [Actors -> CallType']
  BY <1>2 DEF Typed, TypeOK, CallType
<1>4. revisions # << >> => revisions' # << >>
  BY <1>1, EmptySeq DEF Grows, Typed, TypeOK
<1>5. \A b \in Actors : Reads(calls[b], b)' \/ calls'[b] = Idle
  <2> SUFFICES ASSUME NEW b \in Actors, calls'[b] # Idle PROVE Reads(calls[b], b)'
    OBVIOUS
  <2>1. calls'[b] = calls[b] /\ Reads(calls[b], b)
    BY DEF Typed, TypeOK
  <2> QED BY <1>1, <1>4, <2>1 DEF Reads, Grows
<1>6. TypeOK'
  BY <1>3 DEF TypeOK, CallType, Effective
<1>7. \A b \in Actors : Reads(Idle, b)'
  BY <1>6 DEF Reads, Idle
<1> QED BY <1>5, <1>6, <1>7 DEF Typed, Reads

LEMMA AppendGrows ==
  ASSUME NEW S, NEW s \in Seq(S), NEW e \in S
  PROVE  /\ Append(s, e) \in Seq(S) /\ Len(Append(s, e)) = Len(s) + 1
         /\ \A i \in 1 .. Len(s) : Append(s, e)[i] = s[i]
         /\ Append(s, e)[Len(s) + 1] = e
  BY AppendProperties

(* What AppendRevision adds is typed.                                       *)
LEMMA RevisionAppended ==
  ASSUME TypeOK, NEW a \in Actors, NEW number, NEW s \in PlanState, NEW t \in PlanState,
         revisions # << >>, AppendRevision(a, number, s, t)
  PROVE  /\ Grows
         /\ revisions' \in Seq(Revision) /\ proposals' \in Seq(Proposal)
         /\ \A p \in 1 .. Len(proposals') : proposals'[p].base \in 1 .. Len(revisions')
         /\ decisions' = decisions
<1>1. Effective \in Nat \ {0} /\ Len(proposals) \in Nat
  BY EffectiveTyped, LenProperties DEF TypeOK
<1>2. CASE NeedsReview(a, s, t)
  <2> DEFINE q == [base |-> number, state |-> t, changed |-> DiffStates(s, t), author |-> a]
  <2>1. revisions' = revisions /\ proposals' = Append(proposals, q) /\ number = Effective
    BY <1>2 DEF AppendRevision
  <2>2. q \in Proposal
    BY <1>1, <2>1, DiffIsFields DEF Proposal
  <2>3. /\ proposals' \in Seq(Proposal) /\ Len(proposals') = Len(proposals) + 1
        /\ \A p \in 1 .. Len(proposals) : proposals'[p] = proposals[p]
        /\ proposals'[Len(proposals) + 1] = q
    BY <2>1, <2>2, AppendGrows DEF TypeOK
  <2> QED BY <1>1, <2>1, <2>3 DEF TypeOK, Grows, AppendRevision, Effective
<1>3. CASE ~ NeedsReview(a, s, t)
  <2> DEFINE r == [state |-> t, changed |-> DiffStates(s, t), author |-> a, source |-> 0]
  <2>1. proposals' = proposals /\ revisions' = Append(revisions, r)
    BY <1>3 DEF AppendRevision
  <2>2. r \in Revision
    BY DiffIsFields DEF Revision
  <2>3. /\ revisions' \in Seq(Revision) /\ Len(revisions') = Len(revisions) + 1
        /\ \A k \in 1 .. Len(revisions) : revisions'[k] = revisions[k]
    BY <2>1, <2>2, AppendGrows DEF TypeOK
  <2> QED BY <1>1, <2>1, <2>3 DEF TypeOK, Grows, AppendRevision, Effective
<1> QED BY <1>2, <1>3

(* So is what RecordDecision adds.                                          *)
LEMMA DecisionRecorded ==
  ASSUME TypeOK, NEW a \in Reviewers, NEW p \in 1 .. Len(proposals),
         NEW d \in {"Accepted", "Rejected"}, NEW number, NEW s \in PlanState,
         revisions # << >>, RecordDecision(a, p, d, number, s)
  PROVE  /\ Grows
         /\ revisions' \in Seq(Revision) /\ proposals' = proposals
         /\ \A q \in 1 .. Len(proposals') : proposals'[q].base \in 1 .. Len(revisions')
         /\ decisions' \subseteq Decision
         /\ \A e \in decisions' : e.proposal \in 1 .. Len(proposals')
<1>1. Effective \in Nat \ {0} /\ Len(proposals) \in Nat /\ proposals[p] \in Proposal
  BY EffectiveTyped, LenProperties, ElementOfSeq DEF TypeOK
<1> DEFINE r == [state |-> Merge(p, s), changed |-> proposals[p].changed,
                 author |-> proposals[p].author, source |-> p]
           e == [proposal |-> p, decision |-> d, reviewer |-> a,
                 revision |-> IF d = "Accepted" THEN Effective + 1 ELSE 0]
<1>2. r \in Revision
  <2>1. Merge(p, s) \in PlanState
    BY <1>1, MergedState DEF Proposal
  <2> QED BY <1>1, <2>1 DEF Revision, Proposal
<1>3. e \in Decision
  BY <1>1 DEF Decision
<1>4. decisions' \subseteq Decision /\ \A x \in decisions' : x.proposal \in 1 .. Len(proposals)
  BY <1>3 DEF RecordDecision, TypeOK
<1>5. /\ revisions' \in Seq(Revision) /\ Len(revisions') \in {Len(revisions), Len(revisions) + 1}
      /\ \A k \in 1 .. Len(revisions) : revisions'[k] = revisions[k]
  BY <1>2, AppendGrows DEF RecordDecision, TypeOK
<1>6. proposals' = proposals
  BY DEF RecordDecision
<1> QED BY <1>1, <1>4, <1>5, <1>6 DEF Grows, TypeOK, Effective

-----------------------------------------------------------------------------
(* The inductive invariant.  What a call has read may be old, or may never  *)
(* have been one plan; but if its number is still the effective one, it has *)
(* read the effective state, for that state is fixed by its number, and it  *)
(* has decided on that.                                                     *)
Known(c) ==
  /\ c.at # "idle" /\ c.number = Effective => c.status = EffectiveState.status
  /\ c.at \in {"append", "decide", "record"} /\ c.number = Effective =>
       c.links = EffectiveState.links
  /\ c.at = "append" => DiffStates(ReadState(c), ApplyChanges(ReadState(c), c.changes)) # {}
  /\ c.at = "record" /\ c.decision = "Accepted" => StaleFields(c.proposal, ReadState(c)) = {}

UpToDate == Typed /\ \A a \in Actors : Known(calls[a])

(* A write leaves what other calls know as it is, or makes it old.          *)
LEMMA KnownAfterWrite ==
  ASSUME Typed, Grows, NEW b \in Actors, Known(calls[b]), calls'[b] = calls[b]
  PROVE  Known(calls[b])'
<1> DEFINE c == calls[b]
<1>1. c \in CallType /\ Reads(c, b)
  BY DEF Typed, TypeOK, CallType
<1>2. Len(revisions) \in Nat /\ Len(revisions') \in Nat
  BY LenProperties DEF Typed, TypeOK
<1>3. c.at # "idle" /\ c.number = Effective' =>
        c.number = Effective /\ EffectiveState' = EffectiveState
  <2> SUFFICES ASSUME c.at # "idle", c.number = Effective'
               PROVE  c.number = Effective /\ EffectiveState' = EffectiveState
    OBVIOUS
  <2>1. c.number \in 0 .. Effective
    BY <1>1 DEF CallType
  <2>2. Effective' = Effective
    BY <1>2, <2>1 DEF Effective, Grows
  <2>3. Effective \in 1 .. Len(revisions)
    BY <1>1, EffectiveTyped DEF Reads, Typed, Effective
  <2> QED BY <2>2, <2>3 DEF Grows, EffectiveState
<1>4. c.at = "record" => StaleFields(c.proposal, ReadState(c))'
                           = StaleFields(c.proposal, ReadState(c))
  <2> SUFFICES ASSUME c.at = "record"
               PROVE  StaleFields(c.proposal, ReadState(c))'
                        = StaleFields(c.proposal, ReadState(c))
    OBVIOUS
  <2>1. c.proposal \in 1 .. Len(proposals)
    BY <1>1 DEF Reads
  <2>2. proposals[c.proposal].base \in 1 .. Len(revisions)
    BY <2>1 DEF Typed, TypeOK, Effective
  <2> QED BY <2>1, <2>2 DEF StaleFields, ReadState, Grows
<1> QED BY <1>3, <1>4 DEF Known, ReadState, ApplyChanges, DiffStates

LEMMA IdleKnown == Known(Idle) /\ Known(Idle)'
  BY DEF Known, Idle

(* A step that only moves one call on.                                      *)
LEMMA CallKnown ==
  ASSUME UpToDate, UNCHANGED store, NEW a \in Actors, NEW c \in CallType,
         Reads(c, a), Known(c), calls' = [calls EXCEPT ![a] = c]
  PROVE  UpToDate'
<1>1. Typed'
  BY CallTyped DEF UpToDate
<1>2. Known(c)'
  BY DEF store, Known, Effective, EffectiveState, ReadState, StaleFields, ApplyChanges
<1>3. Grows
  BY LenProperties DEF UpToDate, Typed, TypeOK, Grows, store
<1>4. \A b \in Actors \ {a} : calls'[b] = calls[b] /\ Known(calls[b])'
  BY <1>3, KnownAfterWrite DEF UpToDate, Typed, TypeOK
<1>5. calls'[a] = c
  BY DEF UpToDate, Typed, TypeOK
<1> QED BY <1>1, <1>2, <1>4, <1>5 DEF UpToDate, Known

(* A step that writes, and ends the call it belongs to, if any.             *)
LEMMA WriteKnown ==
  ASSUME UpToDate, Grows, NEW a \in Actors,
         calls' = calls \/ calls' = [calls EXCEPT ![a] = Idle],
         revisions' \in Seq(Revision), proposals' \in Seq(Proposal),
         \A p \in 1 .. Len(proposals') : proposals'[p].base \in 1 .. Len(revisions'),
         decisions' \subseteq Decision,
         \A d \in decisions' : d.proposal \in 1 .. Len(proposals')
  PROVE  UpToDate'
<1>1. Typed'
  BY WriteTyped DEF UpToDate
<1>2. \A b \in Actors : calls'[b] = Idle \/ (calls'[b] = calls[b] /\ Known(calls[b])')
  <2> SUFFICES ASSUME NEW b \in Actors, calls'[b] # Idle
               PROVE  calls'[b] = calls[b] /\ Known(calls[b])'
    OBVIOUS
  <2>1. calls'[b] = calls[b]
    BY DEF UpToDate, Typed, TypeOK
  <2> QED BY <2>1, KnownAfterWrite DEF UpToDate
<1> QED BY <1>1, <1>2, IdleKnown DEF UpToDate, Known

(* What a call that begins has read.                                        *)
LEMMA BeginTyped ==
  ASSUME TypeOK, revisions # << >>, NEW at \in Places, NEW changes \in Changes,
         NEW p \in 0 .. Len(proposals), NEW d \in {"none", "Accepted", "Rejected"}
  PROVE  [at |-> at, changes |-> changes, proposal |-> p, decision |-> d, number |-> Effective,
          status |-> EffectiveState.status, links |-> {}] \in CallType
<1>1. Effective \in 0 .. Effective /\ EffectiveState.status \in Statuses
  BY EffectiveTyped
<1> QED BY <1>1 DEF CallType

LEMMA UpToDateInductive == UpToDate /\ [Next]_vars => UpToDate'
<1> SUFFICES ASSUME UpToDate, [Next]_vars PROVE UpToDate'
  OBVIOUS
<1>1. /\ TypeOK
      /\ \A a \in Actors : calls[a] \in CallType /\ Reads(calls[a], a) /\ Known(calls[a])
  BY DEF UpToDate, Typed, TypeOK, CallType
<1>2. ASSUME UNCHANGED store, NEW a \in Actors, calls' = [calls EXCEPT ![a] = Idle]
      PROVE  UpToDate'
  BY <1>1, <1>2, CallKnown, IdleTyped, IdleKnown
<1>3. CASE \E a \in Actors : Create(a)
  <2> PICK a \in Actors, state \in PlanState : InsertPlan(a, state) /\ calls' = calls
    BY <1>3 DEF Create
  <2> DEFINE r == [state |-> state, changed |-> {}, author |-> a, source |-> 0]
  <2>1. r \in Revision /\ revisions = << >> /\ revisions' = << r >>
    BY DEF Revision, InsertPlan
  <2>2. revisions' \in Seq(Revision) /\ Len(revisions') = 1 /\ Len(revisions) = 0
    BY <2>1
  <2>3. proposals' = proposals /\ decisions' = decisions
    BY DEF InsertPlan
  <2>4. Len(proposals) \in Nat
    BY <1>1, LenProperties DEF TypeOK
  <2>5. Grows
    BY <2>2, <2>3, <2>4 DEF Grows
  <2>6. \A p \in 1 .. Len(proposals) : FALSE
    BY <1>1, <2>2 DEF TypeOK, Effective
  <2> QED BY <1>1, <2>2, <2>3, <2>5, <2>6, WriteKnown DEF TypeOK
<1>4. CASE \E a \in Actors, changes \in Changes : BeginRevise(a, changes)
  <2> PICK a \in Actors, changes \in Changes : BeginRevise(a, changes)
    BY <1>4
  <2> PICK c : c = [Idle EXCEPT !.at = "revise", !.changes = changes,
                               !.number = Effective, !.status = EffectiveState.status]
    OBVIOUS
  <2>1. UNCHANGED store /\ calls' = [calls EXCEPT ![a] = c] /\ revisions # << >>
    BY DEF BeginRevise, Goto
  <2>2. Effective \in 0 .. Effective /\ EffectiveState.status \in Statuses
        /\ Len(proposals) \in Nat
    BY <1>1, <2>1, EffectiveTyped, LenProperties DEF TypeOK
  <2>3. c \in CallType /\ c.at = "revise" /\ c.status = EffectiveState.status
    <3>1. c = [at |-> "revise", changes |-> changes, proposal |-> 0, decision |-> "none",
               number |-> Effective, status |-> EffectiveState.status, links |-> {}]
      BY DEF Idle
    <3>2. "revise" \in Places /\ 0 \in 0 .. Len(proposals)
      BY <2>2 DEF Places
    <3>3. [at |-> "revise", changes |-> changes, proposal |-> 0, decision |-> "none",
           number |-> Effective, status |-> EffectiveState.status, links |-> {}] \in CallType
      BY <1>1, <2>1, <3>2, BeginTyped
    <3> QED BY <3>1, <3>3
  <2>4. Reads(c, a) /\ Known(c)
    BY <2>1, <2>2, <2>3 DEF Reads, Known
  <2> QED BY <2>1, <2>3, <2>4, CallKnown
<1>5. CASE \E a \in Actors : PlanRevision(a)
  <2> PICK a \in Actors : PlanRevision(a)
    BY <1>5
  <2> PICK c : c = [calls[a] EXCEPT !.at = "append", !.links = EffectiveState.links]
    OBVIOUS
  <2>1. UNCHANGED store /\ calls[a].at = "revise"
    BY DEF PlanRevision
  <2>2. revisions # << >> /\ EffectiveState.links \in SUBSET LinkNodes
    BY <1>1, <2>1, EffectiveTyped DEF Reads
  <2>3. /\ c \in CallType /\ c.at = "append" /\ c.links = EffectiveState.links
        /\ c.number = calls[a].number /\ c.status = calls[a].status
    BY <1>1, <2>2 DEF CallType, Places
  <2>4. Reads(c, a)
    BY <1>1, <2>1, <2>3 DEF Reads
  <2>5. CASE DiffStates(ReadState(c), ApplyChanges(ReadState(c), c.changes)) = {}
    BY <1>2, <2>1, <2>5 DEF PlanRevision, Goto
  <2>6. CASE DiffStates(ReadState(c), ApplyChanges(ReadState(c), c.changes)) # {}
    <3>1. Known(c)
      BY <1>1, <2>1, <2>3, <2>6 DEF Known
    <3>2. calls' = [calls EXCEPT ![a] = c]
      BY <2>6 DEF PlanRevision, Goto
    <3> QED BY <2>1, <2>3, <2>4, <3>1, <3>2, CallKnown
  <2> QED BY <2>5, <2>6
<1>6. CASE \E a \in Actors : AppendPlanned(a)
  <2> PICK a \in Actors : AppendPlanned(a)
    BY <1>6
  <2> DEFINE c == calls[a]  next == ApplyChanges(ReadState(c), c.changes)
  <2>1. /\ c.at = "append" /\ AppendRevision(a, c.number, ReadState(c), next)
        /\ calls' = [calls EXCEPT ![a] = Idle]
    BY DEF AppendPlanned, Goto
  <2>2. ReadState(c) \in PlanState /\ c.changes \in Changes /\ revisions # << >>
    BY <1>1, <2>1 DEF ReadState, PlanState, CallType, Reads
  <2>3. next \in PlanState
    BY <2>2, ChangesApplied
  <2>4. /\ Grows
        /\ revisions' \in Seq(Revision) /\ proposals' \in Seq(Proposal)
        /\ \A p \in 1 .. Len(proposals') : proposals'[p].base \in 1 .. Len(revisions')
        /\ decisions' = decisions
    BY <1>1, <2>1, <2>2, <2>3, RevisionAppended
  <2>5. \A d \in decisions : d.proposal \in 1 .. Len(proposals')
    BY <1>1, <2>4, LenProperties DEF TypeOK, Grows
  <2> QED BY <1>1, <2>1, <2>4, <2>5, WriteKnown DEF TypeOK
<1>7. CASE \E a \in Actors, p \in 1 .. Len(proposals), d \in {"Accepted", "Rejected"} :
             BeginReview(a, p, d)
  <2> PICK a \in Actors, p \in 1 .. Len(proposals), d \in {"Accepted", "Rejected"} :
        BeginReview(a, p, d)
    BY <1>7
  <2> PICK c : c = [Idle EXCEPT !.at = "review", !.proposal = p, !.decision = d,
                               !.number = Effective, !.status = EffectiveState.status]
    OBVIOUS
  <2>1. UNCHANGED store /\ calls' = [calls EXCEPT ![a] = c] /\ a \in Reviewers
    BY DEF BeginReview, Goto
  <2>2. revisions # << >>
    BY <1>1 DEF TypeOK, Effective
  <2>3. Effective \in 0 .. Effective /\ EffectiveState.status \in Statuses
        /\ Len(proposals) \in Nat
    BY <1>1, <2>2, EffectiveTyped, LenProperties DEF TypeOK
  <2>4. /\ c \in CallType /\ c.at = "review" /\ c.status = EffectiveState.status
        /\ c.proposal = p /\ c.decision = d
    <3>1. c = [at |-> "review", changes |-> NoChanges, proposal |-> p, decision |-> d,
               number |-> Effective, status |-> EffectiveState.status, links |-> {}]
      BY DEF Idle
    <3>2. "review" \in Places /\ NoChanges \in Changes /\ p \in 0 .. Len(proposals)
      BY <2>3 DEF Places, NoChanges, Changes
    <3>3. [at |-> "review", changes |-> NoChanges, proposal |-> p, decision |-> d,
           number |-> Effective, status |-> EffectiveState.status, links |-> {}] \in CallType
      BY <1>1, <2>2, <3>2, BeginTyped
    <3> QED BY <3>1, <3>3
  <2>5. Reads(c, a) /\ Known(c)
    BY <2>1, <2>2, <2>3, <2>4 DEF Reads, Known
  <2> QED BY <2>1, <2>4, <2>5, CallKnown
<1>8. CASE \E a \in Actors : ReadLinks(a)
  <2> PICK a \in Actors : ReadLinks(a)
    BY <1>8
  <2> PICK c : c = [calls[a] EXCEPT !.at = "decide", !.links = EffectiveState.links]
    OBVIOUS
  <2>1. UNCHANGED store /\ calls[a].at = "review" /\ calls' = [calls EXCEPT ![a] = c]
    BY DEF ReadLinks, Goto
  <2>2. revisions # << >> /\ EffectiveState.links \in SUBSET LinkNodes
    BY <1>1, <2>1, EffectiveTyped DEF Reads
  <2>3. /\ c \in CallType /\ c.at = "decide" /\ c.links = EffectiveState.links
        /\ c.number = calls[a].number /\ c.status = calls[a].status
        /\ c.proposal = calls[a].proposal /\ c.decision = calls[a].decision
    BY <1>1, <2>2 DEF CallType, Places
  <2>4. Reads(c, a) /\ Known(c)
    BY <1>1, <2>1, <2>3 DEF Reads, Known
  <2> QED BY <2>1, <2>3, <2>4, CallKnown
<1>9. CASE \E a \in Actors : DecideRevision(a)
  <2> PICK a \in Actors : DecideRevision(a)
    BY <1>9
  <2> PICK c : c = [calls[a] EXCEPT !.at = "record"]
    OBVIOUS
  <2>1. UNCHANGED store /\ calls[a].at = "decide"
    BY DEF DecideRevision
  <2>2. CASE calls' = [calls EXCEPT ![a] = Idle]
    BY <1>2, <2>1, <2>2
  <2>3. CASE calls' # [calls EXCEPT ![a] = Idle]
    <3>1. /\ calls' = [calls EXCEPT ![a] = c]
          /\ calls[a].decision = "Accepted" =>
               StaleFields(calls[a].proposal, ReadState(calls[a])) = {}
      BY <2>3 DEF DecideRevision, Goto
    <3>2. /\ c \in CallType /\ c.at = "record" /\ c.links = calls[a].links
          /\ c.number = calls[a].number /\ c.status = calls[a].status
          /\ c.proposal = calls[a].proposal /\ c.decision = calls[a].decision
      BY <1>1 DEF CallType, Places
    <3>3. Reads(c, a) /\ Known(c)
      BY <1>1, <2>1, <3>1, <3>2 DEF Reads, Known, ReadState
    <3> QED BY <2>1, <3>1, <3>2, <3>3, CallKnown
  <2> QED BY <2>2, <2>3
<1>10. CASE \E a \in Actors : Record(a)
  <2> PICK a \in Actors : Record(a)
    BY <1>10
  <2> DEFINE c == calls[a]
  <2>1. /\ c.at = "record" /\ RecordDecision(a, c.proposal, c.decision, c.number, ReadState(c))
        /\ calls' = [calls EXCEPT ![a] = Idle]
    BY DEF Record, Goto
  <2>2. /\ ReadState(c) \in PlanState /\ revisions # << >> /\ a \in Reviewers
        /\ c.proposal \in 1 .. Len(proposals) /\ c.decision \in {"Accepted", "Rejected"}
    BY <1>1, <2>1 DEF ReadState, PlanState, CallType, Reads
  <2>3. /\ Grows
        /\ revisions' \in Seq(Revision) /\ proposals' = proposals
        /\ \A q \in 1 .. Len(proposals') : proposals'[q].base \in 1 .. Len(revisions')
        /\ decisions' \subseteq Decision
        /\ \A e \in decisions' : e.proposal \in 1 .. Len(proposals')
    BY <1>1, <2>1, <2>2, DecisionRecorded
  <2> QED BY <1>1, <2>1, <2>3, WriteKnown DEF TypeOK
<1>11. CASE \E a \in Actors : Refused(a)
  BY <1>2, <1>11 DEF Refused, Goto
<1>12. CASE UNCHANGED vars
  <2>1. Grows /\ calls' = calls
    BY <1>1, <1>12, LenProperties DEF vars, store, Grows, TypeOK
  <2>2. \A b \in Actors : Known(calls[b])'
    BY <1>1, <2>1, KnownAfterWrite DEF UpToDate
  <2>3. Typed'
    BY <1>12 DEF vars, store, UpToDate, Typed, TypeOK, Reads, Effective
  <2> QED BY <2>2, <2>3 DEF UpToDate
<1> QED BY <1>3, <1>4, <1>5, <1>6, <1>7, <1>8, <1>9, <1>10, <1>11, <1>12 DEF Next

LEMMA AlwaysUpToDate == Spec => []UpToDate
<1>1. Init => UpToDate
  <2> SUFFICES ASSUME Init PROVE UpToDate
    OBVIOUS
  <2>1. /\ revisions = << >> /\ proposals = << >> /\ decisions = {}
        /\ calls = [a \in Actors |-> Idle]
    BY DEF Init, StoreInit
  <2>2. Idle \in CallType
    BY <2>1 DEF Idle, NoChanges, CallType, Changes, Places, Effective
  <2>3. TypeOK
    BY <2>1, <2>2 DEF TypeOK, CallType, Effective
  <2>4. \A a \in Actors : calls[a] = Idle
    BY <2>1
  <2> QED BY <2>3, <2>4, IdleTyped, IdleKnown DEF UpToDate, Typed
<1> QED BY <1>1, UpToDateInductive, PTL DEF Spec

(* Every table and every local variable of the model is well typed.         *)
THEOREM PlanTypeCorrect == Spec => []TypeOK
<1>1. UpToDate => TypeOK
  BY DEF UpToDate, Typed
<1> QED BY <1>1, AlwaysUpToDate, PTL

-----------------------------------------------------------------------------
(* Implementation.  The instance of PlanAtomic has the rules of PlanStore   *)
(* under names of its own; they are the same.                               *)
LEMMA SameStates ==
  /\ Atomic!PlanState = PlanState /\ Atomic!Changes = Changes
  /\ Atomic!Effective = Effective /\ Atomic!EffectiveState = EffectiveState
  BY DEF Atomic!PlanState, PlanState, Atomic!Changes, Changes, Atomic!Effective, Effective,
         Atomic!EffectiveState, EffectiveState

LEMMA SameDiff == \A s, t : Atomic!DiffStates(s, t) = DiffStates(s, t)
  BY DEF Atomic!DiffStates, DiffStates, Atomic!Fields, Fields

LEMMA SameApply == \A s, c : Atomic!ApplyChanges(s, c) = ApplyChanges(s, c)
  BY DEF Atomic!ApplyChanges, ApplyChanges

LEMMA SameStale == \A p, s : Atomic!StaleFields(p, s) = StaleFields(p, s)
  BY DEF Atomic!StaleFields, StaleFields

LEMMA SameAppend ==
  ASSUME NEW a, NEW number, NEW s, NEW t, AppendRevision(a, number, s, t)
  PROVE  Atomic!AppendRevision(a, number, s, t)
<1>1. Atomic!NeedsReview(a, s, t) <=> NeedsReview(a, s, t)
  BY DEF Atomic!NeedsReview, NeedsReview, Atomic!Closed, Closed
<1> QED BY <1>1, SameDiff, SameStates DEF Atomic!AppendRevision, AppendRevision

LEMMA SameDecision ==
  ASSUME NEW a, NEW p, NEW d, NEW number, NEW s, RecordDecision(a, p, d, number, s)
  PROVE  Atomic!RecordDecision(a, p, d, number, s)
<1>1. Atomic!Decided(p) <=> Decided(p)
  BY DEF Atomic!Decided, Decided
<1>2. Atomic!Merge(p, s) = Merge(p, s)
  BY DEF Atomic!Merge, Merge
<1> QED BY <1>1, <1>2, SameStates DEF Atomic!RecordDecision, RecordDecision

LEMMA SameInsert ==
  ASSUME NEW a, NEW state, InsertPlan(a, state)
  PROVE  Atomic!InsertPlan(a, state)
  BY DEF Atomic!InsertPlan, InsertPlan

(* When a call writes, it has read the effective state.                     *)
LEMMA WritersKnow ==
  ASSUME UpToDate, NEW a \in Actors, calls[a].at \in {"append", "record"},
         calls[a].number = Effective
  PROVE  ReadState(calls[a]) = EffectiveState /\ revisions # << >>
<1>1. revisions # << >>
  BY DEF UpToDate, Typed, Reads
<1>2. EffectiveState \in PlanState
  BY <1>1, EffectiveTyped DEF UpToDate, Typed
<1>3. calls[a].status = EffectiveState.status /\ calls[a].links = EffectiveState.links
  BY DEF UpToDate, Known
<1> QED BY <1>1, <1>2, <1>3 DEF ReadState, PlanState

(* A call takes effect when it records its change, as if it had read and    *)
(* decided at that moment; a call that is refused never happened.           *)
THEOREM PlanOperationsAreAtomic == Spec => ImplementsAtomicPlan
<1>1. Init => Atomic!StoreInit
  BY DEF Init, StoreInit, Atomic!StoreInit
<1>2. UpToDate /\ [Next]_vars => [Atomic!AtomicNext]_(Atomic!store)
  <2> SUFFICES ASSUME UpToDate, [Next]_vars PROVE [Atomic!AtomicNext]_(Atomic!store)
    OBVIOUS
  <2>1. CASE \E a \in Actors : Create(a)
    BY <2>1, SameInsert, SameStates DEF Create, Atomic!AtomicNext
  <2>2. CASE \E a \in Actors : AppendPlanned(a)
    <3> PICK a \in Actors : AppendPlanned(a)
      BY <2>2
    <3> DEFINE c == calls[a]
    <3>1. /\ c.at = "append"
          /\ AppendRevision(a, c.number, ReadState(c), ApplyChanges(ReadState(c), c.changes))
      BY DEF AppendPlanned
    <3>2. c.number = Effective
      BY <3>1 DEF AppendRevision
    <3>3. ReadState(c) = EffectiveState /\ revisions # << >>
      BY <3>1, <3>2, WritersKnow
    <3>4. c.changes \in Changes /\ DiffStates(ReadState(c), ApplyChanges(ReadState(c), c.changes)) # {}
      BY <3>1 DEF UpToDate, Known, Typed, TypeOK
    <3>5. Atomic!AppendRevision(a, Effective, EffectiveState,
                                ApplyChanges(EffectiveState, c.changes))
      BY <3>1, <3>2, <3>3, SameAppend
    <3>6. Atomic!Revise(a, c.changes)
      BY <3>3, <3>4, <3>5, SameStates, SameDiff, SameApply DEF Atomic!Revise
    <3> QED BY <3>4, <3>6, SameStates DEF Atomic!AtomicNext
  <2>3. CASE \E a \in Actors : Record(a)
    <3> PICK a \in Actors : Record(a)
      BY <2>3
    <3> DEFINE c == calls[a]
    <3>1. c.at = "record" /\ RecordDecision(a, c.proposal, c.decision, c.number, ReadState(c))
      BY DEF Record
    <3>2. c.number = Effective
      BY <3>1 DEF RecordDecision
    <3>3. ReadState(c) = EffectiveState
      BY <3>1, <3>2, WritersKnow
    <3>4. /\ a \in Reviewers /\ c.proposal \in 1 .. Len(proposals)
          /\ c.decision \in {"Accepted", "Rejected"}
          /\ c.decision = "Accepted" => StaleFields(c.proposal, ReadState(c)) = {}
      BY <3>1 DEF UpToDate, Known, Typed, Reads
    <3>5. Atomic!RecordDecision(a, c.proposal, c.decision, Effective, EffectiveState)
      BY <3>1, <3>2, <3>3, SameDecision
    <3>6. Atomic!Review(a, c.proposal, c.decision)
      BY <3>3, <3>4, <3>5, SameStates, SameStale DEF Atomic!Review
    <3> QED BY <3>4, <3>6 DEF Atomic!AtomicNext
  <2>4. ASSUME UNCHANGED store PROVE UNCHANGED Atomic!store
    BY <2>4 DEF store, Atomic!store
  <2>5. CASE \E a \in Actors :
               \/ \E changes \in Changes : BeginRevise(a, changes)
               \/ PlanRevision(a)
               \/ \E p \in 1 .. Len(proposals), d \in {"Accepted", "Rejected"} :
                    BeginReview(a, p, d)
               \/ ReadLinks(a) \/ DecideRevision(a) \/ Refused(a)
    BY <2>4, <2>5 DEF BeginRevise, PlanRevision, BeginReview, ReadLinks, DecideRevision, Refused
  <2>6. CASE UNCHANGED vars
    BY <2>4, <2>6 DEF vars
  <2> QED BY <2>1, <2>2, <2>3, <2>5, <2>6 DEF Next
<1> QED BY <1>1, <1>2, AlwaysUpToDate, PTL DEF Spec, ImplementsAtomicPlan, Atomic!AtomicSpec

-----------------------------------------------------------------------------
(* What a proposal says it changes is what it changes.                      *)
ProposalsDiffer ==
  \A p \in 1 .. Len(proposals) :
    /\ proposals[p].changed # {}
    /\ proposals[p].changed = DiffStates(revisions[proposals[p].base].state, proposals[p].state)

Story == NothingIsLost /\ ProposalsDiffer

(* A new revision, or a new proposal, that says what it changes.            *)
LEMMA StoryContinues ==
  ASSUME Typed, Typed', Story, Grows, revisions # << >>,
         Len(revisions') \in {Len(revisions), Len(revisions) + 1},
         Len(proposals') \in {Len(proposals), Len(proposals) + 1},
         Len(revisions') = Len(revisions) + 1 =>
           LET r == revisions'[Len(revisions) + 1] IN
           r.changed # {} /\ r.changed = DiffStates(EffectiveState, r.state),
         Len(proposals') = Len(proposals) + 1 =>
           LET q == proposals'[Len(proposals) + 1] IN
           q.changed # {} /\ q.base = Effective
             /\ q.changed = DiffStates(EffectiveState, q.state)
  PROVE  Story'
<1>1. Effective \in Nat \ {0} /\ Effective = Len(revisions) /\ Len(proposals) \in Nat
  BY EffectiveTyped, LenProperties DEF Typed, TypeOK, Effective
<1>2. \A k \in 1 .. Effective : revisions'[k] = revisions[k]
  BY <1>1 DEF Grows
<1>3. \A s, t : DiffStates(s, t)' = DiffStates(s, t)
  BY DEF DiffStates
<1>4. NothingIsLost'
  <2> SUFFICES ASSUME NEW k \in 2 .. Len(revisions')
               PROVE  /\ revisions'[k].changed # {}
                      /\ revisions'[k].changed
                           = DiffStates(revisions'[k - 1].state, revisions'[k].state)
    BY DEF NothingIsLost, Effective, DiffStates
  <2>1. CASE k \in 2 .. Effective
    <3>1. revisions'[k] = revisions[k] /\ revisions'[k - 1] = revisions[k - 1]
      BY <1>1, <1>2, <2>1
    <3> QED BY <2>1, <3>1 DEF Story, NothingIsLost
  <2>2. CASE k = Effective + 1
    <3>1. revisions'[k - 1] = revisions[Effective] /\ Len(revisions') = Len(revisions) + 1
      BY <1>1, <1>2, <2>2
    <3> QED BY <1>1, <2>2, <3>1 DEF EffectiveState
  <2> QED BY <1>1, <2>1, <2>2
<1>5. ProposalsDiffer'
  <2> SUFFICES ASSUME NEW p \in 1 .. Len(proposals')
               PROVE  /\ proposals'[p].changed # {}
                      /\ proposals'[p].changed
                           = DiffStates(revisions'[proposals'[p].base].state, proposals'[p].state)
    BY DEF ProposalsDiffer, DiffStates
  <2>1. CASE p \in 1 .. Len(proposals)
    <3>1. proposals'[p] = proposals[p] /\ proposals[p].base \in 1 .. Effective
      BY <1>1, <2>1 DEF Grows, Typed, TypeOK
    <3> QED BY <1>2, <2>1, <3>1 DEF Story, ProposalsDiffer
  <2>2. CASE p = Len(proposals) + 1
    <3>1. revisions'[Effective] = revisions[Effective] /\ Len(proposals') = Len(proposals) + 1
      BY <1>1, <1>2, <2>2
    <3> QED BY <2>2, <3>1 DEF EffectiveState
  <2> QED BY <1>1, <2>1, <2>2
<1> QED BY <1>4, <1>5 DEF Story

LEMMA StoryInductive == UpToDate /\ UpToDate' /\ Story /\ [Next]_vars => Story'
<1> SUFFICES ASSUME UpToDate, UpToDate', Story, [Next]_vars PROVE Story'
  OBVIOUS
<1>1. /\ TypeOK /\ Typed /\ Typed'
      /\ \A a \in Actors : calls[a] \in CallType /\ Reads(calls[a], a) /\ Known(calls[a])
  BY DEF UpToDate, Typed, TypeOK, CallType
<1>2. Len(revisions) \in Nat /\ Len(proposals) \in Nat
  BY <1>1, LenProperties DEF TypeOK
<1>3. ASSUME UNCHANGED store PROVE Story'
  BY <1>3 DEF store, Story, NothingIsLost, ProposalsDiffer, Effective, DiffStates
<1>4. CASE \E a \in Actors : Create(a)
  <2>1. Len(revisions') = 1 /\ revisions = << >> /\ proposals' = proposals
    BY <1>4 DEF Create, InsertPlan
  <2>2. NothingIsLost'
    BY <2>1 DEF NothingIsLost, Effective
  <2>3. \A p \in 1 .. Len(proposals') : FALSE
    <3>1. Len(revisions) = 0
      BY <2>1
    <3> QED BY <1>1, <2>1, <3>1 DEF TypeOK, Effective
  <2> QED BY <2>2, <2>3 DEF Story, ProposalsDiffer
<1>5. CASE \E a \in Actors : AppendPlanned(a)
  <2> PICK a \in Actors : AppendPlanned(a)
    BY <1>5
  <2> DEFINE c == calls[a]  s == ReadState(c)  next == ApplyChanges(s, c.changes)
             r == [state |-> next, changed |-> DiffStates(s, next), author |-> a, source |-> 0]
             q == [base |-> c.number, state |-> next, changed |-> DiffStates(s, next),
                   author |-> a]
  <2>1. c.at = "append" /\ AppendRevision(a, c.number, s, next)
    BY DEF AppendPlanned
  <2>2. c.number = Effective
    BY <2>1 DEF AppendRevision
  <2>3. s = EffectiveState /\ revisions # << >>
    BY <2>1, <2>2, WritersKnow
  <2>4. DiffStates(s, next) # {} /\ s \in PlanState /\ c.changes \in Changes
    BY <1>1, <2>1, <2>3, EffectiveTyped DEF Known, CallType
  <2>5. next \in PlanState
    BY <2>4, ChangesApplied
  <2>6. Grows
    BY <1>1, <2>1, <2>3, <2>4, <2>5, RevisionAppended
  <2>7. CASE NeedsReview(a, s, next)
    <3>1. revisions' = revisions /\ proposals' = Append(proposals, q)
      BY <2>1, <2>7 DEF AppendRevision
    <3>2. q \in Proposal
      BY <1>2, <2>2, <2>5, DiffIsFields DEF Proposal, Effective
    <3>3. Len(proposals') = Len(proposals) + 1 /\ proposals'[Len(proposals) + 1] = q
      BY <1>1, <3>1, <3>2, AppendGrows DEF TypeOK
    <3> HIDE DEF c, s, next
    <3>4. q.changed # {} /\ q.base = Effective /\ q.changed = DiffStates(EffectiveState, q.state)
      BY <2>2, <2>3, <2>4
    <3> HIDE DEF q
    <3> QED BY <1>1, <1>2, <2>3, <2>6, <3>1, <3>3, <3>4, StoryContinues
  <2>8. CASE ~ NeedsReview(a, s, next)
    <3>1. proposals' = proposals /\ revisions' = Append(revisions, r)
      BY <2>1, <2>8 DEF AppendRevision
    <3>2. r \in Revision
      BY <2>5, DiffIsFields DEF Revision
    <3>3. Len(revisions') = Len(revisions) + 1 /\ revisions'[Len(revisions) + 1] = r
      BY <1>1, <3>1, <3>2, AppendGrows DEF TypeOK
    <3> HIDE DEF c, s, next
    <3>4. r.changed # {} /\ r.changed = DiffStates(EffectiveState, r.state)
      BY <2>3, <2>4
    <3> HIDE DEF r
    <3> QED BY <1>1, <1>2, <2>3, <2>6, <3>1, <3>3, <3>4, StoryContinues
  <2> QED BY <2>7, <2>8
<1>6. CASE \E a \in Actors : Record(a)
  <2> PICK a \in Actors : Record(a)
    BY <1>6
  <2> DEFINE c == calls[a]  s == ReadState(c)  p == c.proposal
             r == [state |-> Merge(p, s), changed |-> proposals[p].changed,
                   author |-> proposals[p].author, source |-> p]
  <2>1. c.at = "record" /\ RecordDecision(a, p, c.decision, c.number, s)
    BY DEF Record
  <2>2. c.number = Effective
    BY <2>1 DEF RecordDecision
  <2>3. s = EffectiveState /\ revisions # << >>
    BY <2>1, <2>2, WritersKnow
  <2>4. /\ a \in Reviewers /\ p \in 1 .. Len(proposals)
        /\ c.decision \in {"Accepted", "Rejected"} /\ s \in PlanState
        /\ c.decision = "Accepted" => StaleFields(p, s) = {}
    BY <1>1, <2>1, <2>3, EffectiveTyped DEF Reads, Known
  <2>5. Grows /\ proposals' = proposals
    BY <1>1, <2>1, <2>3, <2>4, DecisionRecorded
  <2>6. CASE c.decision = "Accepted"
    <3>1. revisions' = Append(revisions, r)
      BY <2>1, <2>6 DEF RecordDecision
    <3>2. proposals[p] \in Proposal
      BY <1>1, <2>4, ElementOfSeq DEF TypeOK
    <3>3. r \in Revision
      <4>1. Merge(p, s) \in PlanState
        BY <2>4, <3>2, MergedState DEF Proposal
      <4> QED BY <1>2, <2>4, <3>2, <4>1 DEF Revision, Proposal
    <3>4. Len(revisions') = Len(revisions) + 1 /\ revisions'[Len(revisions) + 1] = r
      BY <1>1, <3>1, <3>3, AppendGrows DEF TypeOK
    <3>5. /\ proposals[p].changed # {}
          /\ proposals[p].changed
               = DiffStates(revisions[proposals[p].base].state, proposals[p].state)
      BY <2>4 DEF Story, ProposalsDiffer
    <3>6. DiffStates(s, Merge(p, s)) = proposals[p].changed
      BY <2>4, <2>6, <3>2, <3>5, MergeChanges DEF Proposal
    <3> HIDE DEF c, s, p
    <3>7. r.changed # {} /\ r.changed = DiffStates(EffectiveState, r.state)
      BY <2>3, <3>5, <3>6
    <3> HIDE DEF r
    <3> QED BY <1>1, <1>2, <2>3, <2>5, <3>4, <3>7, StoryContinues
  <2>7. CASE c.decision # "Accepted"
    <3>1. revisions' = revisions
      BY <2>1, <2>7 DEF RecordDecision
    <3> QED BY <1>1, <1>2, <2>3, <2>5, <3>1, StoryContinues
  <2> QED BY <2>6, <2>7
<1>7. CASE \E a \in Actors :
             \/ \E changes \in Changes : BeginRevise(a, changes)
             \/ PlanRevision(a)
             \/ \E p \in 1 .. Len(proposals), d \in {"Accepted", "Rejected"} :
                  BeginReview(a, p, d)
             \/ ReadLinks(a) \/ DecideRevision(a) \/ Refused(a)
  BY <1>3, <1>7 DEF BeginRevise, PlanRevision, BeginReview, ReadLinks, DecideRevision, Refused
<1>8. CASE UNCHANGED vars
  BY <1>3, <1>8 DEF vars
<1> QED BY <1>4, <1>5, <1>6, <1>7, <1>8 DEF Next

(* A revision differs from the one before exactly in the fields it says it  *)
(* changed: a change planned from an old or torn read is never applied, and *)
(* an accepted proposal changes nothing that it did not ask for.            *)
THEOREM PlansLoseNothing == Spec => []NothingIsLost
<1>1. Init => Story
  <2> SUFFICES ASSUME Init PROVE Story
    OBVIOUS
  <2>1. Len(revisions) = 0 /\ Len(proposals) = 0
    BY DEF Init, StoreInit
  <2> QED BY <2>1 DEF Story, NothingIsLost, ProposalsDiffer, Effective
<1>2. Story => NothingIsLost
  BY DEF Story
<1> QED BY <1>1, <1>2, AlwaysUpToDate, StoryInductive, PTL DEF Spec

-----------------------------------------------------------------------------
(* The four ways a step changes the store, each as if it were planned from  *)
(* the effective revision.                                                  *)
Created ==
  /\ revisions = << >> /\ Len(revisions') = 1 /\ revisions'[1].source = 0
  /\ UNCHANGED << proposals, decisions >>

Extended(r) ==
  /\ revisions # << >> /\ Len(revisions') = Len(revisions) + 1
  /\ revisions'[Len(revisions) + 1] = r
  /\ \A k \in 1 .. Len(revisions) : revisions'[k] = revisions[k]
  /\ UNCHANGED proposals

Revised ==
  \E r \in Revision :
    /\ Extended(r) /\ UNCHANGED decisions
    /\ r.source = 0 /\ ~ NeedsReview(r.author, EffectiveState, r.state)

Proposed ==
  /\ UNCHANGED << revisions, decisions >>
  /\ Len(proposals') = Len(proposals) + 1
  /\ \A p \in 1 .. Len(proposals) : proposals'[p] = proposals[p]

Concluded(d) ==
  /\ d \in Decision /\ d.proposal \in 1 .. Len(proposals) /\ ~ Decided(d.proposal)
  /\ decisions' = decisions \union {d}
  /\ \/ d.decision = "Rejected" /\ UNCHANGED << revisions, proposals >>
     \/ /\ d.decision = "Accepted" /\ d.revision = Effective + 1
        /\ \E r \in Revision :
             /\ Extended(r) /\ r.source = d.proposal
             /\ \A f \in proposals[d.proposal].changed :
                  /\ r.state[f] = proposals[d.proposal].state[f]
                  /\ EffectiveState[f] = revisions[proposals[d.proposal].base].state[f]

LEMMA ExtendedBy ==
  ASSUME TypeOK, revisions # << >>, NEW r \in Revision,
         revisions' = Append(revisions, r), proposals' = proposals
  PROVE  Extended(r)
<1>1. /\ Len(revisions') = Len(revisions) + 1 /\ revisions'[Len(revisions) + 1] = r
      /\ \A k \in 1 .. Len(revisions) : revisions'[k] = revisions[k]
  BY AppendGrows DEF TypeOK
<1> QED BY <1>1 DEF Extended

LEMMA StepsWrite ==
  ASSUME UpToDate, [Next]_vars
  PROVE  UNCHANGED store \/ Created \/ Revised \/ Proposed \/ \E d : Concluded(d)
<1>1. /\ TypeOK
      /\ \A a \in Actors : calls[a] \in CallType /\ Reads(calls[a], a) /\ Known(calls[a])
  BY DEF UpToDate, Typed, TypeOK, CallType
<1>2. Len(revisions) \in Nat /\ Len(proposals) \in Nat
  BY <1>1, LenProperties DEF TypeOK
<1>3. ASSUME NEW a \in Actors, Create(a) PROVE Created
  <2> PICK state \in PlanState : InsertPlan(a, state)
    BY <1>3 DEF Create
  <2> PICK r : r = [state |-> state, changed |-> {}, author |-> a, source |-> 0]
    OBVIOUS
  <2>1. revisions = << >> /\ revisions' = << r >> /\ r.source = 0
    BY DEF InsertPlan
  <2> QED BY <2>1 DEF Created, InsertPlan
<1>4. ASSUME NEW a \in Actors, AppendPlanned(a) PROVE Revised \/ Proposed
  <2> PICK c : c = calls[a]
    OBVIOUS
  <2> PICK s, next : s = ReadState(c) /\ next = ApplyChanges(s, c.changes)
    OBVIOUS
  <2>1. c.at = "append" /\ AppendRevision(a, c.number, s, next)
    BY <1>4 DEF AppendPlanned
  <2>2. c.number = Effective /\ s = EffectiveState /\ revisions # << >>
    BY <2>1, WritersKnow DEF AppendRevision
  <2>3. s \in PlanState /\ next \in PlanState
    BY <1>1, <2>2, EffectiveTyped, ChangesApplied DEF CallType
  <2>4. CASE NeedsReview(a, s, next)
    <3> PICK q : q = [base |-> c.number, state |-> next, changed |-> DiffStates(s, next),
                      author |-> a]
      OBVIOUS
    <3>1. /\ revisions' = revisions /\ decisions' = decisions
          /\ proposals' = Append(proposals, q) /\ q \in Proposal
      <4>1. q \in Proposal
        BY <1>2, <2>2, <2>3, DiffIsFields DEF Proposal, Effective
      <4>2. revisions' = revisions /\ decisions' = decisions
        BY <2>1, <2>4 DEF AppendRevision
      <4>3. proposals' = Append(proposals, q)
        BY <2>1, <2>4 DEF AppendRevision
      <4> QED BY <4>1, <4>2, <4>3
    <3> QED BY <1>1, <3>1, AppendGrows DEF Proposed, TypeOK
  <2>5. CASE ~ NeedsReview(a, s, next)
    <3> PICK r : r = [state |-> next, changed |-> DiffStates(s, next), author |-> a, source |-> 0]
      OBVIOUS
    <3>1. /\ proposals' = proposals /\ decisions' = decisions
          /\ revisions' = Append(revisions, r) /\ r \in Revision
      BY <2>1, <2>3, <2>5, DiffIsFields DEF AppendRevision, Revision
    <3>2. r.source = 0 /\ r.author = a /\ r.state = next
      OBVIOUS
    <3>3. Extended(r)
      BY <1>1, <2>2, <3>1, ExtendedBy
    <3> QED BY <2>2, <2>5, <3>1, <3>2, <3>3 DEF Revised
  <2> QED BY <2>4, <2>5
<1>5. ASSUME NEW a \in Actors, Record(a) PROVE \E d : Concluded(d)
  <2> PICK c : c = calls[a]
    OBVIOUS
  <2> PICK s, p : s = ReadState(c) /\ p = c.proposal
    OBVIOUS
  <2>1. c.at = "record" /\ RecordDecision(a, p, c.decision, c.number, s)
    BY <1>5 DEF Record
  <2>2. c.number = Effective /\ s = EffectiveState /\ revisions # << >>
    BY <2>1, WritersKnow DEF RecordDecision
  <2>3. /\ a \in Reviewers /\ p \in 1 .. Len(proposals)
        /\ c.decision \in {"Accepted", "Rejected"} /\ s \in PlanState
        /\ c.decision = "Accepted" => StaleFields(p, s) = {}
        /\ proposals[p] \in Proposal
    BY <1>1, <2>1, <2>2, EffectiveTyped, ElementOfSeq DEF Reads, Known, TypeOK
  <2> PICK d : d = [proposal |-> p, decision |-> c.decision, reviewer |-> a,
                    revision |-> IF c.decision = "Accepted" THEN Effective + 1 ELSE 0]
    OBVIOUS
  <2>4. /\ d \in Decision /\ d.proposal = p /\ d.decision = c.decision
        /\ d.decision = "Accepted" => d.revision = Effective + 1
    BY <1>2, <2>3 DEF Decision, Effective
  <2>5. /\ ~ Decided(p) /\ decisions' = decisions \union {d} /\ proposals' = proposals
    BY <2>1 DEF RecordDecision
  <2>6. CASE c.decision = "Accepted"
    <3> PICK r : r = [state |-> Merge(p, s), changed |-> proposals[p].changed,
                      author |-> proposals[p].author, source |-> p]
      OBVIOUS
    <3>1. /\ Merge(p, s) \in PlanState
          /\ \A f \in Fields : Merge(p, s)[f] = IF f \in proposals[p].changed
                                                THEN proposals[p].state[f] ELSE s[f]
      BY <2>3, MergedState DEF Proposal
    <3>2. r \in Revision /\ revisions' = Append(revisions, r)
      <4>1. p \in Nat /\ proposals[p].changed \in SUBSET Fields /\ proposals[p].author \in Actors
        BY <1>2, <2>3 DEF Proposal
      <4>2. r \in Revision
        BY <3>1, <4>1 DEF Revision
      <4>3. revisions' = Append(revisions, r)
        BY <2>1, <2>6 DEF RecordDecision
      <4> QED BY <4>2, <4>3
    <3>3. Extended(r)
      BY <1>1, <2>2, <2>5, <3>2, ExtendedBy
    <3>4. \A f \in proposals[p].changed :
            /\ r.state[f] = proposals[p].state[f]
            /\ EffectiveState[f] = revisions[proposals[p].base].state[f]
      BY <2>2, <2>3, <2>6, <3>1 DEF StaleFields, Proposal
    <3>5. r.source = p
      OBVIOUS
    <3> QED BY <2>3, <2>4, <2>5, <2>6, <3>2, <3>3, <3>4, <3>5 DEF Concluded
  <2>7. CASE c.decision = "Rejected"
    <3>1. UNCHANGED << revisions, proposals >>
      BY <2>1, <2>7 DEF RecordDecision
    <3> QED BY <2>3, <2>4, <2>5, <2>7, <3>1 DEF Concluded
  <2> QED BY <2>3, <2>6, <2>7
<1>6. CASE UNCHANGED store
  BY <1>6
<1>7. CASE Next
  BY <1>3, <1>4, <1>5, <1>6, <1>7
     DEF Next, BeginRevise, PlanRevision, BeginReview, ReadLinks, DecideRevision, Refused
<1> QED BY <1>6, <1>7 DEF vars

(* Nobody but a reviewer closes a plan or changes a closed one, and a       *)
(* revision made from a proposal has its acceptance by a reviewer.          *)
Reviewed(k) ==
  revisions[k - 1].state.status \in Closed \/ revisions[k].state.status \in Closed
    => \/ revisions[k].source = 0 /\ revisions[k].author \in Reviewers
       \/ \E d \in decisions :
            /\ d.proposal = revisions[k].source /\ d.decision = "Accepted"
            /\ d.reviewer \in Reviewers /\ d.revision = k

THEOREM ClosingNeedsReview == Spec => []ClosingIsReviewed
<1>0. ClosingIsReviewed <=> \A k \in 2 .. Effective : Reviewed(k)
  BY DEF ClosingIsReviewed, Reviewed
<1>1. Init => \A k \in 2 .. Effective : Reviewed(k)
  BY DEF Init, StoreInit, Effective
<1>2. UpToDate /\ (\A k \in 2 .. Effective : Reviewed(k)) /\ [Next]_vars
        => (\A k \in 2 .. Effective : Reviewed(k))'
  <2> SUFFICES ASSUME UpToDate, \A k \in 2 .. Effective : Reviewed(k), [Next]_vars,
                      NEW k \in 2 .. Len(revisions')
               PROVE  Reviewed(k)'
    BY DEF Effective
  <2>1. Len(revisions) \in Nat
    BY LenProperties DEF UpToDate, Typed, TypeOK
  <2>2. ASSUME decisions \subseteq decisions', k \in 2 .. Len(revisions),
               \A i \in 1 .. Len(revisions) : revisions'[i] = revisions[i]
        PROVE  Reviewed(k)'
    <3>1. Reviewed(k) /\ revisions'[k] = revisions[k] /\ revisions'[k - 1] = revisions[k - 1]
      BY <2>1, <2>2 DEF Effective
    <3> QED BY <2>2, <3>1 DEF Reviewed
  <2>3. CASE UNCHANGED << revisions >> /\ decisions \subseteq decisions'
    BY <2>2, <2>3
  <2>4. CASE Created
    BY <2>4 DEF Created
  <2>5. ASSUME NEW r \in Revision, Extended(r), k = Len(revisions) + 1
        PROVE  revisions'[k] = r /\ revisions'[k - 1].state = EffectiveState
    <3>1. k - 1 \in 1 .. Len(revisions) /\ k - 1 = Len(revisions)
      BY <2>1, <2>5
    <3> QED BY <2>5, <3>1 DEF Extended, EffectiveState, Effective
  <2>6. ASSUME NEW r \in Revision, Extended(r)
        PROVE  k \in 2 .. Len(revisions) \/ k = Len(revisions) + 1
    BY <2>1, <2>6 DEF Extended
  <2>7. CASE Revised
    <3> PICK r \in Revision :
          /\ Extended(r) /\ UNCHANGED decisions
          /\ r.source = 0 /\ ~ NeedsReview(r.author, EffectiveState, r.state)
      BY <2>7 DEF Revised
    <3>1. CASE k \in 2 .. Len(revisions)
      BY <2>2, <3>1 DEF Extended
    <3>2. CASE k = Len(revisions) + 1
      <4>1. revisions'[k] = r /\ revisions'[k - 1].state = EffectiveState
        BY <2>5, <3>2
      <4> QED BY <4>1 DEF Reviewed, NeedsReview, Closed
    <3> QED BY <2>6, <3>1, <3>2
  <2>8. CASE Proposed
    BY <2>3, <2>8 DEF Proposed
  <2>9. ASSUME NEW d, Concluded(d) PROVE Reviewed(k)'
    <3>1. decisions' = decisions \union {d} /\ d \in Decision
      BY <2>9 DEF Concluded
    <3>2. CASE UNCHANGED revisions
      BY <2>3, <3>1, <3>2
    <3>3. CASE \E r \in Revision : Extended(r) /\ r.source = d.proposal /\ d.decision = "Accepted"
                                  /\ d.revision = Effective + 1
      <4> PICK r \in Revision : Extended(r) /\ r.source = d.proposal
        BY <3>3
      <4>1. CASE k \in 2 .. Len(revisions)
        BY <2>2, <3>1, <4>1 DEF Extended
      <4>2. CASE k = Len(revisions) + 1
        <5>1. revisions'[k] = r /\ d.revision = k /\ d.decision = "Accepted"
          BY <2>5, <3>3, <4>2 DEF Effective
        <5>2. d \in decisions' /\ d.reviewer \in Reviewers
          BY <3>1 DEF Decision
        <5> QED BY <5>1, <5>2 DEF Reviewed
      <4> QED BY <2>6, <4>1, <4>2
    <3> QED BY <2>9, <3>2, <3>3 DEF Concluded
  <2>10. CASE UNCHANGED store
    BY <2>3, <2>10 DEF store
  <2> QED BY <2>4, <2>7, <2>8, <2>9, <2>10, StepsWrite
<1> QED BY <1>0, <1>1, <1>2, AlwaysUpToDate, PTL DEF Spec

-----------------------------------------------------------------------------
(* A revision names a proposal that exists, or none; the first names none.  *)
SourcesExist ==
  /\ \A k \in 1 .. Len(revisions) : revisions[k].source \in 0 .. Len(proposals)
  /\ Len(revisions) > 0 => revisions[1].source = 0

(* What OneDecision demands of one proposal.                                *)
MadeOf(p) == {k \in 1 .. Effective : revisions[k].source = p}
AcceptancesOf(p) == {d.revision : d \in {e \in decisions : e.proposal = p /\ e.decision = "Accepted"}}

DecidedOnce(p) ==
  /\ \A d, e \in decisions : d.proposal = p /\ e.proposal = p => d = e
  /\ MadeOf(p) = AcceptancesOf(p)
  /\ \A k \in MadeOf(p), f \in proposals[p].changed :
       /\ revisions[k].state[f] = proposals[p].state[f]
       /\ revisions[k - 1].state[f] = revisions[proposals[p].base].state[f]

LEMMA RevisionCounts ==
  ASSUME Typed
  PROVE  /\ Len(revisions) \in Nat /\ Len(proposals) \in Nat /\ Effective = Len(revisions)
         /\ \A p \in 1 .. Len(proposals) : proposals[p].base \in 1 .. Len(revisions)
         /\ \A d \in decisions : d.proposal \in 1 .. Len(proposals)
  BY LenProperties DEF Typed, TypeOK, Effective

(* A proposal that no new revision and no new decision is about.            *)
LEMMA OthersDecided ==
  ASSUME Typed, SourcesExist, NEW p \in 1 .. Len(proposals), DecidedOnce(p),
         proposals'[p] = proposals[p],
         \A k \in 1 .. Len(revisions) : revisions'[k] = revisions[k],
         \/ Len(revisions') = Len(revisions)
         \/ /\ Len(revisions') = Len(revisions) + 1
            /\ revisions'[Len(revisions) + 1].source # p,
         \A d : d \in decisions' /\ d.proposal = p <=> d \in decisions /\ d.proposal = p
  PROVE  DecidedOnce(p)'
<1>1. MadeOf(p)' = MadeOf(p)
  BY RevisionCounts DEF MadeOf, Effective
<1>2. AcceptancesOf(p)' = AcceptancesOf(p)
  BY DEF AcceptancesOf
<1>3. ASSUME NEW k \in MadeOf(p)
      PROVE  revisions'[k] = revisions[k] /\ revisions'[k - 1] = revisions[k - 1]
  <2>1. k \in 1 .. Len(revisions) /\ k # 1
    BY RevisionCounts DEF MadeOf, SourcesExist
  <2> QED BY <2>1, RevisionCounts
<1>4. revisions'[proposals[p].base] = revisions[proposals[p].base]
  BY RevisionCounts
<1> QED BY <1>1, <1>2, <1>3, <1>4 DEF DecidedOnce

LEMMA OneDecisionInductive ==
  ASSUME UpToDate, SourcesExist, \A p \in 1 .. Len(proposals) : DecidedOnce(p), [Next]_vars
  PROVE  SourcesExist' /\ \A p \in 1 .. Len(proposals') : DecidedOnce(p)'
<1>1. /\ Typed /\ Len(revisions) \in Nat /\ Len(proposals) \in Nat /\ Effective = Len(revisions)
      /\ \A p \in 1 .. Len(proposals) : proposals[p].base \in 1 .. Len(revisions)
      /\ \A d \in decisions : d.proposal \in 1 .. Len(proposals)
  BY RevisionCounts DEF UpToDate
<1>2. CASE UNCHANGED store
  BY <1>1, <1>2, OthersDecided DEF store, SourcesExist
<1>3. CASE Created
  <2>1. Len(revisions) = 0 /\ proposals' = proposals /\ Len(revisions') = 1
        /\ revisions'[1].source = 0
    BY <1>3 DEF Created
  <2>2. \A p \in 1 .. Len(proposals) : FALSE
    BY <1>1, <2>1
  <2> QED BY <2>1, <2>2, <1>1 DEF SourcesExist
<1>4. ASSUME NEW r, Extended(r)
      PROVE  /\ Len(revisions) > 0
             /\ r.source \in 0 .. Len(proposals) => SourcesExist'
  <2>1. Len(revisions) > 0
    BY <1>1, <1>4, EmptySeq DEF Extended, Typed, TypeOK
  <2> QED BY <1>1, <1>4, <2>1 DEF Extended, SourcesExist
<1>5. CASE Revised
  <2> PICK r \in Revision : Extended(r) /\ UNCHANGED decisions /\ r.source = 0
    BY <1>5 DEF Revised
  <2>1. SourcesExist'
    BY <1>1, <1>4
  <2> QED BY <1>1, <2>1, OthersDecided DEF Extended
<1>6. CASE Proposed
  <2>1. SourcesExist'
    BY <1>1, <1>6 DEF SourcesExist, Proposed
  <2>2. \A p \in 1 .. Len(proposals) : DecidedOnce(p)'
    BY <1>1, <1>6, OthersDecided DEF Proposed
  <2> PICK m : m = Len(proposals) + 1
    OBVIOUS
  <2>3. MadeOf(m)' = {} /\ AcceptancesOf(m)' = {} /\ \A d \in decisions' : d.proposal # m
    BY <1>1, <1>6 DEF Proposed, MadeOf, AcceptancesOf, SourcesExist, Effective
  <2>4. DecidedOnce(m)'
    BY <2>3 DEF DecidedOnce
  <2>5. 1 .. Len(proposals') = 1 .. Len(proposals) \union {m}
    BY <1>1, <1>6 DEF Proposed
  <2> QED BY <2>1, <2>2, <2>4, <2>5
<1>7. ASSUME NEW d, Concluded(d)
      PROVE  SourcesExist' /\ \A p \in 1 .. Len(proposals') : DecidedOnce(p)'
  <2> PICK q \in 1 .. Len(proposals) : q = d.proposal
    BY <1>7 DEF Concluded
  <2>1. /\ decisions' = decisions \union {d} /\ proposals' = proposals
        /\ \A e \in decisions : e.proposal # q
    BY <1>7 DEF Concluded, Decided, Extended
  <2>2. MadeOf(q) = {} /\ AcceptancesOf(q) = {}
    BY <2>1 DEF DecidedOnce, AcceptancesOf
  <2>3. \A e, g \in decisions' : e.proposal = q /\ g.proposal = q => e = g
    BY <2>1
  <2>4. CASE d.decision = "Rejected" /\ UNCHANGED << revisions, proposals >>
    <3>1. SourcesExist' /\ \A p \in 1 .. Len(proposals) \ {q} : DecidedOnce(p)'
      BY <1>1, <2>1, <2>4, OthersDecided DEF SourcesExist
    <3>2. MadeOf(q)' = {} /\ AcceptancesOf(q)' = {}
      BY <2>1, <2>2, <2>4 DEF MadeOf, AcceptancesOf, Effective
    <3>3. DecidedOnce(q)'
      BY <2>3, <3>2 DEF DecidedOnce
    <3> QED BY <2>1, <3>1, <3>3
  <2>5. ASSUME d.decision = "Accepted", d.revision = Effective + 1, NEW r \in Revision,
               Extended(r), r.source = q,
               \A f \in proposals[q].changed :
                  /\ r.state[f] = proposals[q].state[f]
                  /\ EffectiveState[f] = revisions[proposals[q].base].state[f]
        PROVE  SourcesExist' /\ \A p \in 1 .. Len(proposals') : DecidedOnce(p)'
    <3> PICK m : m = Len(revisions) + 1
      OBVIOUS
    <3>1. /\ Len(revisions') = m /\ revisions'[m] = r /\ m - 1 \in 1 .. Len(revisions)
          /\ m - 1 = Effective
          /\ \A k \in 1 .. Len(revisions) : revisions'[k] = revisions[k]
      BY <1>1, <1>4, <2>5 DEF Extended
    <3>2. SourcesExist'
      BY <1>1, <1>4, <2>5
    <3>3. \A p \in 1 .. Len(proposals) \ {q} : DecidedOnce(p)'
      BY <1>1, <2>1, <2>5, <3>1, OthersDecided
    <3>4. MadeOf(q)' = {m}
      <4>1. \A k \in 1 .. Len(revisions) : revisions'[k].source # q
        BY <1>1, <2>2, <3>1 DEF MadeOf
      <4>2. 1 .. Len(revisions') = 1 .. Len(revisions) \union {m}
        BY <1>1, <3>1
      <4> QED BY <2>5, <3>1, <4>1, <4>2 DEF MadeOf, Effective
    <3>5. AcceptancesOf(q)' = {m}
      BY <1>1, <2>1, <2>5 DEF AcceptancesOf
    <3>6. \A f \in proposals[q].changed :
            /\ revisions'[m].state[f] = proposals[q].state[f]
            /\ revisions'[m - 1].state[f] = revisions'[proposals[q].base].state[f]
      <4>1. revisions'[m - 1].state = EffectiveState
        BY <3>1 DEF EffectiveState
      <4>2. revisions'[proposals[q].base] = revisions[proposals[q].base]
        BY <1>1, <3>1
      <4> QED BY <2>5, <3>1, <4>1, <4>2
    <3>7. DecidedOnce(q)'
      BY <2>1, <2>3, <3>4, <3>5, <3>6 DEF DecidedOnce
    <3> QED BY <2>1, <3>2, <3>3, <3>7
  <2> QED BY <1>7, <2>4, <2>5 DEF Concluded
<1> QED BY <1>2, <1>3, <1>5, <1>6, <1>7, StepsWrite

(* However reviewers race, a proposal is decided once, and its acceptance   *)
(* is one revision that makes its changes to the values it was written for. *)
THEOREM ProposalsAreDecidedOnce == Spec => []OneDecision
<1> DEFINE Inv == SourcesExist /\ \A p \in 1 .. Len(proposals) : DecidedOnce(p)
<1>1. Init => Inv
  BY DEF Init, StoreInit, SourcesExist
<1>2. UpToDate /\ Inv /\ [Next]_vars => Inv'
  BY OneDecisionInductive
<1>3. Inv => OneDecision
  BY DEF OneDecision, DecidedOnce, MadeOf, AcceptancesOf
<1> QED BY <1>1, <1>2, <1>3, AlwaysUpToDate, PTL DEF Spec

(* Reviews decide: a plan is closed or reopened only through one who may,   *)
(* and what becomes of a proposal is settled by one decision of it (decide  *)
(* and the transactions of packages/sqlite/src/planned.ts).                 *)
THEOREM ReviewsAreDecisive == Spec => []ReviewsDecide
<1>1. ClosingIsReviewed /\ OneDecision => ReviewsDecide
  BY DEF ReviewsDecide
<1> QED BY <1>1, ClosingNeedsReview, ProposalsAreDecidedOnce, PTL

=============================================================================
