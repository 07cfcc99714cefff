-------------------------- MODULE PlannedKnowledge --------------------------
(***************************************************************************)
(* PlannedKnowledgeService (packages/core/src/planned.ts) used by several  *)
(* processes at once.                                                      *)
(*                                                                         *)
(* A call reads the plan with one statement for the effective row and one  *)
(* for the effective links, a review also the history with its decisions;  *)
(* it decides on what it has read and only then opens the transaction that *)
(* records the change.  Other calls commit between any two of these steps, *)
(* so a plan can be read that never existed: the row of one revision with  *)
(* the links of a later one.                                               *)
(***************************************************************************)
EXTENDS PlanStore

VARIABLE
  calls           (* the call each actor has under way                      *)

vars == << store, calls >>

Places == {"idle", "revise", "append", "review", "decide", "record"}
NoChanges == [status |-> "kept", add |-> {}, remove |-> {}]
Idle == [at |-> "idle", changes |-> NoChanges, proposal |-> 0, decision |-> "none",
         number |-> 0, status |-> "none", links |-> {}]

(* The plan as a call has read it.                                          *)
ReadState(c) == [status |-> c.status, links |-> c.links]

Init == StoreInit /\ calls = [a \in Actors |-> Idle]

Goto(a, c) == calls' = [calls EXCEPT ![a] = c]

Create(a) ==
  /\ \E state \in PlanState : InsertPlan(a, state)
  /\ UNCHANGED calls

(* The row of the effective revision: its number and its status.  A call    *)
(* that changes nothing whatever the links are writes nothing.              *)
BeginRevise(a, changes) ==
  /\ calls[a].at = "idle" /\ revisions # << >>
  /\ \/ changes.status \notin {"kept", EffectiveState.status}
     \/ changes.add # {} \/ changes.remove # {}
  /\ Goto(a, [Idle EXCEPT !.at = "revise", !.changes = changes,
                          !.number = Effective, !.status = EffectiveState.status])
  /\ UNCHANGED store

(* The links; the change is planned, or refused when it changes nothing.    *)
PlanRevision(a) ==
  LET c == [calls[a] EXCEPT !.at = "append", !.links = EffectiveState.links]
      next == ApplyChanges(ReadState(c), c.changes)
  IN
  /\ calls[a].at = "revise"
  /\ Goto(a, IF DiffStates(ReadState(c), next) = {} THEN Idle ELSE c)
  /\ UNCHANGED store

AppendPlanned(a) ==
  LET c == calls[a] IN
  /\ c.at = "append"
  /\ AppendRevision(a, c.number, ReadState(c), ApplyChanges(ReadState(c), c.changes))
  /\ Goto(a, Idle)

(* A review: the proposal, which is immutable, and the effective row.       *)
BeginReview(a, p, decision) ==
  /\ calls[a].at = "idle" /\ a \in Reviewers
  /\ Goto(a, [Idle EXCEPT !.at = "review", !.proposal = p, !.decision = decision,
                          !.number = Effective, !.status = EffectiveState.status])
  /\ UNCHANGED store

ReadLinks(a) ==
  /\ calls[a].at = "review"
  /\ Goto(a, [calls[a] EXCEPT !.at = "decide", !.links = EffectiveState.links])
  /\ UNCHANGED store

(* The history with its decisions; an acceptance needs that the fields of   *)
(* the proposal still have the values of its base.                          *)
DecideRevision(a) ==
  LET c == calls[a] IN
  /\ c.at = "decide"
  /\ Goto(a, IF \/ Decided(c.proposal)
                \/ c.decision = "Accepted" /\ StaleFields(c.proposal, ReadState(c)) # {}
             THEN Idle ELSE [c EXCEPT !.at = "record"])
  /\ UNCHANGED store

Record(a) ==
  LET c == calls[a] IN
  /\ c.at = "record"
  /\ RecordDecision(a, c.proposal, c.decision, c.number, ReadState(c))
  /\ Goto(a, Idle)

(* The plan changed concurrently, or the proposal was decided: nothing is   *)
(* written.                                                                 *)
Refused(a) ==
  LET c == calls[a] IN
  /\ c.at \in {"append", "record"}
  /\ c.number # Effective \/ (c.at = "record" /\ Decided(c.proposal))
  /\ Goto(a, Idle)
  /\ UNCHANGED store

Next ==
  \E a \in Actors :
    \/ Create(a)
    \/ \E changes \in Changes : BeginRevise(a, changes)
    \/ PlanRevision(a)
    \/ AppendPlanned(a)
    \/ \E p \in 1 .. Len(proposals), decision \in {"Accepted", "Rejected"} :
         BeginReview(a, p, decision)
    \/ ReadLinks(a)
    \/ DecideRevision(a)
    \/ Record(a)
    \/ Refused(a)

Spec == Init /\ [][Next]_vars
-----------------------------------------------------------------------------
(* Properties.                                                             *)

Revision == [state : PlanState, changed : SUBSET Fields, author : Actors, source : Nat]
Proposal == [base : Nat, state : PlanState, changed : SUBSET Fields, author : Actors]
Decision == [proposal : Nat, decision : {"Accepted", "Rejected"}, reviewer : Reviewers,
             revision : Nat]

(* The tables hold rows of their schema, and a row names existing rows      *)
(* (CHECK, UNIQUE and FOREIGN KEY clauses of migration 006).                *)
TypeOK ==
  /\ revisions \in Seq(Revision)
  /\ proposals \in Seq(Proposal)
  /\ \A p \in 1 .. Len(proposals) : proposals[p].base \in 1 .. Effective
  /\ decisions \subseteq Decision
  /\ \A d \in decisions : d.proposal \in 1 .. Len(proposals)
  /\ calls \in [Actors -> [at : Places, changes : Changes, proposal : 0 .. Len(proposals),
                           decision : {"none", "Accepted", "Rejected"}, number : 0 .. Effective,
                           status : Statuses \union {"none"}, links : SUBSET LinkNodes]]

(* ADR-006: "Unchanged fields are carried over", "Nothing is lost".  A      *)
(* revision differs from the one before exactly in the fields it says it    *)
(* changed, whatever its author had read and whoever wrote meanwhile.       *)
NothingIsLost ==
  \A k \in 2 .. Effective :
    /\ revisions[k].changed # {}
    /\ revisions[k].changed = DiffStates(revisions[k - 1].state, revisions[k].state)

(* ADR-006, section 2: a plan is closed, and a closed plan is changed, only *)
(* by a reviewer, or by a revision proposal a reviewer accepted.            *)
ClosingIsReviewed ==
  \A k \in 2 .. Effective :
    LET r == revisions[k] IN
    (revisions[k - 1].state.status \in Closed \/ r.state.status \in Closed)
      => \/ r.source = 0 /\ r.author \in Reviewers
         \/ \E d \in decisions :
              /\ d.proposal = r.source /\ d.decision = "Accepted"
              /\ d.reviewer \in Reviewers /\ d.revision = k

(* However reviewers race, a proposal is decided once; an accepted one has  *)
(* one revision, which makes its changes to the values it was written for,  *)
(* and a rejected or undecided one has none.                                *)
OneDecision ==
  \A p \in 1 .. Len(proposals) :
    LET made == {k \in 1 .. Effective : revisions[k].source = p} IN
    /\ \A d, e \in decisions : d.proposal = p /\ e.proposal = p => d = e
    /\ made = {d.revision : d \in {e \in decisions : e.proposal = p /\ e.decision = "Accepted"}}
    /\ \A k \in made, f \in proposals[p].changed :
         /\ revisions[k].state[f] = proposals[p].state[f]
         /\ revisions[k - 1].state[f] = revisions[proposals[p].base].state[f]

(* What the reviewers of plans decide, they alone decide, and once.         *)
ReviewsDecide == ClosingIsReviewed /\ OneDecision

(* Every interleaving of the callers' reads, decisions and transactions is  *)
(* one in which each change and each review happens in one step.            *)
Atomic == INSTANCE PlanAtomic

ImplementsAtomicPlan == Atomic!AtomicSpec
=============================================================================
