----------------------------- MODULE PlanStore -----------------------------
(***************************************************************************)
(* One plan in the store: its creation record, its revisions, the plan     *)
(* revision proposals and their decisions (packages/core/src/planned.ts,   *)
(* packages/sqlite/src/planned.ts, migration 006), with the rules that say *)
(* what a change leads to and the transactions that record it.             *)
(*                                                                         *)
(* Of the nine fields of a plan two are kept: its status, which is a       *)
(* column of the row, and its linked Nodes, which are rows of their own    *)
(* and are read by another statement.  Only Nodes with accepted knowledge  *)
(* can be linked; accepted knowledge never goes away (module Lifecycle),   *)
(* so that test cannot become stale.                                       *)
(***************************************************************************)
EXTENDS Naturals, Sequences

CONSTANTS
  Actors,         (* whoever creates, revises and reviews plans             *)
  Reviewers,      (* the actors the policy lets decide                      *)
  Statuses,       (* the plan statuses in use                               *)
  LinkNodes,      (* the Nodes that can be linked                           *)
  MaxRevisions,   (* bound on the revisions of the plan                     *)
  MaxProposals    (* bound on its revision proposals                        *)

ASSUME PlanConstants ==
  /\ Reviewers \subseteq Actors
  /\ Statuses \subseteq {"Proposed", "Deferred", "Ready", "InProgress", "Completed", "Cancelled"}
  /\ MaxRevisions \in Nat /\ MaxProposals \in Nat

VARIABLES
  revisions,      (* by revision number; the first is the creation record   *)
  proposals,      (* plan revision proposals; an id is a position           *)
  decisions       (* planned_knowledge_revision_decisions                   *)

store == << revisions, proposals, decisions >>

Closed == {"Completed", "Cancelled"}
Fields == {"status", "links"}
PlanState == [status : Statuses, links : SUBSET LinkNodes]

(* What a caller asks for: perhaps a status, links to add and to remove.    *)
Changes ==
  {c \in [status : Statuses \union {"kept"}, add : SUBSET LinkNodes,
          remove : SUBSET LinkNodes] : c.add \intersect c.remove = {}}

(* The effective revision: the view takes the greatest number.              *)
Effective == Len(revisions)
EffectiveState == revisions[Effective].state

Decided(p) == \E d \in decisions : d.proposal = p

-----------------------------------------------------------------------------
ApplyChanges(current, c) ==
  [status |-> IF c.status = "kept" THEN current.status ELSE c.status,
   links  |-> (current.links \union c.add) \ c.remove]

DiffStates(current, next) == {f \in Fields : current[f] # next[f]}

(* Mutant of NeedsReview: a change that leaves a plan closed passes.        *)
NeedsReviewToClose(actor, current, next) ==
  /\ next.status \in Closed /\ next.status # current.status
  /\ actor \notin Reviewers

(* Closing a plan, and any change of a closed plan, needs someone who may   *)
(* decide.                                                                  *)
NeedsReview(actor, current, next) ==
  /\ \/ next.status \in Closed /\ next.status # current.status
     \/ current.status \in Closed
  /\ actor \notin Reviewers

(* The fields of a proposal that no longer have the values of its base.     *)
StaleFields(p, current) ==
  {f \in proposals[p].changed : revisions[proposals[p].base].state[f] # current[f]}

(* The proposal's changed fields on top of the effective state.             *)
Merge(p, current) ==
  LET q == proposals[p]  field(f) == IF f \in q.changed THEN q.state[f] ELSE current[f]
  IN [status |-> field("status"), links |-> field("links")]

-----------------------------------------------------------------------------
StoreInit == revisions = << >> /\ proposals = << >> /\ decisions = {}

(* createPlannedKnowledge, with any status.                                 *)
InsertPlan(actor, state) ==
  /\ revisions = << >>
  /\ revisions' = << [state |-> state, changed |-> {}, author |-> actor, source |-> 0] >>
  /\ UNCHANGED << proposals, decisions >>

(* Mutant of AppendRevision: the number is taken in the transaction, the    *)
(* state is the one planned from what had been read.                        *)
AppendRenumbered(actor, number, current, next) ==
  /\ IF NeedsReview(actor, current, next)
     THEN /\ Len(proposals) < MaxProposals
          /\ proposals' = Append(proposals,
               [base |-> number, state |-> next,
                changed |-> DiffStates(current, next), author |-> actor])
          /\ UNCHANGED revisions
     ELSE /\ Effective < MaxRevisions
          /\ revisions' = Append(revisions,
               [state |-> next, changed |-> DiffStates(current, next),
                author |-> actor, source |-> 0])
          /\ UNCHANGED proposals
  /\ UNCHANGED decisions

(* appendPlannedKnowledgeRevision: one transaction, given the number and    *)
(* state of the revision the change was planned from.                       *)
AppendRevision(actor, number, current, next) ==
  /\ Effective = number
  /\ IF NeedsReview(actor, current, next)
     THEN /\ Len(proposals) < MaxProposals
          /\ proposals' = Append(proposals,
               [base |-> number, state |-> next,
                changed |-> DiffStates(current, next), author |-> actor])
          /\ UNCHANGED revisions
     ELSE /\ Effective < MaxRevisions
          /\ revisions' = Append(revisions,
               [state |-> next, changed |-> DiffStates(current, next),
                author |-> actor, source |-> 0])
          /\ UNCHANGED proposals
  /\ UNCHANGED decisions

(* Mutant of RecordDecision: it relies on the reviewer's earlier look at    *)
(* the decisions.                                                           *)
RecordAgain(reviewer, p, decision, number, current) ==
  /\ Effective = number
  /\ decision = "Accepted" => Effective < MaxRevisions
  /\ revisions' =
       IF decision = "Accepted"
       THEN Append(revisions, [state |-> Merge(p, current), changed |-> proposals[p].changed,
                               author |-> proposals[p].author, source |-> p])
       ELSE revisions
  /\ decisions' = decisions \union
       {[proposal |-> p, decision |-> decision, reviewer |-> reviewer,
         revision |-> IF decision = "Accepted" THEN Effective + 1 ELSE 0]}
  /\ UNCHANGED proposals

(* recordPlannedKnowledgeRevisionDecision: one transaction, given the       *)
(* number and state of the revision the reviewer decided on.                *)
RecordDecision(reviewer, p, decision, number, current) ==
  /\ ~ Decided(p)
  /\ Effective = number
  /\ decision = "Accepted" => Effective < MaxRevisions
  /\ revisions' =
       IF decision = "Accepted"
       THEN Append(revisions, [state |-> Merge(p, current), changed |-> proposals[p].changed,
                               author |-> proposals[p].author, source |-> p])
       ELSE revisions
  /\ decisions' = decisions \union
       {[proposal |-> p, decision |-> decision, reviewer |-> reviewer,
         revision |-> IF decision = "Accepted" THEN Effective + 1 ELSE 0]}
  /\ UNCHANGED proposals
=============================================================================
