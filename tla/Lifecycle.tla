------------------------------ MODULE Lifecycle ------------------------------
(***************************************************************************)
(* The knowledge lifecycle: Proposals, Review Decisions, Rollback Events,  *)
(* immutable Revisions, their lineage and the Current pointer              *)
(* (packages/core/src/service.ts over packages/sqlite/src/adapter.ts).     *)
(*                                                                         *)
(* Every write of the store is one BEGIN IMMEDIATE ... COMMIT on SQLite,   *)
(* rolled back as a whole when it throws, so it is one action here; a      *)
(* refused write and a crash inside the transaction leave no trace and are *)
(* stuttering steps.  What a process reads BEFORE its transaction is not   *)
(* protected: a client reads Current in one step and submits a Successor   *)
(* against what it saw in a later one.                                     *)
(*                                                                         *)
(* The append-only tables are sequences, a row's id is its position in its *)
(* table, and 0 is SQL's NULL.  A scope stands for a (project, scope)      *)
(* pair: every query filters on both columns.  Titles, content, evidence   *)
(* lists and timestamps are abstracted away.                               *)
(***************************************************************************)
EXTENDS Naturals, Sequences

CONSTANTS
  Nodes,          (* the Node ids a caller may name in an Initial Proposal  *)
  Scopes,         (* (project, scope) pairs                                 *)
  Clients,        (* callers that read Current and then submit a Successor  *)
  MaxProposals,   (* bound on the rows of knowledge_proposals               *)
  MaxRollbacks    (* bound on the rows of rollback_events                   *)

ASSUME LifecycleConstants == MaxProposals \in Nat /\ MaxRollbacks \in Nat

VARIABLES
  proposals,      (* knowledge_proposals; only status is ever updated       *)
  decisions,      (* review_decisions, one per Proposal                     *)
  nodes,          (* knowledge_nodes                                        *)
  revisions,      (* knowledge_revisions                                    *)
  relationships,  (* revision_relationships                                 *)
  rollbacks,      (* rollback_events                                        *)
  current,        (* current_revisions, 0 where there is no row             *)
  audits,         (* audit_events: an event type and the row it is about    *)
  seen            (* the Current revision each client has read, 0 for none  *)

vars == << proposals, decisions, nodes, revisions, relationships, rollbacks,
           current, audits, seen >>

-----------------------------------------------------------------------------
(* The rows of the tables.                                                 *)

Kinds == {"Initial", "Successor", "Restoration"}
Statuses == {"Submitted", "Accepted", "Rejected"}
RelationshipTypes == {"DirectPredecessor", "Supersedes", "Reverts", "RestoredFrom"}

Proposal ==
  [kind : Kinds, node : Nodes, scope : Scopes, status : Statuses,
   expected : Nat, rollback : Nat, source : Nat]
Revision == [proposal : Nat, node : Nodes, scope : Scopes]
Relationship == [type : RelationshipTypes, from : Nat, to : Nat, rollback : Nat]
Rollback == [node : Nodes, scope : Scopes, reverted : Nat, source : Nat]
Decision == [proposal : Nat, decision : {"Accepted", "Rejected"}]

ProposalIds == 1 .. Len(proposals)
RevisionIds == 1 .. Len(revisions)
RollbackIds == 1 .. Len(rollbacks)
NextRevision == Len(revisions) + 1

-----------------------------------------------------------------------------
(* Lineage.                                                                *)

DirectPredecessors == {e \in relationships : e.type = "DirectPredecessor"}

Predecessors(r) == {e.to : e \in {d \in DirectPredecessors : d.from = r}}

ClosedUnderPredecessor(S) == \A r \in S : Predecessors(r) \subseteq S

(* The walk along DirectPredecessor from `descendant` meets `ancestor`: the *)
(* revisions it visits are the least set that holds `descendant` and is     *)
(* closed under predecessor.                                                *)
IsAncestor(ancestor, descendant) ==
  \A S \in SUBSET RevisionIds :
     descendant \in S /\ ClosedUnderPredecessor(S) => ancestor \in S

(* What the History walk visits when it starts at `head`.                   *)
Lineage(head) == {r \in RevisionIds : head \in RevisionIds /\ IsAncestor(r, head)}

(* The accepted Revisions of a Node in a scope, as a query on the table.    *)
Accepted(n, s) == {r \in RevisionIds : revisions[r].node = n /\ revisions[r].scope = s}

(* The Rollback Event a Restoration Proposal names says the same as it.     *)
MatchesRollback(p) ==
  /\ p.rollback \in RollbackIds
  /\ rollbacks[p.rollback] =
       [node |-> p.node, scope |-> p.scope, reverted |-> p.expected, source |-> p.source]

-----------------------------------------------------------------------------
(* Audit events, written in the same transaction as what they record.      *)

Audited(types, id) == {[type |-> t, of |-> id] : t \in types}

SubmissionAudit(kind) ==
  CASE kind = "Initial"     -> "ProposalSubmitted"
    [] kind = "Successor"   -> "SuccessorProposalSubmitted"
    [] kind = "Restoration" -> "RestorationProposalSubmitted"

AcceptanceAudits(kind) ==
  {"ReviewDecisionRecorded"} \union
  (CASE kind = "Initial" ->
          {"KnowledgeNodeCreated", "KnowledgeRevisionCreated",
           "CurrentRevisionAssigned", "ProposalAccepted"}
     [] kind = "Successor" ->
          {"KnowledgeRevisionCreated", "RevisionSuperseded",
           "CurrentRevisionChanged", "SuccessorProposalAccepted"}
     [] kind = "Restoration" ->
          {"RestorationRevisionCreated", "RevisionSuperseded",
           "CurrentRevisionChanged", "RestorationProposalAccepted"})

RejectionAudits(kind) ==
  {"ReviewDecisionRecorded",
   CASE kind = "Initial"     -> "ProposalRejected"
     [] kind = "Successor"   -> "SuccessorProposalRejected"
     [] kind = "Restoration" -> "RestorationProposalRejected"}

-----------------------------------------------------------------------------
Init ==
  /\ proposals = <<>>
  /\ decisions = {}
  /\ nodes = {}
  /\ revisions = <<>>
  /\ relationships = {}
  /\ rollbacks = <<>>
  /\ current = [n \in Nodes |-> [s \in Scopes |-> 0]]
  /\ audits = {}
  /\ seen = [c \in Clients |-> 0]

(* store.submitProposal: the row, its links and its audit event.            *)
InsertProposal(p) ==
  /\ Len(proposals) < MaxProposals
  /\ proposals' = Append(proposals, p)
  /\ audits' = audits \union Audited({SubmissionAudit(p.kind)}, Len(proposals) + 1)
  /\ UNCHANGED << decisions, nodes, revisions, relationships, rollbacks, current >>

(* assertCurrent of the store.                                              *)
IsCurrent(n, s, expected) == expected # 0 /\ current[n][s] = expected

(* An Initial Proposal may name any Node id: nothing is checked before      *)
(* acceptance.                                                              *)
SubmitInitial(n, s) ==
  /\ InsertProposal([kind |-> "Initial", node |-> n, scope |-> s,
                     status |-> "Submitted", expected |-> 0, rollback |-> 0,
                     source |-> 0])
  /\ UNCHANGED seen

(* getCurrentKnowledge by a client, in a read of its own.                   *)
ReadCurrent(c, n, s) ==
  /\ seen[c] = 0
  /\ current[n][s] # 0
  /\ seen' = [seen EXCEPT ![c] = current[n][s]]
  /\ UNCHANGED << proposals, decisions, nodes, revisions, relationships,
                  rollbacks, current, audits >>

(* The client submits what it wrote against the revision it had read; the   *)
(* transaction compares that revision with the Current pointer.             *)
SubmitSuccessor(c) ==
  LET r == seen[c] IN
  /\ r # 0
  /\ IsCurrent(revisions[r].node, revisions[r].scope, r)
  /\ InsertProposal([kind |-> "Successor", node |-> revisions[r].node,
                     scope |-> revisions[r].scope, status |-> "Submitted",
                     expected |-> r, rollback |-> 0, source |-> 0])
  /\ seen' = [seen EXCEPT ![c] = 0]

(* CurrentRevisionMismatchError: the revision the client had read is no     *)
(* longer Current; nothing is written and the client starts over.           *)
SubmitSuccessorRefused(c) ==
  LET r == seen[c] IN
  /\ r # 0
  /\ ~ IsCurrent(revisions[r].node, revisions[r].scope, r)
  /\ seen' = [seen EXCEPT ![c] = 0]
  /\ UNCHANGED << proposals, decisions, nodes, revisions, relationships,
                  rollbacks, current, audits >>

(* A Rollback Event on the Current revision, naming an older revision of    *)
(* the same lineage as the semantic source.  Current does not move.         *)
RecordRollback(n, s, reverted, source) ==
  /\ Len(rollbacks) < MaxRollbacks
  /\ IsCurrent(n, s, reverted)
  /\ reverted # source
  /\ IsAncestor(source, reverted)
  /\ rollbacks' = Append(rollbacks, [node |-> n, scope |-> s,
                                     reverted |-> reverted, source |-> source])
  /\ audits' = audits \union Audited({"RollbackRecorded"}, Len(rollbacks) + 1)
  /\ UNCHANGED << proposals, decisions, nodes, revisions, relationships, current, seen >>

(* submitRestorationProposal copies the Rollback Event into the Proposal;   *)
(* Rollback Events are immutable, so its earlier read of the event cannot   *)
(* go stale, and its test that there is a Current revision is implied by    *)
(* the one inside the transaction.                                          *)
SubmitRestoration(b) ==
  LET e == rollbacks[b]
      p == [kind |-> "Restoration", node |-> e.node, scope |-> e.scope,
            status |-> "Submitted", expected |-> e.reverted, rollback |-> b,
            source |-> e.source]
  IN
  /\ IsCurrent(p.node, p.scope, p.expected)
  /\ MatchesRollback(p)
  /\ InsertProposal(p)
  /\ UNCHANGED seen

-----------------------------------------------------------------------------
(* reviewProposal.  The first test of every review is that the Proposal is  *)
(* still Submitted; the decision row, the status and the audit events       *)
(* follow in the same transaction.                                          *)

(* Mutant of Decide: the test that the Proposal is undecided is lost.       *)
DecideAgain(p, decision, types) ==
  /\ decisions' = decisions \union {[proposal |-> p, decision |-> decision]}
  /\ proposals' = [proposals EXCEPT ![p].status = decision]
  /\ audits' = audits \union Audited(types, p)
  /\ UNCHANGED << rollbacks, seen >>

Decide(p, decision, types) ==
  /\ proposals[p].status = "Submitted"
  /\ decisions' = decisions \union {[proposal |-> p, decision |-> decision]}
  /\ proposals' = [proposals EXCEPT ![p].status = decision]
  /\ audits' = audits \union Audited(types, p)
  /\ UNCHANGED << rollbacks, seen >>

(* Rejection never looks at Current: a stale Proposal can still be rejected. *)
Reject(p) ==
  /\ Decide(p, "Rejected", RejectionAudits(proposals[p].kind))
  /\ UNCHANGED << nodes, revisions, relationships, current >>

(* Mutant of NewRelationships: what is reverted and what is restored are    *)
(* swapped.                                                                 *)
SwappedRestoration(p, r) ==
  LET link(type, to, rollback) ==
        [type |-> type, from |-> r, to |-> to, rollback |-> rollback]
      succession == {link("DirectPredecessor", p.expected, 0), link("Supersedes", p.expected, 0)}
  IN (IF p.kind = "Initial" THEN {} ELSE succession) \union
     (IF p.kind = "Restoration"
      THEN {link("Reverts", p.source, p.rollback), link("RestoredFrom", p.expected, p.rollback)}
      ELSE {})

(* The relationships insertLineage writes for an accepted Proposal.         *)
NewRelationships(p, r) ==
  LET link(type, to, rollback) ==
        [type |-> type, from |-> r, to |-> to, rollback |-> rollback]
      succession == {link("DirectPredecessor", p.expected, 0), link("Supersedes", p.expected, 0)}
  IN (IF p.kind = "Initial" THEN {} ELSE succession) \union
     (IF p.kind = "Restoration"
      THEN {link("Reverts", p.expected, p.rollback), link("RestoredFrom", p.source, p.rollback)}
      ELSE {})

(* The Revision of an accepted Proposal becomes the end of its lineage.     *)
CreateRevision(p) ==
  LET q == proposals[p] IN
  /\ revisions' = Append(revisions, [proposal |-> p, node |-> q.node, scope |-> q.scope])
  /\ relationships' = relationships \union NewRelationships(q, NextRevision)
  /\ current' = [current EXCEPT ![q.node][q.scope] = NextRevision]

(* Mutant of AcceptInitial: an existing Node is taken over (INSERT OR       *)
(* IGNORE INTO knowledge_nodes).                                            *)
AcceptInitialAgain(p) ==
  /\ proposals[p].kind = "Initial"
  /\ Decide(p, "Accepted", AcceptanceAudits("Initial"))
  /\ nodes' = nodes \union {proposals[p].node}
  /\ CreateRevision(p)

(* Accepting an Initial Proposal creates the Node.  knowledge_nodes.id is   *)
(* the primary key, so a second one for the same Node id fails and the      *)
(* whole review is rolled back.                                             *)
AcceptInitial(p) ==
  /\ proposals[p].kind = "Initial"
  /\ proposals[p].node \notin nodes
  /\ Decide(p, "Accepted", AcceptanceAudits("Initial"))
  /\ nodes' = nodes \union {proposals[p].node}
  /\ CreateRevision(p)

(* Mutant of AcceptSuccessor: staleness is only checked at submission.      *)
AcceptStaleSuccessor(p) ==
  /\ proposals[p].kind = "Successor"
  /\ Decide(p, "Accepted", AcceptanceAudits("Successor"))
  /\ CreateRevision(p)
  /\ UNCHANGED nodes

(* Accepting a Successor: its predecessor must still be Current.            *)
AcceptSuccessor(p) ==
  LET q == proposals[p] IN
  /\ q.kind = "Successor"
  /\ IsCurrent(q.node, q.scope, q.expected)
  /\ Decide(p, "Accepted", AcceptanceAudits("Successor"))
  /\ CreateRevision(p)
  /\ UNCHANGED nodes

(* Accepting a Restoration: the same, and the Rollback Event is checked     *)
(* again, with its semantic source an ancestor of what it reverts.          *)
AcceptRestoration(p) ==
  LET q == proposals[p] IN
  /\ q.kind = "Restoration"
  /\ IsCurrent(q.node, q.scope, q.expected)
  /\ MatchesRollback(q)
  /\ IsAncestor(q.source, q.expected)
  /\ Decide(p, "Accepted", AcceptanceAudits("Restoration"))
  /\ CreateRevision(p)
  /\ UNCHANGED nodes

-----------------------------------------------------------------------------
Submit ==
  \/ \E n \in Nodes, s \in Scopes : SubmitInitial(n, s)
  \/ \E c \in Clients : SubmitSuccessor(c)
  \/ \E c \in Clients : SubmitSuccessorRefused(c)
  \/ \E b \in RollbackIds : SubmitRestoration(b)

Review ==
  \E p \in ProposalIds :
    \/ Reject(p)
    \/ AcceptInitial(p)
    \/ AcceptSuccessor(p)
    \/ AcceptRestoration(p)

Next ==
  \/ Submit
  \/ \E c \in Clients, n \in Nodes, s \in Scopes : ReadCurrent(c, n, s)
  \/ \E n \in Nodes, s \in Scopes, reverted, source \in RevisionIds :
        RecordRollback(n, s, reverted, source)
  \/ Review

Spec == Init /\ [][Next]_vars
-----------------------------------------------------------------------------
(* Properties.                                                             *)

(* The tables hold rows of their schema, and every pointer names an         *)
(* existing revision (CHECK and FOREIGN KEY clauses of migrations 001, 002). *)
TypeOK ==
  /\ proposals \in Seq(Proposal)
  /\ revisions \in Seq(Revision)
  /\ rollbacks \in Seq(Rollback)
  /\ decisions \subseteq Decision
  /\ nodes \subseteq Nodes
  /\ relationships \subseteq Relationship
  /\ current \in [Nodes -> [Scopes -> RevisionIds \union {0}]]
  /\ seen \in [Clients -> RevisionIds \union {0}]
  /\ \A r \in RevisionIds : revisions[r].proposal \in ProposalIds

(* getKnowledgeHistory refuses a Node whose accepted Revisions are not      *)
(* exactly those its walk from Current visits; whatever Proposals compete,  *)
(* go stale and are reviewed in whatever order, that never happens.         *)
CompleteLineage ==
  \A n \in Nodes, s \in Scopes : Lineage(current[n][s]) = Accepted(n, s)

(* The lineage of a Node never forks, whichever of several Proposals        *)
(* written against the same Revision are reviewed: a Revision has at most   *)
(* one direct predecessor and at most one direct successor, and the         *)
(* predecessor is an older Revision of the same Node and scope.             *)
NoFork ==
  /\ \A d, e \in DirectPredecessors :
        d.from = e.from \/ d.to = e.to => d = e
  /\ \A d \in DirectPredecessors :
        /\ d.from \in RevisionIds /\ d.to \in 1 .. d.from - 1
        /\ revisions[d.from].node = revisions[d.to].node
        /\ revisions[d.from].scope = revisions[d.to].scope

(* Initial Proposals may compete for one Node id, in several scopes; the    *)
(* accepted Revisions of a Node are nevertheless all in one scope and       *)
(* exactly one of them is the Initial one.                                  *)
OneOrigin ==
  \A r, q \in RevisionIds :
     revisions[r].node = revisions[q].node =>
       /\ revisions[r].scope = revisions[q].scope
       /\ (/\ proposals[revisions[r].proposal].kind = "Initial"
           /\ proposals[revisions[q].proposal].kind = "Initial") => r = q

(* The audit types a Proposal must have, given its status.                  *)
ExpectedAudits(p) ==
  {SubmissionAudit(p.kind)} \union
  (CASE p.status = "Submitted" -> {}
     [] p.status = "Accepted"  -> AcceptanceAudits(p.kind)
     [] p.status = "Rejected"  -> RejectionAudits(p.kind))

(* Five tables tell the same story about every Proposal: its status, its    *)
(* single Review Decision, its Revision (one exactly when it was accepted)  *)
(* and its audit trail agree, whatever the order of concurrent reviews.     *)
TablesAgree ==
  \A p \in ProposalIds :
    /\ {d.decision : d \in {x \in decisions : x.proposal = p}}
          = {proposals[p].status} \ {"Submitted"}
    /\ (proposals[p].status = "Accepted")
          <=> (\E r \in RevisionIds : revisions[r].proposal = p)
    /\ \A r, q \in RevisionIds :
          revisions[r].proposal = p /\ revisions[q].proposal = p => r = q
    /\ {a.type : a \in {x \in audits : x.of = p /\ x.type # "RollbackRecorded"}}
          = ExpectedAudits(proposals[p])

(* A Restoration that was accepted, however long after its Rollback Event,  *)
(* reverts its own direct predecessor and restores a strictly older         *)
(* Revision of the same lineage, under one Rollback Event that names both.  *)
RestorationIsGrounded ==
  \A e \in relationships : e.type = "RestoredFrom" =>
    /\ e.to \in Lineage(e.from) \ {e.from}
    /\ \E d \in relationships :
         /\ d.type = "Reverts" /\ d.from = e.from /\ d.rollback = e.rollback
         /\ d.to \in Predecessors(e.from) /\ d.to # e.to
         /\ e.rollback \in RollbackIds
         /\ rollbacks[e.rollback].reverted = d.to
         /\ rollbacks[e.rollback].source = e.to

(* Current only moves to a Revision that directly succeeds the one it       *)
(* leaves, and never back into its own past: a Proposal that has gone stale *)
(* can never become acceptable again (no ABA on the pointer).               *)
CurrentMovesForward ==
  [][\A n \in Nodes, s \in Scopes :
       current'[n][s] # current[n][s] =>
         /\ current'[n][s] \notin Lineage(current[n][s])
         /\ current[n][s] # 0 => \E e \in relationships' :
              /\ e.type = "DirectPredecessor"
              /\ e.from = current'[n][s] /\ e.to = current[n][s]]_vars

(* A decision is final and the reviewed payload is frozen: a decided        *)
(* Proposal never changes, an undecided one only gains its decision, and    *)
(* no row of an append-only table is ever lost.                             *)
DecisionIsFinal ==
  [][/\ \A p \in ProposalIds :
          \/ proposals'[p] = proposals[p]
          \/ /\ proposals[p].status = "Submitted"
             /\ \E st \in {"Accepted", "Rejected"} :
                  proposals'[p] = [proposals[p] EXCEPT !.status = st]
     /\ decisions \subseteq decisions'
     /\ relationships \subseteq relationships'
     /\ \A r \in RevisionIds : revisions'[r] = revisions[r]]_vars

(* The lifecycle implements CanonicalKnowledge: the chain of a Node is what *)
(* a walk from Current along DirectPredecessor visits.                      *)
Canon == INSTANCE CanonicalKnowledge WITH
  head <- current,
  lineage <- [n \in Nodes |-> [s \in Scopes |-> Lineage(current[n][s])]],
  succeeds <- {<< e.from, e.to >> : e \in DirectPredecessors}

ImplementsCanonicalKnowledge == Canon!CanonSpec
=============================================================================
