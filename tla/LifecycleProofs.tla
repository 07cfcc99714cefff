--------------------------- MODULE LifecycleProofs ---------------------------
(***************************************************************************)
(* Theorems about the knowledge lifecycle, for every set of Nodes, scopes  *)
(* and clients and for tables of any length; and about those who use the   *)
(* lifecycle while it is written: a reader of the History, which takes no  *)
(* transaction, and the commands that assign Node keys.                    *)
(***************************************************************************)
EXTENDS KnowledgeHistory, NodeKeys, SequenceTheorems, TLAPS

-----------------------------------------------------------------------------
(* A row of a table has the type of its table.                              *)
LEMMA RowTypes ==
  ASSUME TypeOK
  PROVE  /\ \A p \in ProposalIds : proposals[p] \in Proposal
         /\ \A r \in RevisionIds : revisions[r] \in Revision
         /\ Len(proposals) \in Nat /\ Len(revisions) \in Nat
  BY ElementOfSeq, LenProperties DEF TypeOK, ProposalIds, RevisionIds

(* What the two halves of an accepting review do to the tables.            *)

(* Decide changes the status of one row of knowledge_proposals and nothing  *)
(* else of that table.                                                      *)
LEMMA DecideTypes ==
  ASSUME TypeOK, NEW p \in ProposalIds, NEW decision \in {"Accepted", "Rejected"},
         NEW types, Decide(p, decision, types)
  PROVE  /\ proposals' \in Seq(Proposal)
         /\ Len(proposals') = Len(proposals)
         /\ decisions' \subseteq Decision
         /\ rollbacks' = rollbacks /\ seen' = seen
         /\ proposals' = [proposals EXCEPT ![p].status = decision]
         /\ proposals[p].status = "Submitted"
<1> DEFINE row == [proposals[p] EXCEPT !.status = decision]
<1>1. proposals \in Seq(Proposal) /\ proposals[p] \in Proposal
  BY ElementOfSeq DEF TypeOK, ProposalIds
<1>2. row \in Proposal
  BY <1>1 DEF Proposal, Statuses
<1>3. proposals' = [proposals EXCEPT ![p] = row]
  BY DEF Decide
<1>4. proposals' \in Seq(Proposal) /\ Len(proposals') = Len(proposals)
  <2> HIDE DEF row
  <2> QED BY <1>1, <1>2, <1>3, ExceptSeq DEF ProposalIds
<1>5. [proposal |-> p, decision |-> decision] \in Decision
  BY <1>1, LenProperties DEF Decision, ProposalIds
<1> QED BY <1>4, <1>5 DEF Decide, TypeOK

(* The relationships of a new Revision are rows of the table that leave     *)
(* that Revision.                                                           *)
LEMMA NewRelationshipsTypes ==
  ASSUME NEW p \in Proposal, NEW r \in Nat
  PROVE  NewRelationships(p, r) \subseteq Relationship
<1>1. p.kind \in {"Initial", "Successor", "Restoration"}
      /\ p.expected \in Nat /\ p.source \in Nat /\ p.rollback \in Nat
  BY DEF Proposal, Kinds
<1>2. CASE p.kind = "Initial"
  BY <1>2 DEF NewRelationships
<1>3. CASE p.kind = "Successor"
  BY <1>1, <1>3 DEF NewRelationships, Relationship, RelationshipTypes
<1>4. CASE p.kind = "Restoration"
  BY <1>1, <1>4 DEF NewRelationships, Relationship, RelationshipTypes
<1> QED BY <1>1, <1>2, <1>3, <1>4

LEMMA CreateRevisionTypes ==
  ASSUME TypeOK, NEW p \in ProposalIds, CreateRevision(p)
  PROVE  /\ revisions' \in Seq(Revision)
         /\ Len(revisions') = NextRevision
         /\ \A r \in RevisionIds : revisions'[r] = revisions[r]
         /\ revisions'[NextRevision] =
              [proposal |-> p, node |-> proposals[p].node, scope |-> proposals[p].scope]
         /\ relationships' \subseteq Relationship
         /\ RevisionIds' = RevisionIds \union {NextRevision}
         /\ NextRevision \in Nat \ {0} /\ NextRevision \notin RevisionIds
         /\ current' \in [Nodes -> [Scopes -> RevisionIds' \union {0}]]
         /\ proposals[p] \in Proposal
<1> DEFINE row == [proposal |-> p, node |-> proposals[p].node, scope |-> proposals[p].scope]
<1>1. proposals \in Seq(Proposal) /\ proposals[p] \in Proposal
  BY ElementOfSeq DEF TypeOK, ProposalIds
<1>2. row \in Revision
  BY <1>1, LenProperties DEF Proposal, Revision, ProposalIds
<1>3. revisions \in Seq(Revision) /\ Len(revisions) \in Nat
  BY LenProperties DEF TypeOK
<1>4. revisions' = Append(revisions, row)
  BY DEF CreateRevision
<1>5. /\ revisions' \in Seq(Revision)
      /\ Len(revisions') = NextRevision
      /\ \A r \in RevisionIds : revisions'[r] = revisions[r]
      /\ revisions'[NextRevision] = row
  <2> HIDE DEF row
  <2> QED BY <1>2, <1>3, <1>4, AppendProperties DEF NextRevision, RevisionIds
<1>6. RevisionIds' = RevisionIds \union {NextRevision}
      /\ NextRevision \in Nat \ {0} /\ NextRevision \notin RevisionIds
  BY <1>3, <1>5 DEF RevisionIds, NextRevision
<1>7. relationships' \subseteq Relationship
  BY <1>1, <1>6, NewRelationshipsTypes DEF CreateRevision, TypeOK
<1>8. current' \in [Nodes -> [Scopes -> RevisionIds' \union {0}]]
  BY <1>1, <1>6 DEF CreateRevision, TypeOK, Proposal
<1> QED BY <1>1, <1>5, <1>6, <1>7, <1>8

(* A new row of knowledge_proposals.                                        *)
LEMMA InsertProposalTypes ==
  ASSUME TypeOK, NEW p \in Proposal, InsertProposal(p)
  PROVE  /\ proposals' \in Seq(Proposal)
         /\ Len(proposals') = Len(proposals) + 1
         /\ \A q \in ProposalIds : proposals'[q] = proposals[q]
         /\ proposals'[Len(proposals) + 1] = p
         /\ ProposalIds \subseteq ProposalIds'
         /\ UNCHANGED << decisions, nodes, revisions, relationships, rollbacks, current >>
<1>1. proposals \in Seq(Proposal) /\ Len(proposals) \in Nat
  BY LenProperties DEF TypeOK
<1>2. proposals' = Append(proposals, p)
  BY DEF InsertProposal
<1>3. /\ proposals' \in Seq(Proposal)
      /\ Len(proposals') = Len(proposals) + 1
      /\ \A q \in ProposalIds : proposals'[q] = proposals[q]
      /\ proposals'[Len(proposals) + 1] = p
  BY <1>1, <1>2, AppendProperties DEF ProposalIds
<1>4. ProposalIds \subseteq ProposalIds'
  BY <1>1, <1>3 DEF ProposalIds
<1> QED BY <1>3, <1>4 DEF InsertProposal

-----------------------------------------------------------------------------
(* Every table only ever holds rows of its schema, and the Current pointers *)
(* and the Revisions' proposal references name existing rows, whatever      *)
(* steps clients and reviewers take (TypeOK; migrations 001 and 002).       *)

(* The steps of a client preserve the types.                                *)
LEMMA SubmitTypes == TypeOK /\ Submit => TypeOK'
<1> SUFFICES ASSUME TypeOK, Submit PROVE TypeOK'
  OBVIOUS
<1>1. SUFFICES ASSUME NEW p \in Proposal, InsertProposal(p),
                      seen' \in [Clients -> RevisionIds \union {0}]
               PROVE  TypeOK'
  <2>1. CASE \E n \in Nodes, s \in Scopes : SubmitInitial(n, s)
    <3> PICK n \in Nodes, s \in Scopes : SubmitInitial(n, s)
      BY <2>1
    <3> QED BY <1>1 DEF SubmitInitial, Proposal, Kinds, Statuses, TypeOK
  <2>2. CASE \E c \in Clients : SubmitSuccessor(c)
    <3> PICK c \in Clients : SubmitSuccessor(c)
      BY <2>2
    <3> DEFINE r == seen[c]
    <3>1. r \in RevisionIds /\ r \in Nat
      BY LenProperties DEF TypeOK, SubmitSuccessor, RevisionIds
    <3>2. revisions[r] \in Revision
      BY <3>1, ElementOfSeq DEF TypeOK, RevisionIds
    <3>3. [kind |-> "Successor", node |-> revisions[r].node,
           scope |-> revisions[r].scope, status |-> "Submitted",
           expected |-> r, rollback |-> 0, source |-> 0] \in Proposal
      BY <3>1, <3>2 DEF Proposal, Revision, Kinds, Statuses
    <3>4. seen' \in [Clients -> RevisionIds \union {0}]
      BY DEF SubmitSuccessor, TypeOK
    <3> QED BY <1>1, <3>3, <3>4 DEF SubmitSuccessor
  <2>3. CASE \E c \in Clients : SubmitSuccessorRefused(c)
    BY <2>3 DEF SubmitSuccessorRefused, TypeOK, ProposalIds, RevisionIds
  <2>4. CASE \E b \in RollbackIds : SubmitRestoration(b)
    <3> PICK b \in RollbackIds : SubmitRestoration(b)
      BY <2>4
    <3>1. rollbacks[b] \in Rollback /\ b \in Nat
      BY ElementOfSeq, LenProperties DEF TypeOK, RollbackIds
    <3>2. [kind |-> "Restoration", node |-> rollbacks[b].node, scope |-> rollbacks[b].scope,
           status |-> "Submitted", expected |-> rollbacks[b].reverted, rollback |-> b,
           source |-> rollbacks[b].source] \in Proposal
      BY <3>1 DEF Rollback, Proposal, Kinds, Statuses
    <3>3. seen' \in [Clients -> RevisionIds \union {0}]
      BY DEF SubmitRestoration, TypeOK
    <3> QED BY <1>1, <3>2, <3>3 DEF SubmitRestoration
  <2> QED BY <2>1, <2>2, <2>3, <2>4 DEF Submit
<1>2. /\ proposals' \in Seq(Proposal)
      /\ ProposalIds \subseteq ProposalIds'
      /\ UNCHANGED << decisions, nodes, revisions, relationships, rollbacks, current >>
  BY <1>1, InsertProposalTypes
<1> QED BY <1>1, <1>2 DEF TypeOK, RevisionIds

(* The two outcomes of a review preserve the types.                         *)
LEMMA RejectTypes ==
  ASSUME TypeOK, NEW p \in ProposalIds, Reject(p)
  PROVE  TypeOK'
<1>1. Decide(p, "Rejected", RejectionAudits(proposals[p].kind))
  BY DEF Reject
<1>2. UNCHANGED << nodes, revisions, relationships, current >>
  BY DEF Reject
<1>3. /\ proposals' \in Seq(Proposal) /\ Len(proposals') = Len(proposals)
      /\ decisions' \subseteq Decision /\ rollbacks' = rollbacks /\ seen' = seen
  BY <1>1, DecideTypes
<1> QED BY <1>2, <1>3 DEF TypeOK, ProposalIds, RevisionIds

LEMMA AcceptTypes ==
  ASSUME TypeOK, NEW p \in ProposalIds, NEW types,
         Decide(p, "Accepted", types), CreateRevision(p), nodes' \subseteq Nodes
  PROVE  TypeOK'
<1>1. /\ proposals' \in Seq(Proposal) /\ Len(proposals') = Len(proposals)
      /\ decisions' \subseteq Decision /\ rollbacks' = rollbacks /\ seen' = seen
  BY DecideTypes
<1>2. ProposalIds' = ProposalIds
  BY <1>1 DEF ProposalIds
<1>3. /\ revisions' \in Seq(Revision)
      /\ \A r \in RevisionIds : revisions'[r] = revisions[r]
      /\ revisions'[NextRevision] =
           [proposal |-> p, node |-> proposals[p].node, scope |-> proposals[p].scope]
      /\ relationships' \subseteq Relationship
      /\ RevisionIds' = RevisionIds \union {NextRevision}
      /\ current' \in [Nodes -> [Scopes -> RevisionIds' \union {0}]]
  BY CreateRevisionTypes
<1>4. \A r \in RevisionIds' : revisions'[r].proposal \in ProposalIds'
  <2>1. revisions'[NextRevision].proposal = p
    BY <1>3
  <2> QED BY <1>2, <1>3, <2>1 DEF TypeOK
<1>5. seen' \in [Clients -> RevisionIds' \union {0}]
  BY <1>1, <1>3 DEF TypeOK
<1> QED BY <1>1, <1>3, <1>4, <1>5 DEF TypeOK

LEMMA ReviewTypes == TypeOK /\ Review => TypeOK'
<1> SUFFICES ASSUME TypeOK, NEW p \in ProposalIds,
                    Reject(p) \/ AcceptInitial(p) \/ AcceptSuccessor(p) \/ AcceptRestoration(p)
             PROVE  TypeOK'
  BY DEF Review
<1>1. CASE Reject(p)
  BY <1>1, RejectTypes
<1>2. CASE AcceptInitial(p)
  <2>1. proposals[p] \in Proposal
    BY RowTypes
  <2>2. nodes' \subseteq Nodes
    BY <1>2, <2>1 DEF AcceptInitial, TypeOK, Proposal
  <2> QED BY <1>2, <2>2, AcceptTypes DEF AcceptInitial
<1>3. CASE AcceptSuccessor(p)
  BY <1>3, AcceptTypes DEF AcceptSuccessor, TypeOK
<1>4. CASE AcceptRestoration(p)
  BY <1>4, AcceptTypes DEF AcceptRestoration, TypeOK
<1> QED BY <1>1, <1>2, <1>3, <1>4

LEMMA NextTypes == TypeOK /\ [Next]_vars => TypeOK'
<1> SUFFICES ASSUME TypeOK, [Next]_vars PROVE TypeOK'
  OBVIOUS
<1>1. CASE Submit
  BY <1>1, SubmitTypes
<1>2. CASE \E c \in Clients, n \in Nodes, s \in Scopes : ReadCurrent(c, n, s)
  BY <1>2 DEF ReadCurrent, TypeOK, ProposalIds, RevisionIds
<1>3. CASE \E n \in Nodes, s \in Scopes, reverted, source \in RevisionIds :
              RecordRollback(n, s, reverted, source)
  <2> PICK n \in Nodes, s \in Scopes, reverted \in RevisionIds, source \in RevisionIds :
             RecordRollback(n, s, reverted, source)
    BY <1>3
  <2> DEFINE row == [node |-> n, scope |-> s, reverted |-> reverted, source |-> source]
  <2>1. row \in Rollback
    BY LenProperties DEF Rollback, RevisionIds, TypeOK
  <2>2. rollbacks' = Append(rollbacks, row)
    BY DEF RecordRollback
  <2>3. rollbacks' \in Seq(Rollback)
    <3> HIDE DEF row
    <3> QED BY <2>1, <2>2, AppendProperties DEF TypeOK
  <2> QED BY <2>3 DEF RecordRollback, TypeOK, ProposalIds, RevisionIds
<1>4. CASE Review
  BY <1>4, ReviewTypes
<1>5. CASE UNCHANGED vars
  BY <1>5 DEF vars, TypeOK, ProposalIds, RevisionIds
<1> QED BY <1>1, <1>2, <1>3, <1>4, <1>5 DEF Next

THEOREM TypeCorrect == Spec => []TypeOK
<1>1. Init => TypeOK
  BY EmptySeq DEF Init, TypeOK, ProposalIds, RevisionIds
<1>2. TypeOK /\ [Next]_vars => TypeOK'
  BY NextTypes
<1> QED BY <1>1, <1>2, PTL DEF Spec

-----------------------------------------------------------------------------
(* The lineage of a Node.  NoFork and CompleteLineage are not inductive by  *)
(* themselves: that a Successor of Current does not fork the lineage needs  *)
(* that nothing succeeds Current yet, and that an accepted Initial Proposal *)
(* starts a lineage needs that no Revision belongs to an unknown Node.      *)

(* Current names a Revision of its own place that nothing succeeds.         *)
CurrentIsHead ==
  \A n \in Nodes, s \in Scopes :
     current[n][s] # 0 =>
       /\ revisions[current[n][s]].node = n
       /\ revisions[current[n][s]].scope = s
       /\ \A e \in DirectPredecessors : e.to # current[n][s]

(* Every accepted Revision belongs to a row of knowledge_nodes.             *)
KnownNodes == \A r \in RevisionIds : revisions[r].node \in nodes

LineageInv ==
  TypeOK /\ NoFork /\ CurrentIsHead /\ KnownNodes /\ CompleteLineage

(* The walk from Current never leaves the accepted Revisions of its place.  *)
WalkStaysInPlace ==
  \A n \in Nodes, s \in Scopes : Lineage(current[n][s]) \subseteq Accepted(n, s)

LEMMA WalkFromHead == TypeOK /\ NoFork /\ CurrentIsHead => WalkStaysInPlace
<1> SUFFICES ASSUME TypeOK, NoFork, CurrentIsHead, NEW n \in Nodes, NEW s \in Scopes,
                    NEW r \in Lineage(current[n][s])
             PROVE  r \in Accepted(n, s)
  BY DEF WalkStaysInPlace
<1> DEFINE h == current[n][s]
           S == Accepted(n, s)
<1>1. h \in RevisionIds /\ h # 0 /\ S \in SUBSET RevisionIds
  BY LenProperties DEF Lineage, RevisionIds, TypeOK, Accepted
<1>2. h \in S
  BY <1>1 DEF CurrentIsHead, Accepted
<1>3. ClosedUnderPredecessor(S)
  <2> SUFFICES ASSUME NEW x \in S, NEW d \in DirectPredecessors, d.from = x
               PROVE  d.to \in S
    BY DEF ClosedUnderPredecessor, Predecessors
  <2>1. x \in RevisionIds /\ d.to \in 1 .. x - 1
    BY DEF NoFork, Accepted
  <2>2. d.to \in RevisionIds
    BY <2>1, RowTypes DEF RevisionIds
  <2> QED BY <2>1, <2>2 DEF NoFork, Accepted
<1> QED BY <1>1, <1>2, <1>3 DEF Lineage, IsAncestor

LEMMA WalkFromNextHead == (TypeOK /\ NoFork /\ CurrentIsHead)' => WalkStaysInPlace'
  BY WalkFromHead, PTL

(* Steps that create no Revision leave the invariant alone.                 *)
LEMMA LineageUntouched ==
  ASSUME LineageInv, TypeOK', UNCHANGED << revisions, relationships, current >>,
         nodes' = nodes
  PROVE  LineageInv'
<1>1. RevisionIds' = RevisionIds /\ DirectPredecessors' = DirectPredecessors
  BY DEF RevisionIds, DirectPredecessors
<1>2. NoFork'
  BY <1>1 DEF LineageInv, NoFork
<1>3. CurrentIsHead' /\ KnownNodes'
  BY <1>1 DEF LineageInv, CurrentIsHead, KnownNodes
<1>4. CompleteLineage'
  <2>1. \A S : ClosedUnderPredecessor(S)' = ClosedUnderPredecessor(S)
    BY <1>1 DEF ClosedUnderPredecessor, Predecessors
  <2>2. \A n \in Nodes, s \in Scopes :
          /\ Accepted(n, s)' = Accepted(n, s)
          /\ Lineage(current[n][s])' = Lineage(current[n][s])
    BY <1>1, <2>1 DEF Accepted, Lineage, IsAncestor
  <2> QED BY <2>2 DEF LineageInv, CompleteLineage
<1> QED BY <1>2, <1>3, <1>4 DEF LineageInv

(* The edges an accepted Proposal adds: none, or one to its predecessor.    *)
LEMMA NewDirectPredecessors ==
  ASSUME NEW p \in ProposalIds, CreateRevision(p)
  PROVE  DirectPredecessors' = DirectPredecessors \union
           (IF proposals[p].kind = "Initial" THEN {}
            ELSE {[type |-> "DirectPredecessor", from |-> NextRevision,
                   to |-> proposals[p].expected, rollback |-> 0]})
  BY DEF DirectPredecessors, CreateRevision, NewRelationships

(* The heart of the argument: a Revision is created at a place, either the  *)
(* first one of its Node or the successor of Current.                       *)
LEMMA LineageExtended ==
  ASSUME LineageInv, TypeOK', NEW p \in ProposalIds, CreateRevision(p),
         \/ /\ proposals[p].kind = "Initial"
            /\ proposals[p].node \notin nodes
         \/ /\ proposals[p].kind # "Initial"
            /\ IsCurrent(proposals[p].node, proposals[p].scope, proposals[p].expected),
         nodes' = nodes \union {proposals[p].node}
  PROVE  LineageInv'
<1> DEFINE n == proposals[p].node
           s == proposals[p].scope
           c == proposals[p].expected
           new == NextRevision
<1>1. n \in Nodes /\ s \in Scopes /\ c \in Nat
  BY RowTypes DEF LineageInv, Proposal
<1>2. /\ \A r \in RevisionIds : revisions'[r] = revisions[r]
      /\ revisions'[new].node = n /\ revisions'[new].scope = s
      /\ RevisionIds' = RevisionIds \union {new}
      /\ new \in Nat \ {0} /\ new \notin RevisionIds
      /\ RevisionIds = 1 .. new - 1
  <2>1. TypeOK
    BY DEF LineageInv
  <2>2. RevisionIds = 1 .. new - 1
    BY <2>1, RowTypes DEF RevisionIds, NextRevision
  <2>3. revisions'[new] = [proposal |-> p, node |-> n, scope |-> s]
    BY <2>1, CreateRevisionTypes
  <2> QED BY <2>1, <2>2, <2>3, CreateRevisionTypes
<1>3. /\ current'[n][s] = new
      /\ \A m \in Nodes, t \in Scopes : << m, t >> # << n, s >> => current'[m][t] = current[m][t]
      /\ \A m \in Nodes, t \in Scopes : current[m][t] \in RevisionIds \union {0}
  BY <1>1 DEF CreateRevision, LineageInv, TypeOK
<1> DEFINE edge == [type |-> "DirectPredecessor", from |-> new, to |-> c, rollback |-> 0]
<1>4. DirectPredecessors' = DirectPredecessors \union
         (IF proposals[p].kind = "Initial" THEN {} ELSE {edge})
  BY NewDirectPredecessors
<1>5. proposals[p].kind # "Initial" =>
        /\ c \in RevisionIds /\ current[n][s] = c
        /\ revisions[c].node = n /\ revisions[c].scope = s
        /\ \A e \in DirectPredecessors : e.to # c
  BY <1>1, <1>3 DEF IsCurrent, LineageInv, CurrentIsHead
<1>6. proposals[p].kind = "Initial" =>
        \A t \in Scopes : current[n][t] = 0 /\ Accepted(n, t) = {}
  BY <1>1, <1>3 DEF LineageInv, KnownNodes, CurrentIsHead, Accepted
<1>7. NoFork'
  <2>1. \A e \in DirectPredecessors :
          /\ e.from \in RevisionIds /\ e.to \in 1 .. e.from - 1 /\ e.to \in RevisionIds
          /\ revisions[e.from].node = revisions[e.to].node
          /\ revisions[e.from].scope = revisions[e.to].scope
    BY <1>2 DEF LineageInv, NoFork
  <2>2. \A d, e \in DirectPredecessors' : d.from = e.from \/ d.to = e.to => d = e
    BY <1>2, <1>4, <1>5, <2>1 DEF LineageInv, NoFork
  <2>3. ASSUME NEW d \in DirectPredecessors'
        PROVE  /\ d.from \in RevisionIds' /\ d.to \in 1 .. d.from - 1
               /\ revisions'[d.from].node = revisions'[d.to].node
               /\ revisions'[d.from].scope = revisions'[d.to].scope
    BY <1>2, <1>4, <1>5, <2>1
  <2> QED BY <2>2, <2>3 DEF NoFork
<1>8. CurrentIsHead'
  <2> SUFFICES ASSUME NEW m \in Nodes, NEW t \in Scopes, current'[m][t] # 0
               PROVE  /\ revisions'[current'[m][t]].node = m
                      /\ revisions'[current'[m][t]].scope = t
                      /\ \A e \in DirectPredecessors' : e.to # current'[m][t]
    BY DEF CurrentIsHead
  <2>1. CASE << m, t >> = << n, s >>
    <3>1. \A e \in DirectPredecessors' : e.to # new
      BY <1>2, <1>7 DEF NoFork
    <3> QED BY <2>1, <3>1, <1>2, <1>3
  <2>2. CASE << m, t >> # << n, s >>
    <3>1. current'[m][t] = current[m][t] /\ current[m][t] \in RevisionIds
      BY <1>3, <2>2
    <3>2. /\ revisions[current[m][t]].node = m /\ revisions[current[m][t]].scope = t
          /\ \A e \in DirectPredecessors : e.to # current[m][t]
      BY <3>1 DEF LineageInv, CurrentIsHead
    <3> QED BY <1>2, <1>4, <1>5, <2>2, <3>1, <3>2
  <2> QED BY <2>1, <2>2
<1>9. KnownNodes'
  BY <1>2 DEF LineageInv, KnownNodes
<1>10. CompleteLineage'
  (* A set closed under the new edges is closed under the old ones.         *)
  <2>1. ASSUME NEW S, ClosedUnderPredecessor(S)'
        PROVE  ClosedUnderPredecessor(S \intersect RevisionIds)
    <3> SUFFICES ASSUME NEW d \in DirectPredecessors, d.from \in S \intersect RevisionIds
                 PROVE  d.to \in S \intersect RevisionIds
      BY DEF ClosedUnderPredecessor, Predecessors
    <3>1. d.to \in S
      BY <1>4, <2>1 DEF ClosedUnderPredecessor, Predecessors
    <3>2. d.to \in RevisionIds
      BY <1>2 DEF LineageInv, NoFork
    <3> QED BY <3>1, <3>2
  <2>2. ASSUME NEW m \in Nodes, NEW t \in Scopes, NEW x \in Accepted(m, t)'
        PROVE  x \in Lineage(current[m][t])'
    <3>1. x \in RevisionIds'
      BY DEF Accepted
    <3>2. SUFFICES ASSUME NEW S \in SUBSET (RevisionIds'), current'[m][t] \in S,
                          ClosedUnderPredecessor(S)'
                   PROVE  x \in S
      <4>1. current'[m][t] \in RevisionIds'
        <5>1. CASE << m, t >> = << n, s >>
          BY <5>1, <1>2, <1>3
        <5>2. CASE << m, t >> # << n, s >>
          <6>1. x \in RevisionIds /\ x \in Accepted(m, t)
            BY <1>2, <5>2, <3>1 DEF Accepted
          <6>2. current[m][t] \in RevisionIds
            BY <6>1 DEF LineageInv, CompleteLineage, Lineage
          <6> QED BY <1>2, <1>3, <5>2, <6>2
        <5> QED BY <5>1, <5>2
      <4> QED BY <3>1, <4>1 DEF Lineage, IsAncestor
    <3>3. CASE x = new
      <4>1. << m, t >> = << n, s >>
        BY <1>2, <3>3 DEF Accepted
      <4> QED BY <3>2, <3>3, <4>1, <1>3
    <3>4. CASE x # new
      <4>1. x \in Accepted(m, t)
        BY <1>2, <3>1, <3>4 DEF Accepted
      <4>2. x \in Lineage(current[m][t]) /\ current[m][t] \in RevisionIds
        BY <4>1 DEF LineageInv, CompleteLineage, Lineage
      <4>3. current[m][t] \in S
        <5>1. CASE << m, t >> = << n, s >>
          <6>1. proposals[p].kind # "Initial"
            BY <4>1, <5>1, <1>1, <1>6
          <6>2. edge \in DirectPredecessors' /\ edge.from = new /\ edge.to = c
            BY <1>4, <6>1
          <6>3. c \in S
            BY <3>2, <5>1, <6>2, <1>3 DEF ClosedUnderPredecessor, Predecessors
          <6> QED BY <5>1, <6>1, <6>3, <1>5
        <5>2. CASE << m, t >> # << n, s >>
          BY <3>2, <5>2, <1>3
        <5> QED BY <5>1, <5>2
      <4>4. ClosedUnderPredecessor(S \intersect RevisionIds)
        BY <2>1, <3>2
      <4> QED BY <4>2, <4>3, <4>4 DEF Lineage, IsAncestor
    <3> QED BY <3>3, <3>4
  <2>3. \A m \in Nodes, t \in Scopes : Lineage(current[m][t])' \subseteq Accepted(m, t)'
    BY <1>7, <1>8, WalkFromNextHead DEF WalkStaysInPlace
  <2> QED BY <2>2, <2>3 DEF CompleteLineage
<1> QED BY <1>7, <1>8, <1>9, <1>10 DEF LineageInv

(* Every accepting review creates one Revision as LineageExtended demands;  *)
(* no other step touches Revisions, relationships, Current or Nodes.        *)
Extends(p) ==
  /\ CreateRevision(p)
  /\ nodes' = nodes \union {proposals[p].node}
  /\ \/ /\ proposals[p].kind = "Initial"
        /\ proposals[p].node \notin nodes
     \/ /\ proposals[p].kind # "Initial"
        /\ IsCurrent(proposals[p].node, proposals[p].scope, proposals[p].expected)

LEMMA StepExtendsOrKeeps ==
  ASSUME LineageInv, [Next]_vars
  PROVE  \/ \E p \in ProposalIds : Extends(p)
         \/ UNCHANGED << revisions, relationships, current, nodes >>
<1>1. CASE Submit
  BY <1>1 DEF Submit, SubmitInitial, SubmitSuccessor, SubmitSuccessorRefused,
              SubmitRestoration, InsertProposal
<1>2. CASE \E c \in Clients, n \in Nodes, s \in Scopes : ReadCurrent(c, n, s)
  BY <1>2 DEF ReadCurrent
<1>3. CASE \E n \in Nodes, s \in Scopes, reverted, source \in RevisionIds :
              RecordRollback(n, s, reverted, source)
  BY <1>3 DEF RecordRollback
<1>4. CASE Review
  <2> PICK p \in ProposalIds :
        Reject(p) \/ AcceptInitial(p) \/ AcceptSuccessor(p) \/ AcceptRestoration(p)
    BY <1>4 DEF Review
  <2>1. CASE Reject(p)
    BY <2>1 DEF Reject
  <2>2. CASE AcceptInitial(p)
    BY <2>2 DEF AcceptInitial, Extends
  <2>3. ASSUME CreateRevision(p), UNCHANGED nodes, proposals[p].kind # "Initial",
               IsCurrent(proposals[p].node, proposals[p].scope, proposals[p].expected)
        PROVE  Extends(p)
    <3>1. proposals[p].node \in Nodes /\ proposals[p].scope \in Scopes
      BY RowTypes DEF LineageInv, Proposal
    <3>2. current[proposals[p].node][proposals[p].scope] \in RevisionIds
      BY <2>3, <3>1 DEF LineageInv, TypeOK, IsCurrent
    <3>3. proposals[p].node \in nodes
      BY <2>3, <3>1, <3>2 DEF LineageInv, CurrentIsHead, KnownNodes, IsCurrent
    <3> QED BY <2>3, <3>3 DEF Extends
  <2>4. CASE AcceptSuccessor(p)
    BY <2>3, <2>4 DEF AcceptSuccessor
  <2>5. CASE AcceptRestoration(p)
    BY <2>3, <2>5 DEF AcceptRestoration
  <2> QED BY <2>1, <2>2, <2>4, <2>5
<1>5. CASE UNCHANGED vars
  BY <1>5 DEF vars
<1> QED BY <1>1, <1>2, <1>3, <1>4, <1>5 DEF Next

LEMMA LineageInitially == Init => LineageInv
<1> SUFFICES ASSUME Init PROVE LineageInv
  OBVIOUS
<1>1. TypeOK
  BY EmptySeq DEF Init, TypeOK, ProposalIds, RevisionIds
<1>2. RevisionIds = {} /\ DirectPredecessors = {}
  BY EmptySeq DEF Init, RevisionIds, DirectPredecessors
<1>3. NoFork /\ CurrentIsHead /\ KnownNodes
  BY <1>2 DEF Init, NoFork, CurrentIsHead, KnownNodes
<1>4. CompleteLineage
  BY <1>2 DEF CompleteLineage, Lineage, Accepted
<1> QED BY <1>1, <1>3, <1>4 DEF LineageInv

LEMMA LineageInductive == LineageInv /\ [Next]_vars => LineageInv'
<1> SUFFICES ASSUME LineageInv, [Next]_vars PROVE LineageInv'
  OBVIOUS
<1>1. TypeOK'
  BY NextTypes DEF LineageInv
<1>2. CASE \E p \in ProposalIds : Extends(p)
  BY <1>1, <1>2, LineageExtended DEF Extends
<1>3. CASE UNCHANGED << revisions, relationships, current, nodes >>
  BY <1>1, <1>3, LineageUntouched
<1> QED BY <1>2, <1>3, StepExtendsOrKeeps

LEMMA LineageInvHolds == Spec => []LineageInv
BY LineageInitially, LineageInductive, PTL DEF Spec

(* The History of every Node is always one complete lineage: the walk from  *)
(* Current along DirectPredecessor visits exactly the accepted Revisions,   *)
(* so getKnowledgeHistory, reading one snapshot, never refuses.             *)
THEOREM HistoryIsComplete == Spec => []CompleteLineage
<1>1. LineageInv => CompleteLineage
  BY DEF LineageInv
<1> QED BY <1>1, LineageInvHolds, PTL

(* Reviews of competing Proposals never fork a lineage.                     *)
THEOREM LineageNeverForks == Spec => []NoFork
<1>1. LineageInv => NoFork
  BY DEF LineageInv
<1> QED BY <1>1, LineageInvHolds, PTL

-----------------------------------------------------------------------------
(* What an accepting review does, seen from the place whose lineage grows:  *)
(* Revision r becomes its Current, after the one that was Current or as the *)
(* first Revision of its Node.                                              *)
Grows(n, s, r) ==
  /\ n \in Nodes /\ s \in Scopes
  /\ r \in Nat \ {0} /\ r \notin RevisionIds
  /\ RevisionIds' = RevisionIds \union {r}
  /\ \A q \in RevisionIds : revisions'[q] = revisions[q]
  /\ revisions'[r].node = n /\ revisions'[r].scope = s
  /\ current \in [Nodes -> [Scopes -> RevisionIds \union {0}]]
  /\ current' = [current EXCEPT ![n][s] = r]
  /\ \/ /\ \A t \in Scopes : current[n][t] = 0
        /\ DirectPredecessors' = DirectPredecessors
     \/ /\ current[n][s] # 0
        /\ DirectPredecessors' = DirectPredecessors \union
             {[type |-> "DirectPredecessor", from |-> r, to |-> current[n][s], rollback |-> 0]}

LEMMA ExtensionOfPlace ==
  ASSUME LineageInv, NEW p \in ProposalIds, Extends(p)
  PROVE  Grows(proposals[p].node, proposals[p].scope, NextRevision)
<1>1. TypeOK
  BY DEF LineageInv
<1>2. proposals[p].node \in Nodes /\ proposals[p].scope \in Scopes
  BY <1>1, RowTypes DEF Proposal
<1>3. current \in [Nodes -> [Scopes -> RevisionIds \union {0}]]
  BY <1>1 DEF TypeOK
<1>6. /\ NextRevision \in Nat \ {0} /\ NextRevision \notin RevisionIds
      /\ RevisionIds' = RevisionIds \union {NextRevision}
      /\ \A r \in RevisionIds : revisions'[r] = revisions[r]
      /\ revisions'[NextRevision] =
           [proposal |-> p, node |-> proposals[p].node, scope |-> proposals[p].scope]
      /\ current' = [current EXCEPT ![proposals[p].node][proposals[p].scope] = NextRevision]
  BY <1>1, CreateRevisionTypes DEF Extends, CreateRevision
<1>4. CASE proposals[p].kind = "Initial"
  <2>1. DirectPredecessors' = DirectPredecessors
    BY <1>4, NewDirectPredecessors DEF Extends
  <2>2. \A t \in Scopes : current[proposals[p].node][t] = 0
    BY <1>2, <1>3, <1>4 DEF Extends, LineageInv, CurrentIsHead, KnownNodes
  <2> QED BY <1>2, <1>3, <1>6, <2>1, <2>2 DEF Grows
<1>5. CASE proposals[p].kind # "Initial"
  <2>1. IsCurrent(proposals[p].node, proposals[p].scope, proposals[p].expected)
    BY <1>5 DEF Extends
  <2>2. DirectPredecessors' = DirectPredecessors \union
          {[type |-> "DirectPredecessor", from |-> NextRevision,
            to |-> proposals[p].expected, rollback |-> 0]}
    BY <1>5, NewDirectPredecessors DEF Extends
  <2> QED BY <1>2, <1>3, <1>6, <2>1, <2>2 DEF Grows, IsCurrent
<1> QED BY <1>4, <1>5

(* Current only moves to a direct successor of what it leaves and never     *)
(* back into its own past.                                                  *)
THEOREM CurrentNeverReturns == Spec => CurrentMovesForward
<1> DEFINE Forward ==
      \A n \in Nodes, s \in Scopes :
        current'[n][s] # current[n][s] =>
          /\ current'[n][s] \notin Lineage(current[n][s])
          /\ current[n][s] # 0 => \E e \in relationships' :
               /\ e.type = "DirectPredecessor"
               /\ e.from = current'[n][s] /\ e.to = current[n][s]
<1>1. LineageInv /\ [Next]_vars => Forward
  <2> SUFFICES ASSUME LineageInv, [Next]_vars, NEW n \in Nodes, NEW s \in Scopes,
                      current'[n][s] # current[n][s]
               PROVE  /\ current'[n][s] \notin Lineage(current[n][s])
                      /\ current[n][s] # 0 => \E e \in relationships' :
                           /\ e.type = "DirectPredecessor"
                           /\ e.from = current'[n][s] /\ e.to = current[n][s]
    OBVIOUS
  <2> PICK m, t, r : Grows(m, t, r)
    BY StepExtendsOrKeeps, ExtensionOfPlace
  <2>1. m = n /\ t = s /\ current'[n][s] = r
    BY DEF Grows
  <2>2. r \notin Lineage(current[n][s])
    BY DEF Grows, Lineage
  <2>3. ASSUME current[n][s] # 0
        PROVE  [type |-> "DirectPredecessor", from |-> r,
                to |-> current[n][s], rollback |-> 0] \in DirectPredecessors'
    BY <2>1, <2>3 DEF Grows
  <2> QED BY <2>1, <2>2, <2>3 DEF DirectPredecessors
<1>2. Spec => [][Forward]_vars
  BY <1>1, LineageInvHolds, PTL DEF Spec
<1> QED BY <1>2 DEF CurrentMovesForward

(* A place that grows is a step of CanonicalKnowledge.                      *)
LEMMA GrowthExtends ==
  ASSUME LineageInv, LineageInv', NEW n, NEW s, NEW r, Grows(n, s, r)
  PROVE  Canon!CanonNext
<1> DEFINE chain == [m \in Nodes |-> [t \in Scopes |-> Lineage(current[m][t])]]
           pairs == {<< e.from, e.to >> : e \in DirectPredecessors}
<1>1. \A m \in Nodes, t \in Scopes :
        /\ Lineage(current[m][t]) = Accepted(m, t)
        /\ Lineage(current[m][t])' = Accepted(m, t)'
  BY DEF LineageInv, CompleteLineage
<1>2. /\ Accepted(n, s)' = Accepted(n, s) \union {r}
      /\ \A m \in Nodes, t \in Scopes :
            << m, t >> # << n, s >> => Accepted(m, t)' = Accepted(m, t)
  BY DEF Grows, Accepted
<1>3. \A m \in Nodes, t \in Scopes :
        Lineage(current[m][t])' =
          IF m = n /\ t = s THEN Lineage(current[m][t]) \union {r} ELSE Lineage(current[m][t])
  BY <1>1, <1>2
<1>4. chain' = [chain EXCEPT ![n][s] = @ \union {r}]
  <2> DEFINE L(m, t) == Lineage(current[m][t])
             M(m, t) == L(m, t)'
  <2>1. \A m \in Nodes, t \in Scopes :
          M(m, t) = IF m = n /\ t = s THEN L(m, t) \union {r} ELSE L(m, t)
    BY <1>3
  <2>2. chain = [m \in Nodes |-> [t \in Scopes |-> L(m, t)]]
        /\ chain' = [m \in Nodes |-> [t \in Scopes |-> M(m, t)]]
    OBVIOUS
  <2>3. n \in Nodes /\ s \in Scopes
    BY DEF Grows
  <2> HIDE DEF L, M, chain
  <2> QED BY <2>1, <2>2, <2>3
<1>5. pairs' = pairs \union (IF current[n][s] = 0 THEN {} ELSE {<< r, current[n][s] >>})
  <2>1. CASE current[n][s] = 0
    BY <2>1 DEF Grows
  <2>2. CASE current[n][s] # 0
    <3> DEFINE edge == [type |-> "DirectPredecessor", from |-> r,
                        to |-> current[n][s], rollback |-> 0]
    <3>1. DirectPredecessors' = DirectPredecessors \union {edge}
      BY <2>2 DEF Grows
    <3>2. << edge.from, edge.to >> = << r, current[n][s] >>
      OBVIOUS
    <3> HIDE DEF edge
    <3> QED BY <2>2, <3>1, <3>2
  <2> QED BY <2>1, <2>2
<1>6. \A m \in Nodes, t \in Scopes : r \notin chain[m][t]
  BY DEF Grows, Lineage
<1>7. /\ n \in Nodes /\ s \in Scopes /\ r # 0 /\ current'[n][s] = r
      /\ current[n][s] = 0 => \A t \in Scopes : current[n][t] = 0
      /\ current' = [current EXCEPT ![n][s] = r]
  BY DEF Grows
<1> HIDE DEF chain, pairs
<1>8. Canon!Extend(n, s, current'[n][s])
  BY <1>4, <1>5, <1>6, <1>7 DEF Canon!Extend, chain, pairs
<1> QED BY <1>7, <1>8 DEF Canon!CanonNext

(* The lifecycle implements CanonicalKnowledge: every step extends the      *)
(* chain of one place by one Revision or leaves all chains alone.           *)
THEOREM Implementation == Spec => ImplementsCanonicalKnowledge
<1>1. Init => Canon!CanonInit
  <2> SUFFICES ASSUME Init PROVE Canon!CanonInit
    OBVIOUS
  <2>1. RevisionIds = {} /\ DirectPredecessors = {}
    BY EmptySeq DEF Init, RevisionIds, DirectPredecessors
  <2> QED BY <2>1 DEF Init, Canon!CanonInit, Lineage
<1>2. LineageInv /\ LineageInv' /\ [Next]_vars => [Canon!CanonNext]_(Canon!canonVars)
  <2> SUFFICES ASSUME LineageInv, LineageInv', [Next]_vars
               PROVE  [Canon!CanonNext]_(Canon!canonVars)
    OBVIOUS
  <2>1. CASE \E p \in ProposalIds : Extends(p)
    BY <2>1, ExtensionOfPlace, GrowthExtends
  <2>2. CASE UNCHANGED << revisions, relationships, current, nodes >>
    <3>1. RevisionIds' = RevisionIds /\ DirectPredecessors' = DirectPredecessors
      BY <2>2 DEF RevisionIds, DirectPredecessors
    <3>2. \A S : ClosedUnderPredecessor(S)' = ClosedUnderPredecessor(S)
      BY <3>1 DEF ClosedUnderPredecessor, Predecessors
    <3>3. \A m \in Nodes, t \in Scopes : Lineage(current[m][t])' = Lineage(current[m][t])
      BY <2>2, <3>1, <3>2 DEF Lineage, IsAncestor
    <3> QED BY <2>2, <3>1, <3>3 DEF Canon!canonVars
  <2> QED BY <2>1, <2>2, StepExtendsOrKeeps
<1> QED BY <1>1, <1>2, LineageInvHolds, PTL DEF Spec, ImplementsCanonicalKnowledge, Canon!CanonSpec

-----------------------------------------------------------------------------
(* Proposals keep what was submitted; a review writes a decision once.      *)

Keeps(p) ==
  \/ proposals'[p] = proposals[p]
  \/ /\ proposals[p].status = "Submitted"
     /\ \E st \in {"Accepted", "Rejected"} :
          proposals'[p] = [proposals[p] EXCEPT !.status = st]

LEMMA InsertKeeps ==
  ASSUME TypeOK, NEW p \in Proposal, InsertProposal(p)
  PROVE  \A q \in ProposalIds : q \in ProposalIds' /\ Keeps(q)
<1>1. /\ \A q \in ProposalIds : proposals'[q] = proposals[q]
      /\ ProposalIds \subseteq ProposalIds'
  BY InsertProposalTypes
<1> QED BY <1>1 DEF Keeps

LEMMA DecideKeeps ==
  ASSUME TypeOK, NEW p \in ProposalIds, NEW decision \in {"Accepted", "Rejected"},
         NEW types, Decide(p, decision, types)
  PROVE  /\ \A q \in ProposalIds : q \in ProposalIds' /\ Keeps(q)
         /\ decisions \subseteq decisions'
<1>1. /\ proposals \in Seq(Proposal)
      /\ Len(proposals') = Len(proposals)
      /\ proposals' = [proposals EXCEPT ![p].status = decision]
      /\ proposals[p].status = "Submitted"
  BY DecideTypes DEF TypeOK
<1>2. \A q \in ProposalIds : q \in ProposalIds' /\ q \in DOMAIN proposals
  BY <1>1, LenProperties DEF ProposalIds
<1>3. ASSUME NEW q \in ProposalIds PROVE Keeps(q)
  <2>1. CASE q = p
    BY <1>1, <1>2, <2>1 DEF Keeps
  <2>2. CASE q # p
    BY <1>1, <1>2, <2>2 DEF Keeps
  <2> QED BY <2>1, <2>2
<1> QED BY <1>2, <1>3 DEF Decide

(* No step but a submission or a decision touches the Proposals.            *)
LEMMA StepKeeps ==
  ASSUME TypeOK, [Next]_vars
  PROVE  /\ \A q \in ProposalIds : q \in ProposalIds' /\ Keeps(q)
         /\ decisions \subseteq decisions'
<1>1. CASE \E p \in Proposal : InsertProposal(p)
  BY <1>1, InsertKeeps DEF InsertProposal
<1>2. CASE UNCHANGED << proposals, decisions >>
  BY <1>2 DEF Keeps, ProposalIds
<1>3. CASE \E p \in ProposalIds, decision \in {"Accepted", "Rejected"} :
             \E types : Decide(p, decision, types)
  BY <1>3, DecideKeeps
<1>4. CASE Submit
  <2>1. ASSUME NEW n \in Nodes, NEW s \in Scopes, SubmitInitial(n, s)
        PROVE  \E p \in Proposal : InsertProposal(p)
    BY <2>1 DEF SubmitInitial, Proposal, Kinds, Statuses
  <2>2. ASSUME NEW c \in Clients, SubmitSuccessor(c)
        PROVE  \E p \in Proposal : InsertProposal(p)
    <3>1. seen[c] \in RevisionIds
      BY <2>2 DEF SubmitSuccessor, TypeOK
    <3>2. seen[c] \in Nat /\ revisions[seen[c]] \in Revision
      BY <3>1, RowTypes DEF RevisionIds
    <3> QED BY <2>2, <3>2 DEF SubmitSuccessor, Proposal, Revision, Kinds, Statuses
  <2>3. ASSUME NEW c \in Clients, SubmitSuccessorRefused(c)
        PROVE  UNCHANGED << proposals, decisions >>
    BY <2>3 DEF SubmitSuccessorRefused
  <2>4. ASSUME NEW b \in RollbackIds, SubmitRestoration(b)
        PROVE  \E p \in Proposal : InsertProposal(p)
    <3>1. rollbacks[b] \in Rollback /\ b \in Nat
      BY ElementOfSeq, LenProperties DEF TypeOK, RollbackIds
    <3> QED BY <2>4, <3>1 DEF SubmitRestoration, Proposal, Rollback, Kinds, Statuses
  <2> QED BY <1>1, <1>2, <1>4, <2>1, <2>2, <2>3, <2>4 DEF Submit
<1>5. CASE Review
  BY <1>3, <1>5 DEF Review, Reject, AcceptInitial, AcceptSuccessor, AcceptRestoration
<1>6. CASE \/ \E c \in Clients, n \in Nodes, s \in Scopes : ReadCurrent(c, n, s)
           \/ \E n \in Nodes, s \in Scopes, reverted, source \in RevisionIds :
                RecordRollback(n, s, reverted, source)
           \/ UNCHANGED vars
  BY <1>2, <1>6 DEF ReadCurrent, RecordRollback, vars
<1> QED BY <1>4, <1>5, <1>6 DEF Next

(* A review is final, whatever happens after it: decided Proposals never    *)
(* change, undecided ones only gain their decision, and the rows of the     *)
(* append-only tables stay.                                                 *)
THEOREM ReviewsAreFinal == Spec => DecisionIsFinal
<1> DEFINE Final ==
      /\ \A p \in ProposalIds :
           \/ proposals'[p] = proposals[p]
           \/ /\ proposals[p].status = "Submitted"
              /\ \E st \in {"Accepted", "Rejected"} :
                   proposals'[p] = [proposals[p] EXCEPT !.status = st]
      /\ decisions \subseteq decisions'
      /\ relationships \subseteq relationships'
      /\ \A r \in RevisionIds : revisions'[r] = revisions[r]
<1>1. LineageInv /\ [Next]_vars => Final
  <2> SUFFICES ASSUME LineageInv, [Next]_vars PROVE Final
    OBVIOUS
  <2>1. TypeOK
    BY DEF LineageInv
  <2>2. (\A p \in ProposalIds : Keeps(p)) /\ decisions \subseteq decisions'
    BY <2>1, StepKeeps
  <2>3. relationships \subseteq relationships'
        /\ \A r \in RevisionIds : revisions'[r] = revisions[r]
    <3>1. CASE \E p \in ProposalIds : Extends(p)
      <4> PICK p \in ProposalIds : CreateRevision(p)
        BY <3>1 DEF Extends
      <4> QED BY <2>1, CreateRevisionTypes DEF CreateRevision
    <3>2. CASE UNCHANGED << revisions, relationships, current, nodes >>
      BY <3>2
    <3> QED BY <3>1, <3>2, StepExtendsOrKeeps
  <2> QED BY <2>2, <2>3 DEF Keeps
<1>2. Spec => [][Final]_vars
  BY <1>1, LineageInvHolds, PTL DEF Spec
<1> QED BY <1>2 DEF DecisionIsFinal

(* Whatever Initial Proposals compete for a Node id, its accepted Revisions *)
(* are in one scope and have one origin.                                    *)
THEOREM NodesHaveOneOrigin == Spec => []OneOrigin
<1>1. Init => OneOrigin
  BY EmptySeq DEF Init, OneOrigin, RevisionIds
<1>2. LineageInv /\ OneOrigin /\ [Next]_vars => OneOrigin'
  <2> SUFFICES ASSUME LineageInv, OneOrigin, [Next]_vars PROVE OneOrigin'
    OBVIOUS
  <2>1. TypeOK
    BY DEF LineageInv
  <2>2. \A r \in RevisionIds :
          proposals'[revisions[r].proposal].kind = proposals[revisions[r].proposal].kind
    <3> SUFFICES ASSUME NEW r \in RevisionIds
                 PROVE  proposals'[revisions[r].proposal].kind
                          = proposals[revisions[r].proposal].kind
      OBVIOUS
    <3>1. revisions[r].proposal \in ProposalIds
      BY <2>1 DEF TypeOK
    <3>2. proposals[revisions[r].proposal] \in Proposal /\ Keeps(revisions[r].proposal)
      BY <2>1, <3>1, RowTypes, StepKeeps
    <3> QED BY <3>2 DEF Keeps, Proposal
  <2>3. CASE UNCHANGED << revisions, relationships, current, nodes >>
    BY <2>2, <2>3 DEF OneOrigin, RevisionIds
  <2>4. CASE \E p \in ProposalIds : Extends(p)
    <3> PICK p \in ProposalIds : Extends(p)
      BY <2>4
    <3> DEFINE q == proposals[p]
    <3>1. /\ \A r \in RevisionIds : revisions'[r] = revisions[r]
          /\ revisions'[NextRevision] = [proposal |-> p, node |-> q.node, scope |-> q.scope]
          /\ RevisionIds' = RevisionIds \union {NextRevision}
          /\ NextRevision \notin RevisionIds
          /\ q \in Proposal
      BY <2>1, CreateRevisionTypes DEF Extends
    <3>2. proposals'[p].kind = q.kind
      BY <2>1, <3>1, StepKeeps DEF Keeps, Proposal
    <3>3. ASSUME NEW r \in RevisionIds, revisions[r].node = q.node
          PROVE  q.kind # "Initial" /\ revisions[r].scope = q.scope
      <4>1. q.node \in nodes
        BY <3>3 DEF LineageInv, KnownNodes
      <4>2. q.kind # "Initial" /\ IsCurrent(q.node, q.scope, q.expected)
        BY <4>1 DEF Extends
      <4>3. /\ current[q.node][q.scope] \in RevisionIds
            /\ revisions[current[q.node][q.scope]].node = q.node
            /\ revisions[current[q.node][q.scope]].scope = q.scope
        BY <2>1, <3>1, <4>2 DEF LineageInv, CurrentIsHead, IsCurrent, TypeOK, Proposal
      <4> QED BY <3>3, <4>2, <4>3 DEF OneOrigin
    <3> HIDE DEF q
    <3>4. ASSUME NEW r \in RevisionIds', NEW t \in RevisionIds',
                 revisions'[r].node = revisions'[t].node
          PROVE  /\ revisions'[r].scope = revisions'[t].scope
                 /\ (/\ proposals'[revisions'[r].proposal].kind = "Initial"
                     /\ proposals'[revisions'[t].proposal].kind = "Initial") => r = t
      <4>1. CASE r \in RevisionIds /\ t \in RevisionIds
        BY <2>2, <3>1, <3>4, <4>1 DEF OneOrigin
      <4>2. CASE r \in RevisionIds /\ t = NextRevision
        BY <3>1, <3>2, <3>3, <3>4, <4>2
      <4>3. CASE r = NextRevision /\ t \in RevisionIds
        BY <3>1, <3>2, <3>3, <3>4, <4>3
      <4>4. CASE r = NextRevision /\ t = NextRevision
        BY <4>4
      <4> QED BY <3>1, <4>1, <4>2, <4>3, <4>4
    <3> QED BY <3>4 DEF OneOrigin
  <2> QED BY <2>3, <2>4, StepExtendsOrKeeps
<1> QED BY <1>1, <1>2, LineageInvHolds, PTL DEF Spec

-----------------------------------------------------------------------------
(* Restorations.  A Rollback Event never names one Revision twice.          *)
RollbacksDiffer ==
  \A b \in RollbackIds : rollbacks[b].reverted # rollbacks[b].source

(* What RestorationIsGrounded demands of one relationship.                  *)
Grounded(e) ==
  /\ e.to \in Lineage(e.from) \ {e.from}
  /\ \E d \in relationships :
       /\ d.type = "Reverts" /\ d.from = e.from /\ d.rollback = e.rollback
       /\ d.to \in Predecessors(e.from) /\ d.to # e.to
       /\ e.rollback \in RollbackIds
       /\ rollbacks[e.rollback].reverted = d.to
       /\ rollbacks[e.rollback].source = e.to

(* Growing tables only add to a walk.                                       *)
LEMMA LineageGrows ==
  ASSUME NoFork, relationships \subseteq relationships', RevisionIds \subseteq RevisionIds',
         TypeOK, NEW h, NEW r \in Lineage(h)
  PROVE  r \in Lineage(h)'
<1>1. r \in RevisionIds' /\ h \in RevisionIds' /\ h \in RevisionIds
  BY DEF Lineage
<1>2. SUFFICES ASSUME NEW S \in SUBSET RevisionIds', h \in S, ClosedUnderPredecessor(S)'
               PROVE  r \in S
  BY <1>1 DEF Lineage, IsAncestor
<1> DEFINE T == S \intersect RevisionIds
<1>3. ClosedUnderPredecessor(T)
  <2> SUFFICES ASSUME NEW x \in T, NEW d \in DirectPredecessors, d.from = x
               PROVE  d.to \in T
    BY DEF ClosedUnderPredecessor, Predecessors
  <2>1. d \in DirectPredecessors'
    BY DEF DirectPredecessors
  <2>2. d.to \in S
    BY <1>2, <2>1 DEF ClosedUnderPredecessor, Predecessors
  <2>3. d.from \in RevisionIds /\ d.to \in 1 .. d.from - 1
    BY DEF NoFork
  <2>4. d.to \in RevisionIds
    BY <2>3, RowTypes DEF RevisionIds
  <2> QED BY <2>2, <2>4
<1>4. T \in SUBSET RevisionIds /\ h \in T
  BY <1>1, <1>2
<1>5. r \in T
  <2> HIDE DEF T
  <2> QED BY <1>3, <1>4 DEF Lineage, IsAncestor
<1> QED BY <1>5

(* A walk from a Revision stays in the table, and its relationships of the  *)
(* past are kept.                                                           *)
LEMMA GroundedStays ==
  ASSUME NoFork, TypeOK, relationships \subseteq relationships',
         RevisionIds \subseteq RevisionIds', RollbackIds \subseteq RollbackIds',
         \A b \in RollbackIds : rollbacks'[b] = rollbacks[b],
         NEW e, Grounded(e)
  PROVE  Grounded(e)'
<1>1. e.to \in Lineage(e.from)' /\ e.to # e.from
  BY LineageGrows DEF Grounded
<1>2. Predecessors(e.from) \subseteq Predecessors(e.from)'
  BY DEF Predecessors, DirectPredecessors
<1> QED BY <1>1, <1>2 DEF Grounded

(* Rollback Events stay, and a new one names two Revisions.                 *)
LEMMA RollbacksStay ==
  ASSUME TypeOK, RollbacksDiffer, [Next]_vars
  PROVE  /\ RollbackIds \subseteq RollbackIds' /\ RollbacksDiffer'
         /\ \A b \in RollbackIds : rollbacks'[b] = rollbacks[b]
<1>1. CASE UNCHANGED rollbacks
  BY <1>1 DEF RollbackIds, RollbacksDiffer
<1>2. CASE \E n \in Nodes, s \in Scopes, reverted, source \in RevisionIds :
              RecordRollback(n, s, reverted, source)
  <2> PICK n \in Nodes, s \in Scopes, reverted \in RevisionIds, source \in RevisionIds :
             RecordRollback(n, s, reverted, source)
    BY <1>2
  <2> PICK b : b = [node |-> n, scope |-> s, reverted |-> reverted, source |-> source]
    OBVIOUS
  <2>1. b \in Rollback /\ b.reverted # b.source
    BY LenProperties DEF Rollback, RevisionIds, TypeOK, RecordRollback
  <2>2. rollbacks' = Append(rollbacks, b) /\ rollbacks \in Seq(Rollback)
    BY DEF RecordRollback, TypeOK
  <2>3. /\ Len(rollbacks) \in Nat /\ Len(rollbacks') = Len(rollbacks) + 1
        /\ \A i \in 1 .. Len(rollbacks) : rollbacks'[i] = rollbacks[i]
        /\ rollbacks'[Len(rollbacks) + 1] = b
    BY <2>1, <2>2, AppendProperties, LenProperties
  <2>4. RollbackIds' = RollbackIds \union {Len(rollbacks) + 1}
    BY <2>3 DEF RollbackIds
  <2> QED BY <2>1, <2>3, <2>4 DEF RollbackIds, RollbacksDiffer
<1> QED BY <1>1, <1>2 DEF Next, Submit, SubmitInitial, SubmitSuccessor, SubmitSuccessorRefused,
             SubmitRestoration, InsertProposal, ReadCurrent, Review, Reject, AcceptInitial,
             AcceptSuccessor, AcceptRestoration, Decide, vars

(* A review that restores checks, in its transaction, everything that       *)
(* grounds the relationships it writes.                                     *)
LEMMA AcceptedRestorationIsGrounded ==
  ASSUME LineageInv, TypeOK', RollbacksDiffer, NEW p \in ProposalIds, AcceptRestoration(p),
         NEW e \in relationships', e.type = "RestoredFrom", e \notin relationships
  PROVE  Grounded(e)'
<1> PICK q, new : q = proposals[p] /\ new = NextRevision
  OBVIOUS
<1>1. /\ q.kind = "Restoration" /\ q.expected = current[q.node][q.scope] /\ q.expected # 0
      /\ q.node \in Nodes /\ q.scope \in Scopes /\ q.source \in Nat
      /\ q.rollback \in RollbackIds /\ UNCHANGED rollbacks
      /\ rollbacks[q.rollback].reverted = q.expected
      /\ rollbacks[q.rollback].source = q.source
      /\ IsAncestor(q.source, q.expected)
      /\ TypeOK /\ NoFork
  BY RowTypes DEF AcceptRestoration, IsCurrent, MatchesRollback, Decide, LineageInv, Proposal
<1>2. /\ RevisionIds' = RevisionIds \union {new} /\ new \notin RevisionIds
      /\ relationships' = relationships \union NewRelationships(q, new)
      /\ new \in Nat \ {0}
  BY <1>1, CreateRevisionTypes DEF AcceptRestoration, CreateRevision
<1>3. e = [type |-> "RestoredFrom", from |-> new, to |-> q.source, rollback |-> q.rollback]
  BY <1>1, <1>2 DEF NewRelationships
<1>4. q.expected \in RevisionIds
  BY <1>1 DEF TypeOK
<1>5. q.source \in Lineage(q.expected)
  <2>1. ClosedUnderPredecessor(RevisionIds)
    <3> SUFFICES ASSUME NEW x \in RevisionIds, NEW d \in DirectPredecessors, d.from = x
                 PROVE  d.to \in RevisionIds
      BY DEF ClosedUnderPredecessor, Predecessors
    <3> QED BY <1>1, RowTypes DEF NoFork, RevisionIds
  <2>2. q.source \in RevisionIds
    BY <1>1, <1>4, <2>1 DEF IsAncestor
  <2> QED BY <1>1, <1>4, <2>2 DEF Lineage
<1>6. q.source # q.expected
  BY <1>1 DEF RollbacksDiffer
<1> DEFINE back == [type |-> "DirectPredecessor", from |-> new, to |-> q.expected, rollback |-> 0]
           d == [type |-> "Reverts", from |-> new, to |-> q.expected, rollback |-> q.rollback]
<1>7. back \in relationships' /\ d \in relationships'
  BY <1>1, <1>2 DEF NewRelationships
<1>8. q.expected \in Predecessors(new)'
  BY <1>7 DEF Predecessors, DirectPredecessors
<1>9. q.source \in Lineage(new)'
  <2>1. q.source \in Lineage(q.expected)'
    BY <1>1, <1>2, <1>5, LineageGrows
  <2>2. ASSUME NEW S \in SUBSET RevisionIds', new \in S, ClosedUnderPredecessor(S)'
        PROVE  q.source \in S
    <3>1. q.expected \in S
      BY <1>8, <2>2 DEF ClosedUnderPredecessor
    <3> QED BY <2>1, <2>2, <3>1 DEF Lineage, IsAncestor
  <2>3. q.source \in RevisionIds' /\ new \in RevisionIds'
    BY <1>2, <1>5 DEF Lineage
  <2> QED BY <2>2, <2>3 DEF Lineage, IsAncestor
<1>10. q.source # new
  BY <1>2, <1>5 DEF Lineage
<1>11. RollbackIds' = RollbackIds
  BY <1>1 DEF RollbackIds
<1> QED BY <1>1, <1>3, <1>6, <1>7, <1>8, <1>9, <1>10, <1>11 DEF Grounded

(* However long after its Rollback Event a Restoration is accepted, it      *)
(* reverts its own predecessor and restores an older Revision of its line.  *)
THEOREM RestorationsAreGrounded == Spec => []RestorationIsGrounded
<1> DEFINE Inv == RollbacksDiffer /\ RestorationIsGrounded
<1>1. Init => Inv
  BY EmptySeq DEF Init, RollbacksDiffer, RestorationIsGrounded, RollbackIds
<1>2. LineageInv /\ LineageInv' /\ Inv /\ [Next]_vars => Inv'
  <2> SUFFICES ASSUME LineageInv, LineageInv', Inv, [Next]_vars PROVE Inv'
    OBVIOUS
  <2>1. TypeOK /\ TypeOK' /\ NoFork
    BY DEF LineageInv
  <2>2. /\ RollbackIds \subseteq RollbackIds' /\ RollbacksDiffer'
        /\ \A b \in RollbackIds : rollbacks'[b] = rollbacks[b]
    BY <2>1, RollbacksStay
  <2>3. relationships \subseteq relationships' /\ RevisionIds \subseteq RevisionIds'
    <3>1. CASE \E p \in ProposalIds : Extends(p)
      BY <2>1, <3>1, CreateRevisionTypes DEF Extends, CreateRevision
    <3>2. CASE UNCHANGED << revisions, relationships, current, nodes >>
      BY <3>2 DEF RevisionIds
    <3> QED BY <3>1, <3>2, StepExtendsOrKeeps
  <2>4. ASSUME NEW e \in relationships', e.type = "RestoredFrom" PROVE Grounded(e)'
    <3>1. CASE e \in relationships
      <4>1. Grounded(e)
        BY <2>4, <3>1 DEF RestorationIsGrounded, Grounded
      <4> QED BY <2>1, <2>2, <2>3, <4>1, GroundedStays
    <3>2. CASE e \notin relationships
      <4>1. PICK p \in ProposalIds : AcceptRestoration(p)
        <5>1. CASE Submit
          BY <2>4, <3>2, <5>1 DEF Submit, SubmitInitial, SubmitSuccessor,
             SubmitSuccessorRefused, SubmitRestoration, InsertProposal
        <5>2. PICK p \in ProposalIds :
                AcceptInitial(p) \/ AcceptSuccessor(p) \/ AcceptRestoration(p)
          BY <2>4, <3>2, <5>1 DEF Next, ReadCurrent, RecordRollback, Review, Reject, vars
        <5>3. proposals[p].kind = "Restoration"
          <6>1. e \in NewRelationships(proposals[p], NextRevision)
            BY <2>4, <3>2, <5>2
               DEF AcceptInitial, AcceptSuccessor, AcceptRestoration, CreateRevision
          <6> QED BY <2>4, <6>1 DEF NewRelationships
        <5> QED BY <5>2, <5>3 DEF AcceptInitial, AcceptSuccessor
      <4> QED BY <2>1, <2>4, <3>2, <4>1, AcceptedRestorationIsGrounded
    <3> QED BY <3>1, <3>2
  <2> QED BY <2>2, <2>4 DEF RestorationIsGrounded, Grounded
<1> QED BY <1>1, <1>2, LineageInvHolds, PTL DEF Spec

-----------------------------------------------------------------------------
(* The tables.  A row about a Proposal is written with the Proposal or with *)
(* its review, so no row speaks of one that does not exist.                 *)
DecisionsOf(p) == {d.decision : d \in {x \in decisions : x.proposal = p}}
AuditsOf(p) == {a.type : a \in {x \in audits : x.of = p /\ x.type # "RollbackRecorded"}}

RowsNameProposals ==
  /\ \A d \in decisions : d.proposal \in ProposalIds
  /\ \A a \in audits : a.type # "RollbackRecorded" => a.of \in ProposalIds

Agree(p) ==
  /\ DecisionsOf(p) = {proposals[p].status} \ {"Submitted"}
  /\ proposals[p].status = "Accepted" <=> \E r \in RevisionIds : revisions[r].proposal = p
  /\ \A r, q \in RevisionIds :
        revisions[r].proposal = p /\ revisions[q].proposal = p => r = q
  /\ AuditsOf(p) = ExpectedAudits(proposals[p])

LEMMA NoRollbackIsAudited ==
  ASSUME NEW kind
  PROVE  \A t \in AcceptanceAudits(kind) \union RejectionAudits(kind) \union {SubmissionAudit(kind)} :
            kind \in Kinds => t # "RollbackRecorded"
  BY DEF AcceptanceAudits, RejectionAudits, SubmissionAudit, Kinds

(* New audit events of one Proposal.                                        *)
LEMMA AuditsGrow ==
  ASSUME NEW types, NEW id, "RollbackRecorded" \notin types,
         audits' = audits \union Audited(types, id)
  PROVE  \A p : AuditsOf(p)' = IF p = id THEN AuditsOf(p) \union types ELSE AuditsOf(p)
<1> SUFFICES ASSUME NEW p
             PROVE  AuditsOf(p)' = IF p = id THEN AuditsOf(p) \union types ELSE AuditsOf(p)
  OBVIOUS
<1>1. CASE p = id
  <2>1. ASSUME NEW t \in AuditsOf(p)' PROVE t \in AuditsOf(p) \union types
    <3>1. PICK a \in audits' : a.of = p /\ a.type # "RollbackRecorded" /\ t = a.type
      BY <2>1 DEF AuditsOf
    <3>2. CASE a \in audits
      BY <3>1, <3>2 DEF AuditsOf
    <3>3. CASE a \in Audited(types, id)
      BY <3>1, <3>3 DEF Audited
    <3> QED BY <3>2, <3>3
  <2>2. ASSUME NEW t \in AuditsOf(p) PROVE t \in AuditsOf(p)'
    BY <2>2 DEF AuditsOf
  <2>3. ASSUME NEW t \in types PROVE t \in AuditsOf(p)'
    <3> PICK a : a = [type |-> t, of |-> id]
      OBVIOUS
    <3>1. a \in audits' /\ a.of = p /\ a.type = t /\ t # "RollbackRecorded"
      BY <1>1, <2>3 DEF Audited
    <3> QED BY <3>1 DEF AuditsOf
  <2> QED BY <1>1, <2>1, <2>2, <2>3
<1>2. CASE p # id
  <2>1. \A a : a \in audits' /\ a.of = p <=> a \in audits /\ a.of = p
    BY <1>2 DEF Audited
  <2> QED BY <1>2, <2>1 DEF AuditsOf
<1> QED BY <1>1, <1>2

(* A Proposal no step of this transaction is about.                         *)
LEMMA OthersAgree ==
  ASSUME NEW p, Agree(p), proposals'[p] = proposals[p],
         UNCHANGED << revisions >>, DecisionsOf(p)' = DecisionsOf(p), AuditsOf(p)' = AuditsOf(p)
  PROVE  Agree(p)'
<1>1. ExpectedAudits(proposals[p])' = ExpectedAudits(proposals[p])
  BY DEF ExpectedAudits
<1> QED BY <1>1 DEF Agree, RevisionIds

LEMMA SubmissionAgrees ==
  ASSUME TypeOK, RowsNameProposals, \A p \in ProposalIds : Agree(p),
         NEW q \in Proposal, q.status = "Submitted", InsertProposal(q)
  PROVE  RowsNameProposals' /\ \A p \in ProposalIds' : Agree(p)'
<1> PICK m : m = Len(proposals) + 1
  OBVIOUS
<1>1. /\ \A p \in ProposalIds : proposals'[p] = proposals[p]
      /\ proposals'[m] = q /\ ProposalIds' = ProposalIds \union {m} /\ m \notin ProposalIds
      /\ UNCHANGED << decisions, revisions >>
      /\ audits' = audits \union Audited({SubmissionAudit(q.kind)}, m)
  <2>1. Len(proposals) \in Nat /\ Len(proposals') = m
    BY RowTypes, InsertProposalTypes
  <2> QED BY <2>1, InsertProposalTypes DEF InsertProposal, ProposalIds
<1>2. \A p : AuditsOf(p)' = IF p = m THEN AuditsOf(p) \union {SubmissionAudit(q.kind)} ELSE AuditsOf(p)
  <2> PICK types : types = {SubmissionAudit(q.kind)}
    OBVIOUS
  <2>1. "RollbackRecorded" \notin types /\ audits' = audits \union Audited(types, m)
    BY <1>1, NoRollbackIsAudited DEF Proposal
  <2>2. \A p : AuditsOf(p)' = IF p = m THEN AuditsOf(p) \union types ELSE AuditsOf(p)
    BY <2>1, AuditsGrow
  <2> QED BY <2>2
<1>3. RowsNameProposals'
  BY <1>1 DEF RowsNameProposals, Audited
<1>4. ASSUME NEW p \in ProposalIds PROVE Agree(p)'
  <2>1. DecisionsOf(p)' = DecisionsOf(p) /\ AuditsOf(p)' = AuditsOf(p)
    BY <1>1, <1>2 DEF DecisionsOf
  <2> QED BY <1>1, <2>1, OthersAgree
<1>5. Agree(m)'
  <2>1. DecisionsOf(m)' = {}
    BY <1>1 DEF DecisionsOf, RowsNameProposals
  <2>2. AuditsOf(m)' = {SubmissionAudit(q.kind)}
    <3>1. AuditsOf(m) = {}
      BY <1>1 DEF AuditsOf, RowsNameProposals
    <3>2. AuditsOf(m)' = AuditsOf(m) \union {SubmissionAudit(q.kind)}
      BY <1>2
    <3> QED BY <3>1, <3>2
  <2>3. ExpectedAudits(proposals[m])' = {SubmissionAudit(q.kind)}
    BY <1>1 DEF ExpectedAudits
  <2>4. \A r \in RevisionIds' : revisions'[r].proposal # m
    BY <1>1 DEF TypeOK, RevisionIds
  <2> QED BY <1>1, <2>1, <2>2, <2>3, <2>4 DEF Agree
<1> QED BY <1>1, <1>3, <1>4, <1>5

(* What a decision does to the rows about Proposals.                        *)
LEMMA DecisionIsTold ==
  ASSUME TypeOK, RowsNameProposals, NEW p \in ProposalIds, Agree(p),
         NEW decision \in {"Accepted", "Rejected"}, NEW types,
         types = IF decision = "Accepted" THEN AcceptanceAudits(proposals[p].kind)
                                          ELSE RejectionAudits(proposals[p].kind),
         Decide(p, decision, types)
  PROVE  /\ RowsNameProposals' /\ ProposalIds' = ProposalIds
         /\ proposals'[p].status = decision /\ proposals[p].status = "Submitted"
         /\ DecisionsOf(p)' = {decision}
         /\ AuditsOf(p)' = ExpectedAudits(proposals[p])'
         /\ \A q \in ProposalIds \ {p} : /\ proposals'[q] = proposals[q]
                                         /\ DecisionsOf(q)' = DecisionsOf(q)
                                         /\ AuditsOf(q)' = AuditsOf(q)
<1>1. /\ proposals' = [proposals EXCEPT ![p].status = decision]
      /\ Len(proposals') = Len(proposals) /\ proposals[p].status = "Submitted"
      /\ proposals[p] \in Proposal /\ proposals \in Seq(Proposal)
  BY DecideTypes, RowTypes DEF TypeOK
<1>2. /\ ProposalIds' = ProposalIds /\ DOMAIN proposals = ProposalIds
      /\ proposals'[p].status = decision /\ proposals'[p].kind = proposals[p].kind
      /\ \A q \in ProposalIds \ {p} : proposals'[q] = proposals[q]
  <2>1. DOMAIN proposals = ProposalIds
    BY <1>1, LenProperties DEF ProposalIds
  <2> QED BY <1>1, <2>1 DEF ProposalIds, Proposal
<1> PICK d : d = [proposal |-> p, decision |-> decision]
  OBVIOUS
<1>3. decisions' = decisions \union {d} /\ d.proposal = p /\ d.decision = decision
  BY DEF Decide
<1>4. audits' = audits \union Audited(types, p) /\ "RollbackRecorded" \notin types
  BY <1>1, NoRollbackIsAudited DEF Decide, Proposal
<1>5. \A q : AuditsOf(q)' = IF q = p THEN AuditsOf(q) \union types ELSE AuditsOf(q)
  BY <1>4, AuditsGrow
<1>6. RowsNameProposals'
  BY <1>2, <1>3, <1>4 DEF RowsNameProposals, Audited
<1>7. DecisionsOf(p)' = {decision}
  <2>1. DecisionsOf(p) = {}
    BY <1>1 DEF Agree
  <2>2. \A x \in decisions : x.proposal # p
    BY <2>1 DEF DecisionsOf
  <2> QED BY <1>3, <2>2 DEF DecisionsOf
<1>8. \A q \in ProposalIds \ {p} : DecisionsOf(q)' = DecisionsOf(q)
  BY <1>3 DEF DecisionsOf
<1>9. AuditsOf(p)' = ExpectedAudits(proposals[p])'
  <2>1. AuditsOf(p) = {SubmissionAudit(proposals[p].kind)}
    BY <1>1 DEF Agree, ExpectedAudits
  <2>2. ExpectedAudits(proposals[p])' = {SubmissionAudit(proposals[p].kind)} \union types
    BY <1>2 DEF ExpectedAudits
  <2> QED BY <1>5, <2>1, <2>2
<1> QED BY <1>1, <1>2, <1>5, <1>6, <1>7, <1>8, <1>9

LEMMA ReviewAgrees ==
  ASSUME TypeOK, RowsNameProposals, \A q \in ProposalIds : Agree(q), Review
  PROVE  RowsNameProposals' /\ \A q \in ProposalIds' : Agree(q)'
<1> PICK p \in ProposalIds :
      Reject(p) \/ AcceptInitial(p) \/ AcceptSuccessor(p) \/ AcceptRestoration(p)
  BY DEF Review
<1>0. Agree(p)
  OBVIOUS
<1>1. CASE Reject(p)
  <2> PICK types : types = RejectionAudits(proposals[p].kind)
    OBVIOUS
  <2>1. Decide(p, "Rejected", types) /\ UNCHANGED revisions
    BY <1>1 DEF Reject
  <2>2. /\ RowsNameProposals' /\ ProposalIds' = ProposalIds
        /\ proposals'[p].status = "Rejected" /\ proposals[p].status = "Submitted"
        /\ DecisionsOf(p)' = {"Rejected"}
        /\ AuditsOf(p)' = ExpectedAudits(proposals[p])'
        /\ \A q \in ProposalIds \ {p} : /\ proposals'[q] = proposals[q]
                                        /\ DecisionsOf(q)' = DecisionsOf(q)
                                        /\ AuditsOf(q)' = AuditsOf(q)
    BY <1>0, <2>1, DecisionIsTold
  <2>3. Agree(p)'
    BY <1>0, <2>1, <2>2 DEF Agree, RevisionIds
  <2>4. \A q \in ProposalIds \ {p} : Agree(q)'
    BY <2>1, <2>2, OthersAgree
  <2> QED BY <2>2, <2>3, <2>4
<1>2. CASE AcceptInitial(p) \/ AcceptSuccessor(p) \/ AcceptRestoration(p)
  <2> PICK types : types = AcceptanceAudits(proposals[p].kind)
    OBVIOUS
  <2>1. Decide(p, "Accepted", types) /\ CreateRevision(p)
    BY <1>2 DEF AcceptInitial, AcceptSuccessor, AcceptRestoration
  <2>2. /\ RowsNameProposals' /\ ProposalIds' = ProposalIds
        /\ proposals'[p].status = "Accepted" /\ proposals[p].status = "Submitted"
        /\ DecisionsOf(p)' = {"Accepted"}
        /\ AuditsOf(p)' = ExpectedAudits(proposals[p])'
        /\ \A q \in ProposalIds \ {p} : /\ proposals'[q] = proposals[q]
                                        /\ DecisionsOf(q)' = DecisionsOf(q)
                                        /\ AuditsOf(q)' = AuditsOf(q)
    BY <1>0, <2>1, DecisionIsTold
  <2>3. PICK new : /\ RevisionIds' = RevisionIds \union {new} /\ new \notin RevisionIds
                   /\ \A r \in RevisionIds : revisions'[r] = revisions[r]
                   /\ revisions'[new].proposal = p
    <3> PICK n, s : n = proposals[p].node /\ s = proposals[p].scope
      OBVIOUS
    <3> PICK new : new = NextRevision
      OBVIOUS
    <3>1. /\ revisions'[new] = [proposal |-> p, node |-> n, scope |-> s]
          /\ RevisionIds' = RevisionIds \union {new} /\ new \notin RevisionIds
          /\ \A r \in RevisionIds : revisions'[r] = revisions[r]
      BY <2>1, CreateRevisionTypes
    <3> QED BY <3>1
  <2>4. \A r \in RevisionIds : revisions[r].proposal # p
    BY <1>0, <2>2 DEF Agree
  <2>5. Agree(p)'
    BY <2>2, <2>3, <2>4 DEF Agree
  <2>6. ASSUME NEW q \in ProposalIds \ {p} PROVE Agree(q)'
    <3>1. Agree(q) /\ proposals'[q] = proposals[q]
      BY <2>2
    <3>2. ExpectedAudits(proposals[q])' = ExpectedAudits(proposals[q])
      BY <3>1 DEF ExpectedAudits
    <3> QED BY <2>2, <2>3, <3>1, <3>2 DEF Agree
  <2> QED BY <2>2, <2>5, <2>6
<1> QED BY <1>1, <1>2

(* In whatever order Proposals are submitted and reviewed, every table      *)
(* tells the same story about each of them.                                 *)
THEOREM TablesTellOneStory == Spec => []TablesAgree
<1> DEFINE Inv == RowsNameProposals /\ \A p \in ProposalIds : Agree(p)
<1>1. Init => Inv
  BY EmptySeq DEF Init, RowsNameProposals, ProposalIds
<1>2. TypeOK /\ Inv /\ [Next]_vars => Inv'
  <2> SUFFICES ASSUME TypeOK, Inv, [Next]_vars PROVE Inv'
    OBVIOUS
  <2>1. CASE UNCHANGED << proposals, decisions, revisions, audits >>
    <3>1. ProposalIds' = ProposalIds /\ RowsNameProposals'
      BY <2>1 DEF RowsNameProposals, ProposalIds
    <3>2. ASSUME NEW p \in ProposalIds PROVE Agree(p)'
      BY <2>1, OthersAgree DEF DecisionsOf, AuditsOf
    <3> QED BY <3>1, <3>2
  <2>2. CASE Submit
    <3>1. ASSUME NEW n \in Nodes, NEW s \in Scopes, SubmitInitial(n, s) PROVE Inv'
      <4> DEFINE q == [kind |-> "Initial", node |-> n, scope |-> s, status |-> "Submitted",
                       expected |-> 0, rollback |-> 0, source |-> 0]
      <4>1. InsertProposal(q) /\ q \in Proposal /\ q.status = "Submitted"
        BY <3>1 DEF SubmitInitial, Proposal, Kinds, Statuses
      <4> HIDE DEF q
      <4> QED BY <4>1, SubmissionAgrees
    <3>2. ASSUME NEW c \in Clients, SubmitSuccessor(c) PROVE Inv'
      <4> DEFINE q == [kind |-> "Successor", node |-> revisions[seen[c]].node,
                       scope |-> revisions[seen[c]].scope, status |-> "Submitted",
                       expected |-> seen[c], rollback |-> 0, source |-> 0]
      <4>1. seen[c] \in RevisionIds
        BY <3>2 DEF SubmitSuccessor, TypeOK
      <4>2. seen[c] \in Nat /\ revisions[seen[c]] \in Revision
        BY <4>1, RowTypes DEF RevisionIds
      <4>3. InsertProposal(q) /\ q \in Proposal /\ q.status = "Submitted"
        BY <3>2, <4>2 DEF SubmitSuccessor, Proposal, Revision, Kinds, Statuses
      <4> HIDE DEF q
      <4> QED BY <4>3, SubmissionAgrees
    <3>3. ASSUME NEW b \in RollbackIds, SubmitRestoration(b) PROVE Inv'
      <4> DEFINE q == [kind |-> "Restoration", node |-> rollbacks[b].node,
                       scope |-> rollbacks[b].scope, status |-> "Submitted",
                       expected |-> rollbacks[b].reverted, rollback |-> b,
                       source |-> rollbacks[b].source]
      <4>1. rollbacks[b] \in Rollback /\ b \in Nat
        BY ElementOfSeq, LenProperties DEF TypeOK, RollbackIds
      <4>2. InsertProposal(q) /\ q \in Proposal /\ q.status = "Submitted"
        BY <3>3, <4>1 DEF SubmitRestoration, Proposal, Rollback, Kinds, Statuses
      <4> HIDE DEF q
      <4> QED BY <4>2, SubmissionAgrees
    <3> QED BY <2>1, <2>2, <3>1, <3>2, <3>3 DEF Submit, SubmitSuccessorRefused
  <2>3. CASE Review
    BY <2>3, ReviewAgrees
  <2>4. CASE \E n \in Nodes, s \in Scopes, reverted, source \in RevisionIds :
                RecordRollback(n, s, reverted, source)
    <3> PICK n \in Nodes, s \in Scopes, reverted \in RevisionIds, source \in RevisionIds :
               RecordRollback(n, s, reverted, source)
      BY <2>4
    <3>1. UNCHANGED << proposals, decisions, revisions >> /\ ProposalIds' = ProposalIds
      BY DEF RecordRollback, ProposalIds
    <3>2. \A a : a.type # "RollbackRecorded" => (a \in audits' <=> a \in audits)
      BY DEF RecordRollback, Audited
    <3>3. RowsNameProposals'
      BY <3>1, <3>2 DEF RowsNameProposals
    <3>4. ASSUME NEW p \in ProposalIds PROVE Agree(p)'
      <4>1. AuditsOf(p)' = AuditsOf(p) /\ DecisionsOf(p)' = DecisionsOf(p)
        BY <3>1, <3>2 DEF AuditsOf, DecisionsOf
      <4> QED BY <3>1, <4>1, OthersAgree
    <3> QED BY <3>1, <3>3, <3>4
  <2> QED BY <2>1, <2>2, <2>3, <2>4 DEF Next, ReadCurrent, vars
<1>3. Inv => TablesAgree
  BY DEF TablesAgree, Agree, DecisionsOf, AuditsOf
<1> QED BY <1>1, <1>2, <1>3, TypeCorrect, PTL DEF Spec

-----------------------------------------------------------------------------
(* Node keys.  A command keeps what it was asked for.                       *)
KnownJob(j) ==
  /\ j.at \in Stages
  /\ j.at # "idle" => j.key \in Keys
  /\ j.at \in {"submitted", "checked"} => j.node \in Nodes

KeysInv ==
  /\ keys \subseteq NodeKey
  /\ \A r, q \in keys : r.key = q.key \/ r.node = q.node => r = q
  /\ job = [a \in Actors |-> job[a]]
  /\ \A a \in Actors : KnownJob(job[a])

LEMMA JobMoves ==
  ASSUME KeysInv, keys' = keys, NEW a \in Actors, NEW j, Goto(a, j), KnownJob(j)
  PROVE  KeysInv' /\ keys \subseteq keys'
<1>1. \A x \in Actors : job'[x] = IF x = a THEN j ELSE job[x]
  BY DEF Goto, KeysInv
<1>2. job' = [x \in Actors |-> job'[x]]
  BY DEF Goto, KeysInv
<1>3. ASSUME NEW x \in Actors PROVE KnownJob(job[x])'
  BY <1>1 DEF KeysInv, KnownJob
<1> QED BY <1>2, <1>3 DEF KeysInv

LEMMA CommandKeeps ==
  ASSUME KeysInv, TypeOK, NEW a \in Actors, Command(a)
  PROVE  KeysInv' /\ keys \subseteq keys'
<1>0. KnownJob(Idle)
  BY DEF KnownJob, Idle, Stages
<1>1. ASSUME NEW k \in Keys, ProposeNew(a, k) PROVE KeysInv' /\ keys \subseteq keys'
  <2> PICK j : j = [at |-> "proposing", key |-> k]
    OBVIOUS
  <2>1. KnownJob(j)
    BY DEF KnownJob, Stages
  <2> QED BY <1>1, <2>1, JobMoves DEF ProposeNew
<1>2. ASSUME NEW n \in Nodes, NEW s \in Scopes, SubmitKeyed(a, n, s)
      PROVE  KeysInv' /\ keys \subseteq keys'
  <2> PICK j : j = [at |-> "submitted", key |-> job[a].key, node |-> n]
    OBVIOUS
  <2>1. KnownJob(j)
    BY <1>2 DEF KeysInv, SubmitKeyed, KnownJob, Stages
  <2> QED BY <1>2, <2>1, JobMoves DEF SubmitKeyed
<1>3. ASSUME NEW k \in Keys, NEW n \in Nodes, KeyNode(a, k, n)
      PROVE  KeysInv' /\ keys \subseteq keys'
  <2> PICK j : j = [at |-> "submitted", key |-> k, node |-> n]
    OBVIOUS
  <2>1. KnownJob(j)
    BY DEF KnownJob, Stages
  <2> QED BY <1>3, <2>1, JobMoves DEF KeyNode
<1>4. CASE CheckTarget(a)
  <2> PICK j : j = [at |-> "checked", key |-> job[a].key, node |-> job[a].node]
    OBVIOUS
  <2>1. KnownJob(j)
    BY <1>4 DEF KeysInv, CheckTarget, KnownJob, Stages
  <2>2. keys' = keys /\ (Goto(a, Idle) \/ Goto(a, j))
    BY <1>4 DEF CheckTarget
  <2> QED BY <1>0, <2>1, <2>2, JobMoves
<1>5. CASE AssignNodeKey(a)
  <2> PICK r : r = [key |-> job[a].key, node |-> job[a].node, by |-> a]
    OBVIOUS
  <2>1. r \in NodeKey
    BY <1>5 DEF AssignNodeKey, KeysInv, KnownJob, NodeKey
  <2>2. CASE keys' = keys
    BY <1>0, <1>5, <2>2, JobMoves DEF AssignNodeKey
  <2>3. CASE keys' = keys \union {r} /\ ~ Taken(r.key) /\ ~ Keyed(r.node)
    <3>1. keys' \subseteq NodeKey /\ keys \subseteq keys'
      BY <2>1, <2>3 DEF KeysInv
    <3>2. \A p, q \in keys' : p.key = q.key \/ p.node = q.node => p = q
      BY <2>3 DEF KeysInv, Taken, Keyed
    <3>3. job' = [x \in Actors |-> job'[x]] /\ \A x \in Actors : job'[x] = IF x = a THEN Idle ELSE job[x]
      BY <1>5 DEF AssignNodeKey, Goto, KeysInv
    <3>4. ASSUME NEW x \in Actors PROVE KnownJob(job[x])'
      BY <1>0, <3>3 DEF KeysInv, KnownJob
    <3> QED BY <3>1, <3>2, <3>3, <3>4 DEF KeysInv
  <2> QED BY <1>5, <2>2, <2>3 DEF AssignNodeKey
<1>6. CASE Abort(a)
  BY <1>0, <1>6, JobMoves DEF Abort
<1> QED BY <1>1, <1>2, <1>3, <1>4, <1>5, <1>6 DEF Command

LEMMA KeysInductive == KeysInv /\ TypeOK /\ [KeysNext]_allVars => KeysInv' /\ keys \subseteq keys'
<1> SUFFICES ASSUME KeysInv, TypeOK, [KeysNext]_allVars PROVE KeysInv' /\ keys \subseteq keys'
  OBVIOUS
<1>1. CASE UNCHANGED keyVars
  BY <1>1 DEF keyVars, KeysInv, KnownJob
<1>2. ASSUME NEW a \in Actors, Command(a) PROVE KeysInv' /\ keys \subseteq keys'
  BY <1>2, CommandKeeps
<1> QED BY <1>1, <1>2 DEF KeysNext, allVars

(* Every command is a step of the lifecycle, or none.                       *)
LEMMA KeysStep == [KeysNext]_allVars => [Next]_vars
BY DEF KeysNext, allVars, Command, ProposeNew, SubmitKeyed, KeyNode, CheckTarget, AssignNodeKey,
       Abort, Next, Submit

(* A key that is assigned is assigned for good, and to one Node, whatever   *)
(* commands, reviews and deaths of processes come between the look at the   *)
(* keys and their writing.                                                  *)
THEOREM KeysStay == KeysSpec => KeysArePermanent
<1>1. KeysInit => KeysInv /\ TypeOK
  BY LineageInitially DEF KeysInit, KeysInv, KnownJob, Idle, Stages, LineageInv
<1>2. KeysInv /\ TypeOK /\ [KeysNext]_allVars => KeysInv' /\ TypeOK' /\ keys \subseteq keys'
  BY KeysInductive, KeysStep, NextTypes
<1>3. KeysInv => KeysTypeOK
  BY DEF KeysInv, KnownJob, KeysTypeOK
<1>4. KeysInv /\ TypeOK /\ [KeysNext]_allVars => [KeysTypeOK' /\ keys \subseteq keys']_allVars
  BY <1>2, <1>3, PTL
<1> QED BY <1>1, <1>2, <1>4, PTL DEF KeysSpec, KeysArePermanent

-----------------------------------------------------------------------------
(* The History.  What the call holds between its statements stays true:     *)
(* the walk from a Revision never finds another set later, and a Revision   *)
(* that was superseded stays so.                                            *)

Superseded(r) == \E d \in relationships : d.type = "Supersedes" /\ d.to = r

(* Every Revision the walk from h visits before h itself is superseded.     *)
SupersededBefore(h) == \A r \in Lineage(h) \ {h} : Superseded(r)

OthersAreSuperseded ==
  \A n \in Nodes, s \in Scopes : \A r \in Accepted(n, s) \ {current[n][s]} : Superseded(r)

(* A step adds at most one Revision, with what its acceptance writes.       *)
LEMMA TablesGrow ==
  ASSUME LineageInv, [Next]_vars
  PROVE  /\ RevisionIds \subseteq RevisionIds' /\ relationships \subseteq relationships'
         /\ \A d \in DirectPredecessors' : d.from \in RevisionIds => d \in DirectPredecessors
<1>1. CASE UNCHANGED << revisions, relationships, current, nodes >>
  BY <1>1 DEF RevisionIds, DirectPredecessors
<1>2. ASSUME NEW p \in ProposalIds, Extends(p)
      PROVE  /\ RevisionIds \subseteq RevisionIds' /\ relationships \subseteq relationships'
             /\ \A d \in DirectPredecessors' : d.from \in RevisionIds => d \in DirectPredecessors
  <2>1. Grows(proposals[p].node, proposals[p].scope, NextRevision)
    BY <1>2, ExtensionOfPlace
  <2>2. relationships \subseteq relationships'
    BY <1>2 DEF Extends, CreateRevision
  <2>3. NextRevision \notin RevisionIds /\ RevisionIds \subseteq RevisionIds'
    BY <2>1 DEF Grows
  <2>4. ASSUME NEW d \in DirectPredecessors', d \notin DirectPredecessors
        PROVE  d.from = NextRevision
    BY <2>1, <2>4 DEF Grows
  <2> QED BY <2>2, <2>3, <2>4
<1> QED BY <1>1, <1>2, StepExtendsOrKeeps

(* The walk from a Revision is fixed from the moment it is accepted.        *)
LEMMA LineageIsFixed ==
  ASSUME LineageInv, [Next]_vars, NEW h \in RevisionIds
  PROVE  Lineage(h)' = Lineage(h)
<1>0. NoFork /\ TypeOK
  BY DEF LineageInv
<1>1. ASSUME NEW r \in Lineage(h) PROVE r \in Lineage(h)'
  BY <1>0, TablesGrow, LineageGrows
<1>2. ASSUME NEW r \in Lineage(h)' PROVE r \in Lineage(h)
  <2>1. ASSUME NEW S \in SUBSET RevisionIds, h \in S, ClosedUnderPredecessor(S) PROVE r \in S
    <3>1. ClosedUnderPredecessor(S)'
      <4> SUFFICES ASSUME NEW x \in S, NEW d \in DirectPredecessors', d.from = x
                   PROVE  d.to \in S
        BY DEF ClosedUnderPredecessor, Predecessors
      <4>1. d \in DirectPredecessors
        BY TablesGrow
      <4> QED BY <2>1, <4>1 DEF ClosedUnderPredecessor, Predecessors
    <3>2. S \in SUBSET RevisionIds'
      BY TablesGrow
    <3> QED BY <1>2, <2>1, <3>1, <3>2 DEF Lineage, IsAncestor
  <2>2. ClosedUnderPredecessor(RevisionIds)
    <3> SUFFICES ASSUME NEW d \in DirectPredecessors, d.from \in RevisionIds
                 PROVE  d.to \in RevisionIds
      BY DEF ClosedUnderPredecessor, Predecessors
    <3>1. d.to \in 1 .. d.from - 1
      BY <1>0 DEF NoFork
    <3> QED BY <1>0, <3>1, RowTypes DEF RevisionIds
  <2>3. r \in RevisionIds
    BY <2>1, <2>2
  <2> QED BY <2>1, <2>3 DEF Lineage, IsAncestor
<1> QED BY <1>1, <1>2

LEMMA SupersededStays ==
  ASSUME LineageInv, [Next]_vars, NEW h \in RevisionIds, SupersededBefore(h)
  PROVE  SupersededBefore(h)'
<1>1. Lineage(h)' = Lineage(h) /\ relationships \subseteq relationships'
  BY LineageIsFixed, TablesGrow
<1>2. ASSUME NEW r \in Lineage(h) \ {h} PROVE Superseded(r)'
  BY <1>1 DEF SupersededBefore, Superseded
<1> QED BY <1>1, <1>2 DEF SupersededBefore

(* Only the Current Revision of a place is not superseded.                  *)
LEMMA SupersessionInductive ==
  ASSUME LineageInv, [Next]_vars, OthersAreSuperseded
  PROVE  OthersAreSuperseded'
<1>1. CASE UNCHANGED << revisions, relationships, current, nodes >>
  BY <1>1 DEF OthersAreSuperseded, Accepted, RevisionIds, Superseded
<1>2. ASSUME NEW p \in ProposalIds, Extends(p) PROVE OthersAreSuperseded'
  <2> PICK n, s, new : n = proposals[p].node /\ s = proposals[p].scope /\ new = NextRevision
    OBVIOUS
  <2>1. Grows(n, s, new)
    BY <1>2, ExtensionOfPlace
  <2>2. relationships \subseteq relationships'
    BY TablesGrow
  <2>3. ASSUME NEW m \in Nodes, NEW t \in Scopes, NEW r \in Accepted(m, t)', r # current'[m][t]
        PROVE  Superseded(r)'
    <3>1. CASE r = new
      <4>1. m = n /\ t = s
        BY <2>1, <3>1 DEF Grows, Accepted
      <4> QED BY <2>1, <2>3, <3>1, <4>1 DEF Grows
    <3>2. CASE r # new
      <4>1. r \in Accepted(m, t)
        BY <2>1, <3>2 DEF Grows, Accepted
      <4>2. CASE r # current[m][t]
        <5>1. Superseded(r)
          BY <4>1, <4>2 DEF OthersAreSuperseded
        <5> QED BY <2>2, <5>1 DEF Superseded
      <4>3. CASE r = current[m][t]
        <5>1. m = n /\ t = s
          BY <2>1, <2>3, <4>3 DEF Grows
        <5>2. r # 0
          BY <4>1, RowTypes DEF Accepted, RevisionIds, LineageInv
        <5>3. proposals[p].kind # "Initial" /\ proposals[p].expected = r
          <6>1. r \in RevisionIds /\ revisions[r].node = n
            BY <4>1, <5>1 DEF Accepted
          <6>2. n \in nodes
            BY <6>1 DEF LineageInv, KnownNodes
          <6> QED BY <1>2, <4>3, <5>1, <6>2 DEF Extends, IsCurrent
        <5> PICK d : d = [type |-> "Supersedes", from |-> new, to |-> r, rollback |-> 0]
          OBVIOUS
        <5>4. d \in NewRelationships(proposals[p], new)
          BY <5>3 DEF NewRelationships
        <5>5. d \in relationships' /\ d.type = "Supersedes" /\ d.to = r
          BY <1>2, <5>4 DEF Extends, CreateRevision
        <5> QED BY <5>5 DEF Superseded
      <4> QED BY <4>2, <4>3
    <3> QED BY <3>1, <3>2
  <2> QED BY <2>3 DEF OthersAreSuperseded
<1> QED BY <1>1, <1>2, StepExtendsOrKeeps

-----------------------------------------------------------------------------
(* What an entry must be called.                                            *)
WellCalled(e) ==
  IF e.revision = head THEN "CurrentCanonical" \in e.called
  ELSE {"Historical", "Superseded"} \subseteq e.called /\ "CurrentCanonical" \notin e.called

(* What the call holds at each of its statements.                           *)
Reads ==
  /\ step \in {"idle", "list", "walk", "entries"}
  /\ place \in [node : Nodes, scope : Scopes]
  /\ head \in RevisionIds \union {0} /\ listed \subseteq RevisionIds
  /\ answer \in Answers
  /\ step # "idle" => answer = "None"
  /\ step # "idle" \/ answer = "History" => head \in RevisionIds /\ SupersededBefore(head)
  /\ step = "entries" \/ answer = "History" => listed = Lineage(head)
  /\ step \in {"list", "walk"} => entries = {}

Entries ==
  /\ entries \subseteq [revision : listed, called : SUBSET Classifications]
  /\ \A e \in entries : WellCalled(e)
  /\ \A e, f \in entries : e.revision = f.revision => e = f
  /\ answer = "History" => {e.revision : e \in entries} = listed

HistoryInv == LineageInv /\ OthersAreSuperseded /\ Reads /\ Entries

(* The writers leave what the call holds true.                              *)
LEMMA WritersKeep ==
  ASSUME HistoryInv, [Next]_vars, UNCHANGED reader
  PROVE  HistoryInv'
<1>0. LineageInv /\ OthersAreSuperseded
  BY DEF HistoryInv
<1>1. LineageInv' /\ OthersAreSuperseded'
  BY <1>0, LineageInductive, SupersessionInductive
<1>2. UNCHANGED << step, place, head, listed, entries, answer >>
  BY DEF reader
<1>3. Entries'
  BY <1>2 DEF HistoryInv, Entries, WellCalled
<1>4. ASSUME head \in RevisionIds
      PROVE  Lineage(head)' = Lineage(head) /\ (SupersededBefore(head) => SupersededBefore(head)')
  <2> PICK h \in RevisionIds : h = head
    BY <1>4
  <2>1. Lineage(h)' = Lineage(h) /\ (SupersededBefore(h) => SupersededBefore(h)')
    BY <1>0, LineageIsFixed, SupersededStays
  <2>2. Lineage(head)' = Lineage(h)' /\ (SupersededBefore(h)' => SupersededBefore(head)')
    BY <1>2 DEF Lineage, IsAncestor, SupersededBefore
  <2> QED BY <2>1, <2>2
<1>5. Reads'
  <2>1. RevisionIds \subseteq RevisionIds'
    BY <1>0, TablesGrow
  <2> QED BY <1>2, <1>4, <2>1 DEF HistoryInv, Reads
<1> QED BY <1>1, <1>3, <1>5 DEF HistoryInv

(* The tables of an earlier state are those of now while only the reader    *)
(* moves.                                                                   *)
LEMMA ReaderKeeps ==
  ASSUME LineageInv, OthersAreSuperseded, UNCHANGED vars
  PROVE  /\ LineageInv' /\ OthersAreSuperseded' /\ RevisionIds' = RevisionIds
         /\ \A h : Lineage(h)' = Lineage(h) /\ (SupersededBefore(h) => SupersededBefore(h)')
<1>1. LineageInv' /\ OthersAreSuperseded'
  BY LineageInductive, SupersessionInductive
<1>2. RevisionIds' = RevisionIds /\ DirectPredecessors' = DirectPredecessors /\ relationships' = relationships
  BY DEF vars, RevisionIds, DirectPredecessors
<1>3. \A S : ClosedUnderPredecessor(S)' = ClosedUnderPredecessor(S)
  BY <1>2 DEF ClosedUnderPredecessor, Predecessors
<1>4. \A h : Lineage(h)' = Lineage(h)
  BY <1>2, <1>3 DEF Lineage, IsAncestor
<1>5. \A h : SupersededBefore(h) => SupersededBefore(h)'
  BY <1>2, <1>4 DEF SupersededBefore, Superseded
<1> QED BY <1>1, <1>2, <1>4, <1>5

(* A call starts at a Current Revision, whose predecessors are superseded.  *)
LEMMA StartKeeps ==
  ASSUME HistoryInv, NEW n \in Nodes, NEW s \in Scopes, StartHistory(n, s)
  PROVE  HistoryInv'
<1>0. LineageInv /\ OthersAreSuperseded /\ UNCHANGED vars
  BY DEF HistoryInv, StartHistory
<1> PICK h : h = current[n][s]
  OBVIOUS
<1>1. /\ LineageInv' /\ OthersAreSuperseded' /\ RevisionIds' = RevisionIds
      /\ SupersededBefore(h) => SupersededBefore(h)'
  BY <1>0, ReaderKeeps
<1>2. h \in RevisionIds \union {0}
  BY <1>0 DEF LineageInv, TypeOK
<1>3. SupersededBefore(h)
  BY <1>0 DEF LineageInv, CompleteLineage, OthersAreSuperseded, SupersededBefore
<1>4. /\ step' \in {"idle", "list"} /\ answer' \in {"NotFound", "None"}
      /\ step' # "idle" => answer' = "None" /\ h # 0
      /\ place' \in [node : Nodes, scope : Scopes] /\ head' = h /\ listed' = {} /\ entries' = {}
  BY DEF StartHistory
<1>5. step' # "idle" => SupersededBefore(head)' /\ head' \in RevisionIds'
  <2>1. SupersededBefore(h)' => SupersededBefore(head)'
    BY <1>4 DEF SupersededBefore, Lineage, IsAncestor
  <2> QED BY <1>1, <1>2, <1>3, <1>4, <2>1
<1>6. Reads'
  BY <1>1, <1>2, <1>4, <1>5 DEF Reads, Answers
<1>7. Entries'
  BY <1>4 DEF Entries
<1> QED BY <1>1, <1>6, <1>7 DEF HistoryInv

(* The list and the walk; nothing is answered unless they agree.            *)
LEMMA ListAndWalkKeep ==
  ASSUME HistoryInv, ListAccepted \/ Walk
  PROVE  HistoryInv'
<1>0. LineageInv /\ OthersAreSuperseded /\ UNCHANGED vars /\ UNCHANGED << place, head, entries >>
  BY DEF HistoryInv, ListAccepted, Walk
<1> PICK h : h = head
  OBVIOUS
<1>1. /\ LineageInv' /\ OthersAreSuperseded' /\ RevisionIds' = RevisionIds
      /\ Lineage(h)' = Lineage(h)
      /\ SupersededBefore(h) => SupersededBefore(h)'
  BY <1>0, ReaderKeeps
<1>2. step # "idle" /\ entries = {} /\ h \in RevisionIds /\ SupersededBefore(h) /\ answer = "None"
  BY DEF HistoryInv, Reads, ListAccepted, Walk
<1>3. SupersededBefore(head)' /\ Lineage(head)' = Lineage(h)
  <2>1. Lineage(head)' = Lineage(h)' /\ (SupersededBefore(h)' => SupersededBefore(head)')
    BY <1>0 DEF SupersededBefore, Lineage, IsAncestor
  <2> QED BY <1>1, <1>2, <2>1
<1>4. /\ step' \in {"walk", "entries", "idle"} /\ answer' \in {"None", "InvalidLineageError"}
      /\ step' # "idle" => answer' = "None"
      /\ listed' \subseteq RevisionIds
      /\ step' = "entries" => listed' = Lineage(h)
  BY <1>2 DEF ListAccepted, Walk, Accepted, HistoryInv, Reads
<1>5. Reads'
  BY <1>0, <1>1, <1>2, <1>3, <1>4 DEF HistoryInv, Reads, Answers
<1>6. Entries'
  BY <1>0, <1>2, <1>4 DEF Entries
<1> QED BY <1>1, <1>5, <1>6 DEF HistoryInv

(* What an entry is called follows from the relationships that reach it.    *)
LEMMA ClassifiedWell ==
  ASSUME LineageInv, SupersededBefore(head), NEW r \in Lineage(head), NEW e, NEW types,
         types = {d.type : d \in {x \in relationships : x.to = r}},
         e = [revision |-> r, called |-> Classify(r, types)]
  PROVE  WellCalled(e) /\ e.called \subseteq Classifications /\ e.revision = r
<1>1. e.revision = r /\ e.called = Classify(r, types)
  OBVIOUS
<1>2. e.called \subseteq Classifications
  BY <1>1 DEF Classify, Classifications
<1>3. ASSUME r # head PROVE "Supersedes" \in types
  BY <1>3 DEF SupersededBefore, Superseded
<1> QED BY <1>1, <1>2, <1>3 DEF WellCalled, Classify

LEMMA EntryKeeps ==
  ASSUME HistoryInv, BuildEntry
  PROVE  HistoryInv'
<1>0. LineageInv /\ OthersAreSuperseded /\ UNCHANGED vars /\ UNCHANGED << place, head, listed >>
  BY DEF HistoryInv, BuildEntry
<1> PICK h : h = head
  OBVIOUS
<1>1. /\ LineageInv' /\ OthersAreSuperseded' /\ RevisionIds' = RevisionIds
      /\ Lineage(h)' = Lineage(h)
      /\ SupersededBefore(h) => SupersededBefore(h)'
  BY <1>0, ReaderKeeps
<1>2. /\ step = "entries" /\ answer = "None" /\ h \in RevisionIds /\ SupersededBefore(h)
      /\ listed = Lineage(h)
  BY DEF HistoryInv, Reads, BuildEntry
<1>3. SupersededBefore(head)' /\ Lineage(head)' = Lineage(h)
  <2>1. Lineage(head)' = Lineage(h)' /\ (SupersededBefore(h)' => SupersededBefore(head)')
    BY <1>0 DEF SupersededBefore, Lineage, IsAncestor
  <2> QED BY <1>1, <1>2, <2>1
<1> PICK missing : missing = listed \ {e.revision : e \in entries}
  OBVIOUS
<1> PICK r \in missing :
      /\ entries' = entries \union
            {[revision |-> r,
              called |-> Classify(r, {e.type : e \in {d \in relationships : d.to = r}})]}
      /\ IF missing = {r} THEN step' = "idle" /\ answer' = "History"
         ELSE step' = step /\ answer' = answer
  BY DEF BuildEntry
<1> PICK types : types = {d.type : d \in {x \in relationships : x.to = r}}
  OBVIOUS
<1> PICK new : new = [revision |-> r, called |-> Classify(r, types)]
  OBVIOUS
<1>4. entries' = entries \union {new}
  OBVIOUS
<1>5. r \in listed /\ \A e \in entries : e.revision # r
  OBVIOUS
<1>6. WellCalled(new) /\ new.called \subseteq Classifications /\ new.revision = r
  BY <1>0, <1>2, <1>5, ClassifiedWell
<1>7. Reads'
  BY <1>0, <1>1, <1>2, <1>3 DEF HistoryInv, Reads, Answers
<1>8. Entries'
  <2>1. new \in [revision : listed, called : SUBSET Classifications]
    BY <1>5, <1>6
  <2>2. entries' \subseteq [revision : listed', called : SUBSET Classifications]
    BY <1>0, <1>4, <2>1 DEF HistoryInv, Entries
  <2>3. \A e \in entries' : WellCalled(e)'
    BY <1>0, <1>4, <1>6 DEF HistoryInv, Entries, WellCalled
  <2>4. \A e, f \in entries' : e.revision = f.revision => e = f
    BY <1>4, <1>5, <1>6 DEF HistoryInv, Entries
  <2>5. ASSUME answer' = "History" PROVE {e.revision : e \in entries'} = listed'
    <3>1. missing = {r}
      BY <1>2, <2>5
    <3>2. {e.revision : e \in entries} \subseteq listed
      BY DEF HistoryInv, Entries
    <3>3. {e.revision : e \in entries'} = {e.revision : e \in entries} \union {r}
      BY <1>4, <1>6
    <3> QED BY <1>0, <3>1, <3>2, <3>3
  <2> QED BY <2>2, <2>3, <2>4, <2>5 DEF Entries
<1> QED BY <1>1, <1>7, <1>8 DEF HistoryInv

(* However reviews interleave with its statements, a History that is        *)
(* answered is one lineage with one Current Revision, its end, and every    *)
(* other called Historical and Superseded.                                  *)
THEOREM HistoriesHaveOneCurrent == HistorySpec => []HistoryHasOneCurrent
<1>1. HistoryInit => HistoryInv
  <2> SUFFICES ASSUME HistoryInit PROVE HistoryInv
    OBVIOUS
  <2>1. LineageInv /\ RevisionIds = {}
    BY LineageInitially, EmptySeq DEF HistoryInit, Init, RevisionIds
  <2>2. OthersAreSuperseded
    BY <2>1 DEF OthersAreSuperseded, Accepted
  <2> QED BY <2>1, <2>2 DEF HistoryInit, HistoryInv, Reads, Entries, Answers
<1>2. HistoryInv /\ [HistoryNext]_<< vars, reader >> => HistoryInv'
  <2> SUFFICES ASSUME HistoryInv, [HistoryNext]_<< vars, reader >> PROVE HistoryInv'
    OBVIOUS
  <2>1. CASE HistoryRead
    BY <2>1, StartKeeps, ListAndWalkKeep, EntryKeeps DEF HistoryRead
  <2>2. CASE [Next]_vars /\ UNCHANGED reader
    BY <2>2, WritersKeep
  <2> QED BY <2>1, <2>2 DEF HistoryNext
<1>3. HistoryInv => HistoryHasOneCurrent
  <2> SUFFICES ASSUME HistoryInv PROVE HistoryHasOneCurrent
    OBVIOUS
  <2>1. HistoryTypeOK
    BY DEF HistoryInv, Reads, Entries, HistoryTypeOK
  <2>2. ASSUME answer = "History"
        PROVE  {e.revision : e \in entries} = Lineage(head)
    BY <2>2 DEF HistoryInv, Reads, Entries
  <2>3. ASSUME NEW e \in entries
        PROVE  IF e.revision = head THEN "CurrentCanonical" \in e.called
               ELSE {"Historical", "Superseded"} \subseteq e.called
    BY DEF HistoryInv, Entries, WellCalled
  <2>4. ASSUME NEW e \in entries, NEW f \in entries,
               "CurrentCanonical" \in e.called /\ "CurrentCanonical" \in f.called
        PROVE  e = f
    BY <2>4 DEF HistoryInv, Entries, WellCalled
  <2> QED BY <2>1, <2>2, <2>3, <2>4 DEF HistoryHasOneCurrent
<1> QED BY <1>1, <1>2, <1>3, PTL DEF HistorySpec
=============================================================================
