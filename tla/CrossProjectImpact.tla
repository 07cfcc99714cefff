-------------------------- MODULE CrossProjectImpact --------------------------
(***************************************************************************)
(* Dependencies between projects and the impact of a new Revision          *)
(* (packages/core/src/cross-project.ts over packages/sqlite/src/impact.ts).*)
(*                                                                         *)
(* A relationship binds the Revisions that were Current at its two         *)
(* endpoints when it was accepted; an Impact Assessment judges one pair of *)
(* Revisions.  Neither is ever updated: what goes stale is computed by     *)
(* each reader from the Current pointers.  A write is one BEGIN IMMEDIATE  *)
(* ... COMMIT and so one action.  What the service reads before it, and    *)
(* every single SELECT of a report, is a step of its own: another process  *)
(* on the same workspace can accept a Revision between any two of them.    *)
(*                                                                         *)
(* The Revisions of a Node are numbered in the order they became Current   *)
(* (Lifecycle!CurrentNeverReturns).  Scopes, evidence, reasons, confidence *)
(* and what a reader may see of the other project are abstracted away.     *)
(***************************************************************************)
EXTENDS Naturals, Sequences, FiniteSets

CONSTANTS
  Projects,
  Nodes,             (* the Nodes of each project that take part             *)
  Callers,           (* processes or requests that submit, assess, report    *)
  MaxRevision,       (* bound on the Revisions of a Node                     *)
  MaxProposals,      (* bound on relationship Proposals                      *)
  MaxAssessments     (* bound on Impact Assessments                          *)

VARIABLES
  current,           (* the Current Revision of each endpoint, 0 for none    *)
  proposals,         (* cross_project_relationship_proposals                 *)
  decisions,         (* cross_project_relationship_review_decisions          *)
  relationships,     (* cross_project_relationships                          *)
  assessments,       (* impact_assessments                                   *)
  audits,            (* audit_events of these tables                         *)
  call               (* what each caller has under way                       *)

vars == << current, proposals, decisions, relationships, assessments, audits, call >>
tables == << proposals, decisions, relationships, assessments, audits >>

-----------------------------------------------------------------------------
(* Severity of an impact.                                                  *)

Facts == [compatibility : {"Compatible", "PotentiallyBreaking", "Breaking"},
          required : BOOLEAN, critical : BOOLEAN, failed : BOOLEAN]

(* ImpactAssessmentBuilder.severity; the order of the cases is the code's.  *)
Severity(f) ==
  IF f.failed /\ f.required /\ f.critical THEN "Critical"
  ELSE IF f.required /\ (f.failed \/ f.compatibility = "Breaking") THEN "High"
  ELSE IF \/ f.required /\ f.compatibility = "PotentiallyBreaking"
          \/ ~ f.required /\ f.compatibility = "Breaking" THEN "Medium"
  ELSE "Low"

-----------------------------------------------------------------------------
Endpoints == Projects \X Nodes
ProjectOf(e) == e[1]
Binding == [end : Endpoints, revision : Nat \ {0}]

Proposal == [source : Binding, target : Binding,
             status : {"Submitted", "Accepted", "Rejected"}]

(* A relationship keeps its Proposal and copies its binding.               *)
Relationship == [proposal : Nat \ {0}, source : Binding, target : Binding]
Assessment == [of : Nat \ {0}, provider : Nat \ {0}, consumer : Nat \ {0}]

RelationshipIds == 1 .. Len(relationships)
Consumer(r) == relationships[r].source.end
Provider(r) == relationships[r].target.end

(* assertEndpointCurrent.                                                   *)
IsCurrent(b) == current[b.end] = b.revision

Idle == [at |-> "idle"]
Goto(k, next) == call' = [call EXCEPT ![k] = next]

Init ==
  /\ current \in [Endpoints -> {0, 1}]
  /\ proposals = << >>
  /\ decisions = {}
  /\ relationships = << >>
  /\ assessments = << >>
  /\ audits = {}
  /\ call = [k \in Callers |-> Idle]

(* Elsewhere a Proposal is accepted: its Node has a new Current Revision.   *)
NewRevision(e) ==
  /\ current[e] < MaxRevision
  /\ current' = [current EXCEPT ![e] = @ + 1]
  /\ UNCHANGED << tables, call >>

(* insertEndpointAudits: one event in the project of each endpoint.         *)
EndpointAudits(event, id, b1, b2) ==
  {[project |-> ProjectOf(b.end), event |-> event, id |-> id] : b \in {b1, b2}}

-----------------------------------------------------------------------------
(* A relationship Proposal.                                                *)

(* submitCrossProjectRelationshipProposal resolves one endpoint ...         *)
ReadSource(k, source, target) ==
  /\ call[k] = Idle
  /\ Len(proposals) < MaxProposals
  /\ ProjectOf(source) # ProjectOf(target)
  /\ Goto(k, [at |-> "target", source |-> [end |-> source, revision |-> current[source]],
              target |-> target])
  /\ UNCHANGED << current, tables >>

(* Both endpoints require Current knowledge.                                *)
BothKnown(source, target) == source > 0 /\ target > 0

(* ... then the other.                                                      *)
ReadTarget(k) ==
  LET j == call[k] IN
  /\ j.at = "target"
  /\ Goto(k, IF BothKnown(j.source.revision, current[j.target])
             THEN [at |-> "submit", source |-> j.source,
                   target |-> [end |-> j.target, revision |-> current[j.target]]]
             ELSE Idle)
  /\ UNCHANGED << current, tables >>

(* The transaction: refused when an endpoint has moved on since it was read.*)
SubmitRelationship(k) ==
  LET j == call[k] IN
  /\ j.at = "submit"
  /\ Len(proposals) < MaxProposals
  /\ Goto(k, Idle)
  /\ IF IsCurrent(j.source) /\ IsCurrent(j.target)
     THEN /\ proposals' = Append(proposals, [source |-> j.source, target |-> j.target,
                                             status |-> "Submitted"])
          /\ audits' = audits \union
               EndpointAudits("Proposed", Len(proposals) + 1, j.source, j.target)
     ELSE UNCHANGED << proposals, audits >>
  /\ UNCHANGED << current, decisions, relationships, assessments >>

(* Mutant of MayAccept: only the provider is looked at again.               *)
ProviderIsCurrent(p) == IsCurrent(p.target)

(* Acceptance asks again whether both endpoints are Current.                *)
MayAccept(p) == IsCurrent(p.source) /\ IsCurrent(p.target)

(* Mutant of Decided: the status of the Proposal is not updated.            *)
StaysSubmitted(id, decision) == proposals

(* UPDATE cross_project_relationship_proposals SET status.                  *)
Decided(id, decision) == [proposals EXCEPT ![id].status = decision]

(* reviewCrossProjectRelationshipProposal, by a reviewer; whether the       *)
(* endpoints are Current is asked only for an acceptance.                   *)
ReviewRelationship(id, decision) ==
  LET p == proposals[id] IN
  /\ p.status = "Submitted"
  /\ ~ \E d \in decisions : d.proposal = id
  /\ decision = "Accepted" => MayAccept(p)
  /\ decisions' = decisions \union {[proposal |-> id, decision |-> decision]}
  /\ relationships' = IF decision = "Accepted"
                      THEN Append(relationships, [proposal |-> id, source |-> p.source,
                                                  target |-> p.target])
                      ELSE relationships
  /\ proposals' = Decided(id, decision)
  /\ audits' = audits \union EndpointAudits(decision, id, p.source, p.target)
  /\ UNCHANGED << current, assessments, call >>

-----------------------------------------------------------------------------
(* An Impact Assessment.                                                   *)

(* assessRevisionImpact reads the consumer's Current Revision; the provider *)
(* Revision is the caller's choice and need not be Current.                 *)
ReadConsumer(k, r, provider) ==
  /\ call[k] = Idle
  /\ Len(assessments) < MaxAssessments
  /\ Goto(k, [at |-> "assess", of |-> r, provider |-> provider,
              consumer |-> current[Consumer(r)]])
  /\ UNCHANGED << current, tables >>

(* Mutant of ConsumerIsCurrent: the Revision read before is trusted.        *)
ConsumerWasRead(r, revision) == TRUE

(* The consumer's Revision compared again inside the transaction.           *)
ConsumerIsCurrent(r, revision) == current[Consumer(r)] = revision

CreateAssessment(k) ==
  LET j == call[k] IN
  /\ j.at = "assess"
  /\ Len(assessments) < MaxAssessments
  /\ Goto(k, Idle)
  /\ IF ConsumerIsCurrent(j.of, j.consumer)
     THEN /\ assessments' = Append(assessments, [of |-> j.of, provider |-> j.provider,
                                                 consumer |-> j.consumer])
          /\ audits' = audits \union
               EndpointAudits("Assessed", Len(assessments) + 1,
                              relationships[j.of].source, relationships[j.of].target)
     ELSE UNCHANGED << assessments, audits >>
  /\ UNCHANGED << current, proposals, decisions, relationships >>

-----------------------------------------------------------------------------
(* A report of one relationship, statement by statement (path, and what     *)
(* selects its Revisions).  `moment` is no part of the code: it keeps the   *)
(* Current pointers as they stood at the first read of the last pair.       *)

NoPath == [provider |-> 0, consumer |-> 0, binding |-> "unknown",
           assessment |-> 0, judged |-> "unknown", providerIs |-> "unknown"]

ReportStages == {"consumer", "source", "binding", "applicable", "judge", "judgeConsumer",
                 "providerView", "consumerView"}

Reading(k, stage) == call[k].at = stage
Continue(k, stage, path) ==
  /\ Goto(k, [call[k] EXCEPT !.at = stage, !.path = path])
  /\ UNCHANGED << current, tables >>
ContinueAt(k, stage, path) ==
  /\ Goto(k, [call[k] EXCEPT !.at = stage, !.path = path, !.moment = current])
  /\ UNCHANGED << current, tables >>

Report(r, stage, path) == [at |-> stage, of |-> r, path |-> path, moment |-> current]

(* getProjectDependencies for a row: both Revisions are looked up.          *)
BeginDependency(k, r) ==
  /\ call[k] = Idle
  /\ Goto(k, Report(r, "consumer", [NoPath EXCEPT !.provider = current[Provider(r)]]))
  /\ UNCHANGED << current, tables >>

(* getRevisionImpact: the provider's Revision is the caller's.              *)
BeginImpact(k, r, provider) ==
  /\ call[k] = Idle
  /\ Goto(k, Report(r, "consumer", [NoPath EXCEPT !.provider = provider]))
  /\ UNCHANGED << current, tables >>

(* getImpactPath: the Revisions are those of an assessment.                 *)
BeginPath(k, a) ==
  /\ call[k] = Idle
  /\ Goto(k, Report(assessments[a].of, "source",
               [NoPath EXCEPT !.provider = assessments[a].provider,
                              !.consumer = assessments[a].consumer]))
  /\ UNCHANGED << current, tables >>

SelectConsumer(k) ==
  /\ Reading(k, "consumer")
  /\ Continue(k, "source", [call[k].path EXCEPT !.consumer = current[Consumer(call[k].of)]])

(* bindingFreshness reads the source, and the target only if that is fresh. *)
ReadBindingSource(k) ==
  /\ Reading(k, "source")
  /\ IF IsCurrent(relationships[call[k].of].source)
     THEN ContinueAt(k, "binding", call[k].path)
     ELSE ContinueAt(k, "applicable", [call[k].path EXCEPT !.binding = "Stale"])

(* Mutant of Freshness: one look is enough.                                 *)
AlwaysFresh(isCurrent) == "Fresh"

Freshness(isCurrent) == IF isCurrent THEN "Fresh" ELSE "Stale"

ReadBindingTarget(k) ==
  /\ Reading(k, "binding")
  /\ Continue(k, "applicable", [call[k].path EXCEPT
                !.binding = Freshness(IsCurrent(relationships[call[k].of].target))])

(* Mutant of Applicable: the provider's Revision is not compared.           *)
AnyProvider(r, provider, consumer) ==
  {a \in 1 .. Len(assessments) : assessments[a].of = r /\ assessments[a].consumer = consumer}

(* The assessments of exactly the selected Revisions.                       *)
Applicable(r, provider, consumer) ==
  {a \in 1 .. Len(assessments) :
     assessments[a] = [of |-> r, provider |-> provider, consumer |-> consumer]}

(* applicableAssessment.  All candidates judge the same pair, and the times *)
(* they are ordered by were taken before their transactions: any may come   *)
(* first.                                                                   *)
SelectAssessment(k) ==
  LET path == call[k].path
      found == Applicable(call[k].of, path.provider, path.consumer)
  IN
  /\ Reading(k, "applicable")
  /\ \/ found = {} /\ Continue(k, "providerView", path)
     \/ \E a \in found : Continue(k, "judge", [path EXCEPT !.assessment = a])

(* assessmentFreshness: the provider first, then the consumer.              *)
JudgeProvider(k) ==
  LET path == call[k].path IN
  /\ Reading(k, "judge")
  /\ IF current[Provider(call[k].of)] = assessments[path.assessment].provider
     THEN ContinueAt(k, "judgeConsumer", path)
     ELSE ContinueAt(k, "providerView", [path EXCEPT !.judged = "Stale"])

JudgeConsumer(k) ==
  LET path == call[k].path IN
  /\ Reading(k, "judgeConsumer")
  /\ Continue(k, "providerView", [path EXCEPT
       !.judged = Freshness(current[Consumer(call[k].of)] = assessments[path.assessment].consumer)])

Temporal(e, revision) == IF current[e] = revision THEN "Current" ELSE "Historical"

(* endpointView of the provider.                                            *)
ViewProvider(k) ==
  /\ Reading(k, "providerView")
  /\ Continue(k, "consumerView", [call[k].path EXCEPT
       !.providerIs = Temporal(Provider(call[k].of), call[k].path.provider)])

(* endpointView of the consumer ends the path, which is then returned.      *)
ViewConsumer(k) ==
  /\ Reading(k, "consumerView")
  /\ Goto(k, Idle)
  /\ UNCHANGED << current, tables >>

-----------------------------------------------------------------------------
Relate(k) ==
  \/ \E source, target \in Endpoints : ReadSource(k, source, target)
  \/ ReadTarget(k)
  \/ SubmitRelationship(k)

Assess(k) ==
  \/ \E r \in RelationshipIds : \E provider \in 1 .. current[Provider(r)] :
       ReadConsumer(k, r, provider)
  \/ CreateAssessment(k)

ReportPath(k) ==
  \/ \E r \in RelationshipIds :
       \/ BeginDependency(k, r)
       \/ \E provider \in 1 .. current[Provider(r)] : BeginImpact(k, r, provider)
  \/ \E a \in 1 .. Len(assessments) : BeginPath(k, a)
  \/ SelectConsumer(k)
  \/ ReadBindingSource(k)
  \/ ReadBindingTarget(k)
  \/ SelectAssessment(k)
  \/ JudgeProvider(k)
  \/ JudgeConsumer(k)
  \/ ViewProvider(k)
  \/ ViewConsumer(k)

Next ==
  \/ \E e \in Endpoints : NewRevision(e)
  \/ \E id \in 1 .. Len(proposals), d \in {"Accepted", "Rejected"} : ReviewRelationship(id, d)
  \/ \E k \in Callers : Relate(k) \/ Assess(k) \/ ReportPath(k)

Spec == Init /\ [][Next]_vars

-----------------------------------------------------------------------------
(* Properties.                                                             *)

(* Every row has its shape, and each endpoint of a row is a Revision that   *)
(* has been Current.                                                        *)
TypeOK ==
  /\ current \in [Endpoints -> Nat]
  /\ proposals \in Seq(Proposal)
  /\ relationships \in Seq(Relationship)
  /\ assessments \in Seq(Assessment)
  /\ \A r \in RelationshipIds :
       \A b \in {relationships[r].source, relationships[r].target} : b.revision <= current[b.end]

(* A Proposal has one decision when its status says so and none before, a   *)
(* relationship exactly when it was accepted, and says what was proposed;   *)
(* both projects have an audit event of each step.                          *)
RelationshipsAreReviewed ==
  /\ TypeOK
  /\ \A id \in 1 .. Len(proposals) :
       LET p == proposals[id]
           made == {r \in RelationshipIds : relationships[r].proposal = id}
       IN
       /\ {d.decision : d \in {x \in decisions : x.proposal = id}} = {p.status} \ {"Submitted"}
       /\ Cardinality(made) = IF p.status = "Accepted" THEN 1 ELSE 0
       /\ \A r \in made :
            relationships[r] = [proposal |-> id, source |-> p.source, target |-> p.target]
       /\ \A e \in {"Proposed"} \union ({p.status} \ {"Submitted"}) :
            \A b \in {p.source, p.target} :
              [project |-> ProjectOf(b.end), event |-> e, id |-> id] \in audits

(* Whatever happened since the Proposal was written, a relationship is born *)
(* binding what is Current at both its endpoints.                           *)
BornFresh ==
  [][\A r \in DOMAIN relationships' \ RelationshipIds :
       IsCurrent(relationships'[r].source) /\ IsCurrent(relationships'[r].target)]_vars

(* An assessment judges the consumer as it is when the assessment is made,  *)
(* and is heard of in both projects (BornFresh is about relationships).     *)
WritesAreCurrent ==
  /\ BornFresh
  /\ [][\A a \in DOMAIN assessments' \ DOMAIN assessments :
          LET of == assessments'[a].of IN
          /\ assessments'[a].consumer = current[Consumer(of)]
          /\ \A e \in {Consumer(of), Provider(of)} :
               [project |-> ProjectOf(e), event |-> "Assessed", id |-> a] \in audits']_vars

(* A report is put together from reads with reviews between them.  When it  *)
(* calls a binding fresh, both bound Revisions were Current together at one *)
(* moment of the report; when it calls it stale, it still is.               *)
BindingIsTold ==
  \A k \in Callers : call[k].at \in ReportStages =>
    LET b == call[k].path.binding  r == relationships[call[k].of]
        whole(pointers) == \A x \in {r.source, r.target} : pointers[x.end] = x.revision
    IN /\ b = "Fresh" /\ call[k].at = "applicable" => whole(call[k].moment)
       /\ b = "Stale" => ~ whole(current)

(* The same for the assessment a report shows, which is one of the          *)
(* Revisions it selected: a reader is told of both.                         *)
ReaderIsTold ==
  /\ BindingIsTold
  /\ \A k \in Callers : call[k].at \in ReportStages =>
       LET path == call[k].path  of == call[k].of
           fresh(pointers) == /\ pointers[Provider(of)] = path.provider
                              /\ pointers[Consumer(of)] = path.consumer
       IN /\ path.judged = "Fresh" => fresh(call[k].moment)
          /\ path.judged = "Stale" => ~ fresh(current)
=============================================================================
