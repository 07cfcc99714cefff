----------------------- MODULE CrossProjectImpactProofs -----------------------
(***************************************************************************)
(* Facts about cross-project impact that hold for every set of projects,   *)
(* Nodes and callers and every bound.                                      *)
(***************************************************************************)
EXTENDS CrossProjectImpact, SequenceTheorems, FiniteSetTheorems, TLAPS

Rank == [Low |-> 0, Medium |-> 1, High |-> 2, Critical |-> 3]
CompatibilityRank == [Compatible |-> 0, PotentiallyBreaking |-> 1, Breaking |-> 2]

(* No fact of g is better than the same fact of f.                          *)
Worse(f, g) ==
  /\ CompatibilityRank[f.compatibility] <= CompatibilityRank[g.compatibility]
  /\ f.required => g.required
  /\ f.critical => g.critical
  /\ f.failed => g.failed

(* Making any fact of a change worse never makes its impact less severe     *)
(* (ImpactAssessmentBuilder.severity): the order of its four tests leaves   *)
(* no case that falls through to a lower one.                               *)
THEOREM SeverityGrows ==
  ASSUME NEW f \in Facts, NEW g \in Facts, Worse(f, g)
  PROVE  Rank[Severity(f)] <= Rank[Severity(g)]
<1>1. CASE f.failed /\ f.required /\ f.critical
  <2>1. g.failed /\ g.required /\ g.critical  BY <1>1 DEF Worse
  <2> QED  BY <1>1, <2>1 DEF Severity, Rank
<1>2. CASE ~ (f.failed /\ f.required /\ f.critical)
  BY <1>2 DEF Worse, Facts, Severity, Rank, CompatibilityRank
<1> QED  BY <1>1, <1>2

-----------------------------------------------------------------------------
(* The tables grow and the Current pointers only move on.                   *)
Bind == [end : Endpoints, revision : Nat]
Row == [source : Bind, target : Bind, status : {"Submitted", "Accepted", "Rejected"}]
Link == [proposal : Nat, source : Bind, target : Bind]
Judgement == [of : Nat, provider : Nat, consumer : Nat]

Path == [provider : Nat, consumer : Nat, binding : {"unknown", "Fresh", "Stale"},
         assessment : Nat, judged : {"unknown", "Fresh", "Stale"},
         providerIs : {"unknown", "Current", "Historical"}]
Reports == [at : ReportStages, of : Nat, path : Path, moment : [Endpoints -> Nat]]
Writes ==
  {Idle} \union [at : {"target"}, source : Bind, target : Endpoints]
    \union [at : {"submit"}, source : Bind, target : Bind]
    \union [at : {"assess"}, of : Nat, provider : Nat, consumer : Nat]

(* Nobody names a Revision that has not been Current.                       *)
HasBeen(r, provider, consumer, pointers) ==
  provider <= pointers[Provider(r)] /\ consumer <= pointers[Consumer(r)]

(* The two Revisions a relationship binds.                                  *)
BindsKnown(r, pointers) ==
  HasBeen(r, relationships[r].target.revision, relationships[r].source.revision, pointers)

Whole(r, pointers) ==
  /\ pointers[Provider(r)] = relationships[r].target.revision
  /\ pointers[Consumer(r)] = relationships[r].source.revision

Tables ==
  /\ current \in [Endpoints -> Nat]
  /\ proposals \in Seq(Row) /\ relationships \in Seq(Link) /\ assessments \in Seq(Judgement)
  /\ \A r \in RelationshipIds : BindsKnown(r, current)
  /\ \A a \in 1 .. Len(assessments) :
       /\ assessments[a].of \in RelationshipIds
       /\ HasBeen(assessments[a].of, assessments[a].provider, assessments[a].consumer, current)

(* What a report under way may rely on, stage by stage.                     *)
KnownReport(c) ==
  LET path == c.path  r == c.of IN
  /\ r \in RelationshipIds
  /\ \A e \in Endpoints : c.moment[e] <= current[e]
  /\ BindsKnown(r, c.moment)
  /\ HasBeen(r, path.provider, path.consumer, current)
  /\ path.provider <= c.moment[Provider(r)]
  /\ c.at \notin {"consumer", "source"} => path.consumer <= c.moment[Consumer(r)]
  /\ c.at = "binding" => c.moment[Consumer(r)] = relationships[r].source.revision
  /\ c.at \in {"consumer", "source", "binding"} => path.binding = "unknown"
  /\ path.binding = "Fresh" /\ c.at = "applicable" => Whole(r, c.moment)
  /\ path.binding = "Stale" => ~ Whole(r, current)
  /\ c.at \in {"judge", "judgeConsumer"} =>
       /\ path.assessment \in 1 .. Len(assessments)
       /\ assessments[path.assessment].provider = path.provider
       /\ assessments[path.assessment].consumer = path.consumer
  /\ c.at = "judgeConsumer" => c.moment[Provider(r)] = path.provider
  /\ c.at \notin {"providerView", "consumerView"} => path.judged = "unknown"
  /\ path.judged = "Fresh" =>
       c.moment[Provider(r)] = path.provider /\ c.moment[Consumer(r)] = path.consumer
  /\ path.judged = "Stale" =>
       ~ (current[Provider(r)] = path.provider /\ current[Consumer(r)] = path.consumer)

KnownCall(c) ==
  /\ c \in Writes \union Reports
  /\ c.at = "assess" => c.of \in RelationshipIds /\ HasBeen(c.of, c.provider, c.consumer, current)
  /\ c.at \in ReportStages => c \in Reports /\ KnownReport(c)

ImpactInv ==
  /\ Tables
  /\ call = [k \in Callers |-> call[k]]
  /\ \A k \in Callers : KnownCall(call[k])

(* What every step does to the tables and the pointers.                     *)
MovesOn ==
  /\ \A e \in Endpoints : current[e] <= current'[e]
  /\ \A r \in RelationshipIds : r \in RelationshipIds' /\ relationships'[r] = relationships[r]
  /\ \A a \in 1 .. Len(assessments) :
       a \in 1 .. Len(assessments') /\ assessments'[a] = assessments[a]

LEMMA EndsAreEndpoints ==
  ASSUME Tables, NEW r \in RelationshipIds
  PROVE  /\ Provider(r) \in Endpoints /\ Consumer(r) \in Endpoints
         /\ relationships[r].source.revision \in Nat /\ relationships[r].target.revision \in Nat
<1>1. relationships[r] \in Link
  BY ElementOfSeq DEF Tables, RelationshipIds
<1> QED BY <1>1 DEF Link, Bind, Provider, Consumer

LEMMA IdleIsKnown == KnownCall(Idle)
  BY DEF KnownCall, Idle, Writes, ReportStages

(* What a call knows stays true while the tables and pointers move on.      *)
LEMMA StillKnown ==
  ASSUME Tables, Tables', MovesOn, NEW c, KnownCall(c)
  PROVE  KnownCall(c)'
<1>0. \A e \in Endpoints : current[e] \in Nat /\ current'[e] \in Nat
  BY DEF Tables
<1>1. ASSUME NEW r \in RelationshipIds
      PROVE  /\ r \in RelationshipIds' /\ relationships'[r] = relationships[r]
             /\ Provider(r)' = Provider(r) /\ Consumer(r)' = Consumer(r)
             /\ current[Provider(r)] <= current'[Provider(r)]
             /\ current[Consumer(r)] <= current'[Consumer(r)]
             /\ Provider(r) \in Endpoints /\ Consumer(r) \in Endpoints
             /\ relationships[r].source.revision \in Nat
             /\ relationships[r].target.revision \in Nat
  <2>1. r \in RelationshipIds' /\ relationships'[r] = relationships[r]
    BY DEF MovesOn
  <2> QED BY <2>1, EndsAreEndpoints DEF MovesOn, Provider, Consumer
<1>2. CASE c.at = "assess"
  <2>1. c \in Writes
    BY <1>2 DEF KnownCall, Reports, ReportStages
  <2>2. c.provider \in Nat /\ c.consumer \in Nat
    BY <1>2, <2>1 DEF Writes, Idle
  <2>3. c.of \in RelationshipIds /\ HasBeen(c.of, c.provider, c.consumer, current)
    BY <1>2 DEF KnownCall
  <2>4. c.of \in RelationshipIds' /\ HasBeen(c.of, c.provider, c.consumer, current)'
    BY <1>0, <1>1, <2>2, <2>3 DEF HasBeen
  <2> QED BY <1>2, <2>4 DEF KnownCall, ReportStages
<1>3. CASE c.at \in ReportStages
  <2> PICK r \in RelationshipIds : r = c.of
    BY <1>3 DEF KnownCall, KnownReport
  <2>1. c \in Reports /\ KnownReport(c)
    BY <1>3 DEF KnownCall
  <2>2. /\ c.path \in Path /\ c.moment \in [Endpoints -> Nat]
        /\ c.path.provider \in Nat /\ c.path.consumer \in Nat
    BY <2>1 DEF Reports, Path
  <2>3. \A e \in Endpoints : c.moment[e] <= current'[e]
    BY <1>0, <2>1, <2>2 DEF KnownReport, MovesOn
  <2>4. /\ BindsKnown(r, c.moment)' /\ HasBeen(r, c.path.provider, c.path.consumer, current)'
    <3>1. BindsKnown(r, c.moment)'
      BY <1>1, <2>1 DEF KnownReport, BindsKnown, HasBeen
    <3>2. HasBeen(r, c.path.provider, c.path.consumer, current)
      BY <2>1 DEF KnownReport
    <3>3. HasBeen(r, c.path.provider, c.path.consumer, current)'
      BY <1>0, <1>1, <2>2, <3>2 DEF HasBeen
    <3> QED BY <3>1, <3>3
  <2>5. c.path.binding = "Stale" => ~ Whole(r, current)'
    BY <1>0, <1>1, <2>1 DEF KnownReport, Whole, Tables, BindsKnown, HasBeen
  <2>6. c.path.judged = "Stale" =>
          ~ (current'[Provider(r)] = c.path.provider /\ current'[Consumer(r)] = c.path.consumer)
    BY <1>0, <1>1, <2>1, <2>2 DEF KnownReport, HasBeen
  <2>7. Whole(r, c.moment)' <=> Whole(r, c.moment)
    BY <1>1 DEF Whole
  <2>8. c.at \in {"judge", "judgeConsumer"} =>
          /\ c.path.assessment \in 1 .. Len(assessments')
          /\ assessments'[c.path.assessment] = assessments[c.path.assessment]
    BY <2>1 DEF KnownReport, MovesOn
  <2>9. KnownReport(c)'
    BY <1>1, <2>1, <2>3, <2>4, <2>5, <2>6, <2>7, <2>8 DEF KnownReport
  <2> QED BY <1>3, <2>1, <2>9 DEF KnownCall, ReportStages
<1>4. CASE c.at # "assess" /\ c.at \notin ReportStages
  BY <1>4 DEF KnownCall
<1> QED BY <1>2, <1>3, <1>4

(* A step of caller k that leaves its call knowing what its stage demands.  *)
LEMMA CallMoves ==
  ASSUME ImpactInv, Tables', MovesOn, NEW k \in Callers, NEW c,
         call' = [call EXCEPT ![k] = c], KnownCall(c)'
  PROVE  ImpactInv'
<1>1. call' = [j \in Callers |-> call'[j]]
  BY DEF ImpactInv
<1>2. ASSUME NEW j \in Callers PROVE KnownCall(call[j])'
  <2>1. CASE j = k
    <3>1. call'[j] = c
      BY <2>1 DEF ImpactInv
    <3> QED BY <3>1 DEF KnownCall
  <2>2. CASE j # k
    <3>1. call'[j] = call[j] /\ KnownCall(call[j])
      BY <2>2 DEF ImpactInv
    <3>2. PICK d : d = call[j]
      OBVIOUS
    <3>3. KnownCall(d)'
      BY <3>1, <3>2, StillKnown DEF ImpactInv
    <3> QED BY <3>1, <3>2, <3>3 DEF KnownCall
  <2> QED BY <2>1, <2>2
<1> QED BY <1>1, <1>2 DEF ImpactInv

-----------------------------------------------------------------------------
(* Steps that leave the tables and the pointers alone.                      *)
LEMMA TablesStay ==
  ASSUME Tables, UNCHANGED << current, tables >>
  PROVE  Tables' /\ MovesOn
  BY DEF Tables, tables, MovesOn, RelationshipIds, BindsKnown, HasBeen, Provider, Consumer

(* A row more in one table.                                                 *)
LEMMA OneMore ==
  ASSUME NEW S, NEW s \in Seq(S), NEW e \in S
  PROVE  /\ Append(s, e) \in Seq(S) /\ Len(Append(s, e)) = Len(s) + 1 /\ Len(s) \in Nat
         /\ \A i \in 1 .. Len(s) : i \in 1 .. Len(Append(s, e)) /\ Append(s, e)[i] = s[i]
         /\ Append(s, e)[Len(s) + 1] = e
  BY AppendProperties, LenProperties

LEMMA RevisionsMove ==
  ASSUME ImpactInv, NEW e \in Endpoints, NewRevision(e)
  PROVE  ImpactInv'
<1>1. Tables /\ current' = [current EXCEPT ![e] = @ + 1] /\ UNCHANGED << tables, call >>
  BY DEF ImpactInv, NewRevision
<1>2. \A x \in Endpoints : current[x] \in Nat /\ current'[x] \in Nat /\ current[x] <= current'[x]
  BY <1>1 DEF Tables
<1>3. MovesOn
  BY <1>1, <1>2 DEF MovesOn, tables, RelationshipIds
<1>4. Tables'
  <2>1. current' \in [Endpoints -> Nat]
    BY <1>1 DEF Tables
  <2>2. ASSUME NEW r \in RelationshipIds, NEW p \in Nat, NEW c \in Nat, HasBeen(r, p, c, current)
        PROVE  HasBeen(r, p, c, current)'
    BY <1>1, <1>2, <2>2, EndsAreEndpoints DEF HasBeen, tables, Provider, Consumer
  <2>3. ASSUME NEW r \in RelationshipIds PROVE BindsKnown(r, current)'
    <3>1. BindsKnown(r, current)
      BY <1>1 DEF Tables
    <3> QED BY <1>1, <1>2, <3>1, EndsAreEndpoints
            DEF BindsKnown, HasBeen, tables, Provider, Consumer
  <2>4. ASSUME NEW a \in 1 .. Len(assessments)
        PROVE  HasBeen(assessments[a].of, assessments[a].provider, assessments[a].consumer, current)'
    <3>1. assessments[a] \in Judgement
      BY <1>1, ElementOfSeq DEF Tables
    <3>2. /\ assessments[a].of \in RelationshipIds
          /\ HasBeen(assessments[a].of, assessments[a].provider, assessments[a].consumer, current)
      BY <1>1 DEF Tables
    <3> PICK r \in RelationshipIds, p \in Nat, c \in Nat :
          r = assessments[a].of /\ p = assessments[a].provider /\ c = assessments[a].consumer
      BY <3>1, <3>2 DEF Judgement
    <3>3. HasBeen(r, p, c, current)'
      BY <2>2, <3>2
    <3> QED BY <1>1, <3>3 DEF HasBeen, tables
  <2> QED BY <1>1, <2>1, <2>3, <2>4 DEF Tables, tables, RelationshipIds
<1>5. \A k \in Callers : KnownCall(call[k])'
  <2> SUFFICES ASSUME NEW k \in Callers PROVE KnownCall(call[k])'
    OBVIOUS
  <2> PICK c : c = call[k]
    OBVIOUS
  <2>1. KnownCall(c)'
    BY <1>1, <1>3, <1>4, StillKnown DEF ImpactInv
  <2> QED BY <1>1, <2>1 DEF KnownCall
<1> QED BY <1>1, <1>4, <1>5 DEF ImpactInv

(* A review: the relationship it adds binds what is Current.                *)
LEMMA ReviewsMove ==
  ASSUME ImpactInv, NEW id \in 1 .. Len(proposals), NEW d \in {"Accepted", "Rejected"},
         ReviewRelationship(id, d)
  PROVE  ImpactInv'
<1>1. Tables /\ UNCHANGED << current, assessments, call >>
      /\ proposals' = [proposals EXCEPT ![id].status = d]
  BY DEF ImpactInv, ReviewRelationship, Decided
<1>2. proposals[id] \in Row
  BY <1>1, ElementOfSeq DEF Tables
<1>3. proposals' \in Seq(Row)
  <2> PICK p : p = [proposals[id] EXCEPT !.status = d]
    OBVIOUS
  <2>1. p \in Row
    BY <1>2 DEF Row
  <2>2. proposals' = [proposals EXCEPT ![id] = p]
    BY <1>1
  <2> QED BY <1>1, <2>1, <2>2, ExceptSeq DEF Tables
<1>4. MovesOn /\ Tables'
  <2>1. CASE d = "Rejected"
    <3>1. relationships' = relationships
      BY <2>1 DEF ReviewRelationship
    <3>2. Tables'
      BY <1>1, <1>3, <3>1 DEF Tables, RelationshipIds, BindsKnown, HasBeen, Provider, Consumer
    <3> QED BY <1>1, <3>1, <3>2 DEF Tables, MovesOn, RelationshipIds
  <2>2. CASE d = "Accepted"
    <3> PICK link : link = [proposal |-> id, source |-> proposals[id].source,
                            target |-> proposals[id].target]
      OBVIOUS
    <3>1. relationships' = Append(relationships, link) /\ MayAccept(proposals[id])
      BY <2>2 DEF ReviewRelationship
    <3>2. link \in Link /\ id \in Nat
      BY <1>1, <1>2 DEF Row, Link, Tables
    <3>3. /\ relationships' \in Seq(Link) /\ Len(relationships) \in Nat
          /\ Len(relationships') = Len(relationships) + 1
          /\ \A i \in 1 .. Len(relationships) : relationships'[i] = relationships[i]
          /\ relationships'[Len(relationships) + 1] = link
      BY <1>1, <3>1, <3>2, OneMore DEF Tables
    <3> PICK m : m = Len(relationships) + 1
      OBVIOUS
    <3>4. RelationshipIds' = RelationshipIds \union {m} /\ RelationshipIds = 1 .. Len(relationships)
      BY <3>3 DEF RelationshipIds
    <3>5. BindsKnown(m, current)'
      <4>1. /\ link.source = proposals[id].source /\ link.target = proposals[id].target
            /\ current[link.source.end] = link.source.revision
            /\ current[link.target.end] = link.target.revision
        BY <3>1 DEF MayAccept, IsCurrent
      <4>2. link.source.revision \in Nat /\ link.target.revision \in Nat
        BY <3>2 DEF Link, Bind
      <4>3. relationships'[m] = link /\ current' = current
        BY <1>1, <3>3
      <4> QED BY <4>1, <4>2, <4>3 DEF BindsKnown, HasBeen, Provider, Consumer
    <3>6. ASSUME NEW r \in RelationshipIds
          PROVE  relationships'[r] = relationships[r] /\ BindsKnown(r, current)'
      <4>1. relationships'[r] = relationships[r] /\ BindsKnown(r, current)
        BY <1>1, <3>3, <3>4 DEF Tables
      <4> QED BY <1>1, <4>1 DEF BindsKnown, HasBeen, Provider, Consumer
    <3>7. ASSUME NEW a \in 1 .. Len(assessments)
          PROVE  /\ assessments[a].of \in RelationshipIds'
                 /\ HasBeen(assessments[a].of, assessments[a].provider,
                            assessments[a].consumer, current)'
      <4>1. /\ assessments[a].of \in RelationshipIds
            /\ HasBeen(assessments[a].of, assessments[a].provider, assessments[a].consumer, current)
        BY <1>1 DEF Tables
      <4> QED BY <1>1, <3>4, <3>6, <4>1 DEF HasBeen, Provider, Consumer
    <3>8. Tables'
      BY <1>1, <1>3, <3>3, <3>4, <3>5, <3>6, <3>7 DEF Tables
    <3>9. MovesOn
      BY <1>1, <3>4, <3>6 DEF MovesOn, Tables
    <3> QED BY <3>8, <3>9
  <2> QED BY <2>1, <2>2
<1>5. \A k \in Callers : KnownCall(call[k])'
  <2> SUFFICES ASSUME NEW k \in Callers PROVE KnownCall(call[k])'
    OBVIOUS
  <2> PICK c : c = call[k]
    OBVIOUS
  <2>1. KnownCall(c)'
    BY <1>1, <1>4, StillKnown DEF ImpactInv
  <2> QED BY <1>1, <2>1 DEF KnownCall
<1> QED BY <1>1, <1>4, <1>5 DEF ImpactInv

-----------------------------------------------------------------------------
(* Steps of one caller.                                                     *)

(* A step that only reads needs to know, of what it now stands at, what the *)
(* present tables say.                                                      *)
LEMMA ReadsMove ==
  ASSUME ImpactInv, UNCHANGED << current, tables >>, NEW k \in Callers, NEW c,
         call' = [call EXCEPT ![k] = c], KnownCall(c)
  PROVE  ImpactInv'
<1>1. Tables' /\ MovesOn
  BY TablesStay DEF ImpactInv
<1>2. KnownCall(c)'
  BY <1>1, StillKnown DEF ImpactInv
<1> QED BY <1>1, <1>2, CallMoves

LEMMA RelationsMove ==
  ASSUME ImpactInv, NEW k \in Callers, Relate(k)
  PROVE  ImpactInv'
<1>0. Tables /\ KnownCall(call[k])
  BY DEF ImpactInv
<1>1. CASE \E source, target \in Endpoints : ReadSource(k, source, target)
  <2> PICK source \in Endpoints, target \in Endpoints : ReadSource(k, source, target)
    BY <1>1
  <2> PICK c : c = [at |-> "target", source |-> [end |-> source, revision |-> current[source]],
                    target |-> target]
    OBVIOUS
  <2>1. call' = [call EXCEPT ![k] = c] /\ UNCHANGED << current, tables >>
    BY DEF ReadSource, Goto
  <2>2. [end |-> source, revision |-> current[source]] \in Bind
    BY <1>0 DEF Bind, Tables
  <2>3. c \in [at : {"target"}, source : Bind, target : Endpoints]
    BY <2>2
  <2>4. KnownCall(c)
    BY <2>3 DEF KnownCall, Writes, ReportStages
  <2> QED BY <2>1, <2>4, ReadsMove
<1>2. CASE ReadTarget(k)
  <2>1. call[k] \in [at : {"target"}, source : Bind, target : Endpoints]
    BY <1>0, <1>2 DEF ReadTarget, KnownCall, Writes, Reports, ReportStages, Idle
  <2> PICK c : c = IF BothKnown(call[k].source.revision, current[call[k].target])
                   THEN [at |-> "submit", source |-> call[k].source,
                         target |-> [end |-> call[k].target, revision |-> current[call[k].target]]]
                   ELSE Idle
    OBVIOUS
  <2>2. call' = [call EXCEPT ![k] = c] /\ UNCHANGED << current, tables >>
    BY <1>2 DEF ReadTarget, Goto
  <2>3. [end |-> call[k].target, revision |-> current[call[k].target]] \in Bind
    BY <1>0, <2>1 DEF Bind, Tables
  <2>4. c = Idle \/ c \in [at : {"submit"}, source : Bind, target : Bind]
    BY <2>1, <2>3
  <2>5. KnownCall(c)
    BY <2>4, IdleIsKnown DEF KnownCall, Writes, ReportStages
  <2> QED BY <2>2, <2>5, ReadsMove
<1>3. CASE SubmitRelationship(k)
  <2>1. call' = [call EXCEPT ![k] = Idle]
        /\ UNCHANGED << current, decisions, relationships, assessments >>
    BY <1>3 DEF SubmitRelationship, Goto
  <2>2. proposals' \in Seq(Row)
    <3>1. CASE proposals' = proposals
      BY <1>0, <3>1 DEF Tables
    <3>2. CASE proposals' # proposals
      <4> PICK row : row = [source |-> call[k].source, target |-> call[k].target,
                            status |-> "Submitted"]
        OBVIOUS
      <4>1. proposals' = Append(proposals, row)
        BY <1>3, <3>2 DEF SubmitRelationship
      <4>2. call[k] \in [at : {"submit"}, source : Bind, target : Bind]
        BY <1>0, <1>3 DEF SubmitRelationship, KnownCall, Writes, Reports, ReportStages, Idle
      <4>3. row \in Row
        BY <4>2 DEF Row
      <4> QED BY <1>0, <4>1, <4>3, OneMore DEF Tables
    <3> QED BY <3>1, <3>2
  <2>3. Tables'
    BY <1>0, <2>1, <2>2 DEF Tables, RelationshipIds, BindsKnown, HasBeen, Provider, Consumer
  <2>4. MovesOn
    BY <1>0, <2>1 DEF MovesOn, Tables, RelationshipIds
  <2>5. KnownCall(Idle)'
    BY <1>0, <2>3, <2>4, IdleIsKnown, StillKnown
  <2> QED BY <2>1, <2>3, <2>4, <2>5, CallMoves
<1> QED BY <1>1, <1>2, <1>3 DEF Relate

LEMMA AssessmentsMove ==
  ASSUME ImpactInv, NEW k \in Callers, Assess(k)
  PROVE  ImpactInv'
<1>0. Tables /\ KnownCall(call[k])
  BY DEF ImpactInv
<1>1. CASE \E r \in RelationshipIds : \E provider \in 1 .. current[Provider(r)] :
             ReadConsumer(k, r, provider)
  <2> PICK r \in RelationshipIds :
             \E provider \in 1 .. current[Provider(r)] : ReadConsumer(k, r, provider)
    BY <1>1
  <2> PICK provider \in 1 .. current[Provider(r)] : ReadConsumer(k, r, provider)
    OBVIOUS
  <2> PICK c : c = [at |-> "assess", of |-> r, provider |-> provider,
                    consumer |-> current[Consumer(r)]]
    OBVIOUS
  <2>1. call' = [call EXCEPT ![k] = c] /\ UNCHANGED << current, tables >>
    BY DEF ReadConsumer, Goto
  <2>2. current[Provider(r)] \in Nat /\ current[Consumer(r)] \in Nat /\ r \in Nat
    BY <1>0, EndsAreEndpoints DEF Tables, RelationshipIds
  <2>3. c \in [at : {"assess"}, of : Nat, provider : Nat, consumer : Nat]
    BY <2>2
  <2>4. HasBeen(r, provider, current[Consumer(r)], current)
    BY <2>2 DEF HasBeen
  <2>5. KnownCall(c)
    BY <2>3, <2>4 DEF KnownCall, Writes, ReportStages
  <2> QED BY <2>1, <2>5, ReadsMove
<1>2. CASE CreateAssessment(k)
  <2>1. call' = [call EXCEPT ![k] = Idle] /\ UNCHANGED << current, proposals, decisions, relationships >>
    BY <1>2 DEF CreateAssessment, Goto
  <2>2. /\ assessments' \in Seq(Judgement)
        /\ \A a \in 1 .. Len(assessments) :
             a \in 1 .. Len(assessments') /\ assessments'[a] = assessments[a]
        /\ \A a \in 1 .. Len(assessments') :
             /\ assessments'[a].of \in RelationshipIds
             /\ HasBeen(assessments'[a].of, assessments'[a].provider, assessments'[a].consumer, current)
    <3>1. CASE assessments' = assessments
      BY <1>0, <3>1 DEF Tables
    <3>2. CASE assessments' # assessments
      <4> PICK j : j = [of |-> call[k].of, provider |-> call[k].provider,
                        consumer |-> call[k].consumer]
        OBVIOUS
      <4>1. assessments' = Append(assessments, j)
        BY <1>2, <3>2 DEF CreateAssessment
      <4>2. call[k] \in [at : {"assess"}, of : Nat, provider : Nat, consumer : Nat]
        BY <1>0, <1>2 DEF CreateAssessment, KnownCall, Writes, Reports, ReportStages, Idle
      <4>3. j \in Judgement
        BY <4>2 DEF Judgement
      <4>4. j.of \in RelationshipIds /\ HasBeen(j.of, j.provider, j.consumer, current)
        BY <1>0, <4>2 DEF KnownCall
      <4>5. /\ assessments' \in Seq(Judgement) /\ Len(assessments) \in Nat
            /\ Len(assessments') = Len(assessments) + 1
            /\ \A i \in 1 .. Len(assessments) :
                 i \in 1 .. Len(assessments') /\ assessments'[i] = assessments[i]
            /\ assessments'[Len(assessments) + 1] = j
        BY <1>0, <4>1, <4>3, OneMore DEF Tables
      <4>6. ASSUME NEW a \in 1 .. Len(assessments')
            PROVE  /\ assessments'[a].of \in RelationshipIds
                   /\ HasBeen(assessments'[a].of, assessments'[a].provider,
                              assessments'[a].consumer, current)
        <5>1. a \in 1 .. Len(assessments) \/ a = Len(assessments) + 1
          BY <4>5
        <5> QED BY <1>0, <4>4, <4>5, <5>1 DEF Tables
      <4> QED BY <4>5, <4>6
    <3> QED BY <3>1, <3>2
  <2>3. Tables'
    BY <1>0, <2>1, <2>2 DEF Tables, RelationshipIds, BindsKnown, HasBeen, Provider, Consumer
  <2>4. MovesOn
    BY <1>0, <2>1, <2>2 DEF MovesOn, Tables, RelationshipIds
  <2>5. KnownCall(Idle)'
    BY <1>0, <2>3, <2>4, IdleIsKnown, StillKnown
  <2> QED BY <2>1, <2>3, <2>4, <2>5, CallMoves
<1> QED BY <1>1, <1>2 DEF Assess

(* A report goes on at another stage, with what it has found out by then.   *)
LEMMA ReportsGoOn ==
  ASSUME ImpactInv, UNCHANGED << current, tables >>, NEW k \in Callers,
         NEW c \in Reports, KnownReport(c), call' = [call EXCEPT ![k] = c]
  PROVE  ImpactInv'
<1>1. KnownCall(c)
  BY DEF KnownCall, Reports, ReportStages
<1> QED BY <1>1, ReadsMove

LEMMA ReportsBegin ==
  ASSUME ImpactInv, UNCHANGED << current, tables >>, NEW k \in Callers,
         NEW r \in RelationshipIds, NEW stage \in {"consumer", "source"},
         NEW path \in Path, path.binding = "unknown", path.judged = "unknown",
         HasBeen(r, path.provider, path.consumer, current),
         call' = [call EXCEPT ![k] = Report(r, stage, path)]
  PROVE  ImpactInv'
<1> PICK c : c = Report(r, stage, path)
  OBVIOUS
<1>1. Tables /\ current \in [Endpoints -> Nat] /\ r \in Nat
  BY DEF ImpactInv, Tables, RelationshipIds
<1>2. /\ c \in Reports /\ c.at = stage /\ c.of = r /\ c.path = path /\ c.moment = current
  BY <1>1 DEF Report, Reports, ReportStages
<1>3. BindsKnown(r, current)
  BY <1>1 DEF Tables
<1>4. path.provider <= current[Provider(r)]
  BY DEF HasBeen
<1>5. \A e \in Endpoints : c.moment[e] <= current[e]
  BY <1>1, <1>2
<1>6. KnownReport(c)
  BY <1>2, <1>3, <1>4, <1>5 DEF KnownReport
<1> QED BY <1>2, <1>6, ReportsGoOn

LEMMA BeginningsMove ==
  ASSUME ImpactInv, NEW k \in Callers,
         \/ \E r \in RelationshipIds :
              \/ BeginDependency(k, r)
              \/ \E provider \in 1 .. current[Provider(r)] : BeginImpact(k, r, provider)
         \/ \E a \in 1 .. Len(assessments) : BeginPath(k, a)
  PROVE  ImpactInv'
<1>0. Tables
  BY DEF ImpactInv
<1>1. ASSUME NEW r \in RelationshipIds, NEW provider \in 0 .. current[Provider(r)],
             UNCHANGED << current, tables >>,
             call' = [call EXCEPT ![k] =
               Report(r, "consumer", [NoPath EXCEPT !.provider = provider])]
      PROVE  ImpactInv'
  <2> PICK path : path = [NoPath EXCEPT !.provider = provider]
    OBVIOUS
  <2>1. current[Provider(r)] \in Nat /\ current[Consumer(r)] \in Nat /\ provider \in Nat
    BY <1>0, EndsAreEndpoints DEF Tables
  <2>2. /\ path \in Path /\ path.provider = provider /\ path.consumer = 0
        /\ path.binding = "unknown" /\ path.judged = "unknown"
    BY <2>1 DEF NoPath, Path
  <2>3. HasBeen(r, path.provider, path.consumer, current)
    BY <2>1, <2>2 DEF HasBeen
  <2> QED BY <1>1, <2>2, <2>3, ReportsBegin
<1>2. ASSUME NEW r \in RelationshipIds, BeginDependency(k, r) PROVE ImpactInv'
  <2>1. current[Provider(r)] \in 0 .. current[Provider(r)]
    BY <1>0, EndsAreEndpoints DEF Tables
  <2> QED BY <1>1, <1>2, <2>1 DEF BeginDependency, Goto
<1>3. ASSUME NEW r \in RelationshipIds, NEW provider \in 1 .. current[Provider(r)],
             BeginImpact(k, r, provider)
      PROVE  ImpactInv'
  <2>1. provider \in 0 .. current[Provider(r)]
    OBVIOUS
  <2> QED BY <1>1, <1>3, <2>1 DEF BeginImpact, Goto
<1>4. ASSUME NEW a \in 1 .. Len(assessments), BeginPath(k, a) PROVE ImpactInv'
  <2>1. assessments[a] \in Judgement
    BY <1>0, ElementOfSeq DEF Tables
  <2>2. /\ assessments[a].of \in RelationshipIds
        /\ HasBeen(assessments[a].of, assessments[a].provider, assessments[a].consumer, current)
    BY <1>0 DEF Tables
  <2> PICK path : path = [NoPath EXCEPT !.provider = assessments[a].provider,
                                        !.consumer = assessments[a].consumer]
    OBVIOUS
  <2>3. /\ path \in Path /\ path.provider = assessments[a].provider
        /\ path.consumer = assessments[a].consumer
        /\ path.binding = "unknown" /\ path.judged = "unknown"
    BY <2>1 DEF NoPath, Path, Judgement
  <2>4. UNCHANGED << current, tables >>
        /\ call' = [call EXCEPT ![k] = Report(assessments[a].of, "source", path)]
    BY <1>4 DEF BeginPath, Goto
  <2> QED BY <2>2, <2>3, <2>4, ReportsBegin
<1> QED BY <1>2, <1>3, <1>4

(* A report goes on: with the Revisions and findings of its next stage, in  *)
(* the moment it had or in this one.                                        *)
LEMMA GoesOn ==
  ASSUME ImpactInv, NEW k \in Callers, call[k] \in Reports,
         NEW stage \in ReportStages, NEW path \in Path,
         \/ /\ Continue(k, stage, path)
            /\ \A c \in Reports : /\ c.at = stage /\ c.of = call[k].of /\ c.path = path
                                  /\ c.moment = call[k].moment
                                 => KnownReport(c)
         \/ /\ ContinueAt(k, stage, path)
            /\ \A c \in Reports : /\ c.at = stage /\ c.of = call[k].of /\ c.path = path
                                  /\ c.moment = current
                                 => KnownReport(c)
  PROVE  ImpactInv'
<1>0. current \in [Endpoints -> Nat]
  BY DEF ImpactInv, Tables
<1>1. CASE /\ Continue(k, stage, path)
           /\ \A c \in Reports : /\ c.at = stage /\ c.of = call[k].of /\ c.path = path
                                 /\ c.moment = call[k].moment
                                => KnownReport(c)
  <2> PICK o \in Reports : o = call[k]
    OBVIOUS
  <2> PICK c : c = [o EXCEPT !.at = stage, !.path = path]
    OBVIOUS
  <2>1. /\ c \in Reports /\ c.at = stage /\ c.of = call[k].of /\ c.path = path
        /\ c.moment = call[k].moment
    BY <1>0 DEF Reports
  <2>2. call' = [call EXCEPT ![k] = c] /\ UNCHANGED << current, tables >>
    BY <1>1 DEF Continue, Goto
  <2>3. KnownReport(c)
    BY <1>1, <2>1
  <2> QED BY <2>1, <2>2, <2>3, ReportsGoOn
<1>2. CASE /\ ContinueAt(k, stage, path)
           /\ \A c \in Reports : /\ c.at = stage /\ c.of = call[k].of /\ c.path = path
                                 /\ c.moment = current
                                => KnownReport(c)
  <2> PICK o \in Reports : o = call[k]
    OBVIOUS
  <2> PICK c : c = [o EXCEPT !.at = stage, !.path = path, !.moment = current]
    OBVIOUS
  <2>1. /\ c \in Reports /\ c.at = stage /\ c.of = call[k].of /\ c.path = path
        /\ c.moment = current
    BY <1>0 DEF Reports
  <2>2. call' = [call EXCEPT ![k] = c] /\ UNCHANGED << current, tables >>
    BY <1>2 DEF ContinueAt, Goto
  <2>3. KnownReport(c)
    BY <1>2, <2>1
  <2> QED BY <2>1, <2>2, <2>3, ReportsGoOn
<1> QED BY <1>1, <1>2

(* What a report knows wherever it stands, and what it would know if it     *)
(* took this moment for its own.                                            *)
LEMMA ReportStands ==
  ASSUME ImpactInv, NEW k \in Callers, call[k].at \in ReportStages
  PROVE  /\ call[k] \in Reports /\ KnownReport(call[k]) /\ call[k].path \in Path
         /\ call[k].of \in RelationshipIds
         /\ current \in [Endpoints -> Nat]
         /\ BindsKnown(call[k].of, current)
         /\ call[k].path.provider <= current[Provider(call[k].of)]
         /\ call[k].path.consumer <= current[Consumer(call[k].of)]
         /\ Provider(call[k].of) \in Endpoints /\ Consumer(call[k].of) \in Endpoints
<1>1. call[k] \in Reports /\ KnownReport(call[k]) /\ Tables
  BY DEF ImpactInv, KnownCall
<1>2. call[k].of \in RelationshipIds /\ HasBeen(call[k].of, call[k].path.provider,
                                                call[k].path.consumer, current)
  BY <1>1 DEF KnownReport
<1> QED BY <1>1, <1>2, EndsAreEndpoints DEF Tables, HasBeen, Reports

LEMMA BindingStagesMove ==
  ASSUME ImpactInv, NEW k \in Callers,
         SelectConsumer(k) \/ ReadBindingSource(k) \/ ReadBindingTarget(k)
  PROVE  ImpactInv'
<1>0. call[k].at \in ReportStages
  BY DEF SelectConsumer, ReadBindingSource, ReadBindingTarget, Reading, ReportStages
<1> PICK r, q, m : r = call[k].of /\ q = call[k].path /\ m = call[k].moment
  OBVIOUS
<1>1. /\ call[k] \in Reports /\ KnownReport(call[k]) /\ q \in Path
      /\ r \in RelationshipIds /\ current \in [Endpoints -> Nat]
      /\ BindsKnown(r, current)
      /\ q.provider <= current[Provider(r)] /\ q.consumer <= current[Consumer(r)]
      /\ Provider(r) \in Endpoints /\ Consumer(r) \in Endpoints
  BY <1>0, ReportStands
<1>2. current[Provider(r)] \in Nat /\ current[Consumer(r)] \in Nat
      /\ \A e \in Endpoints : current[e] <= current[e]
  BY <1>1
<1>3. CASE SelectConsumer(k)
  <2> PICK p : p = [q EXCEPT !.consumer = current[Consumer(r)]]
    OBVIOUS
  <2>1. /\ p \in Path /\ p.provider = q.provider /\ p.consumer = current[Consumer(r)]
        /\ p.binding = q.binding /\ p.judged = q.judged
    BY <1>1, <1>2 DEF Path
  <2>2. Continue(k, "source", p) /\ call[k].at = "consumer"
    BY <1>3 DEF SelectConsumer, Reading
  <2>3. ASSUME NEW c \in Reports, c.at = "source", c.of = r, c.path = p, c.moment = m
        PROVE  KnownReport(c)
    BY <1>1, <1>2, <2>1, <2>2, <2>3 DEF KnownReport, HasBeen
  <2> QED BY <1>1, <2>1, <2>2, <2>3, GoesOn DEF ReportStages
<1>4. CASE ReadBindingSource(k)
  <2>0. call[k].at = "source" /\ q.binding = "unknown" /\ q.judged = "unknown"
    BY <1>1, <1>4 DEF ReadBindingSource, Reading, KnownReport
  <2>1. CASE IsCurrent(relationships[r].source)
    <3>1. ContinueAt(k, "binding", q)
      BY <1>4, <2>1 DEF ReadBindingSource
    <3>2. current[Consumer(r)] = relationships[r].source.revision
      BY <2>1 DEF IsCurrent, Consumer
    <3>3. ASSUME NEW c \in Reports, c.at = "binding", c.of = r, c.path = q, c.moment = current
          PROVE  KnownReport(c)
      BY <1>1, <1>2, <2>0, <3>2, <3>3 DEF KnownReport, HasBeen
    <3> QED BY <1>1, <3>1, <3>3, GoesOn DEF ReportStages
  <2>2. CASE ~ IsCurrent(relationships[r].source)
    <3> PICK p : p = [q EXCEPT !.binding = "Stale"]
      OBVIOUS
    <3>1. /\ p \in Path /\ p.provider = q.provider /\ p.consumer = q.consumer
          /\ p.binding = "Stale" /\ p.judged = "unknown"
      BY <1>1, <2>0 DEF Path
    <3>2. ContinueAt(k, "applicable", p)
      BY <1>4, <2>2 DEF ReadBindingSource
    <3>3. ~ Whole(r, current)
      BY <2>2 DEF IsCurrent, Consumer, Whole
    <3>4. ASSUME NEW c \in Reports, c.at = "applicable", c.of = r, c.path = p, c.moment = current
          PROVE  KnownReport(c)
      BY <1>1, <1>2, <3>1, <3>3, <3>4 DEF KnownReport, HasBeen
    <3> QED BY <1>1, <3>1, <3>2, <3>4, GoesOn DEF ReportStages
  <2> QED BY <2>1, <2>2
<1>5. CASE ReadBindingTarget(k)
  <2>0. call[k].at = "binding" /\ q.judged = "unknown"
        /\ m[Consumer(r)] = relationships[r].source.revision
    BY <1>1, <1>5 DEF ReadBindingTarget, Reading, KnownReport
  <2> PICK f : f = Freshness(IsCurrent(relationships[r].target))
    OBVIOUS
  <2> PICK p : p = [q EXCEPT !.binding = f]
    OBVIOUS
  <2>1. f \in {"Fresh", "Stale"}
    BY DEF Freshness
  <2>2. /\ p \in Path /\ p.provider = q.provider /\ p.consumer = q.consumer
        /\ p.binding = f /\ p.judged = "unknown"
    BY <1>1, <2>0, <2>1 DEF Path
  <2>3. Continue(k, "applicable", p)
    BY <1>5 DEF ReadBindingTarget
  <2>4. f = "Fresh" <=> current[Provider(r)] = relationships[r].target.revision
    BY DEF Freshness, IsCurrent, Provider
  <2>5. f = "Stale" => ~ Whole(r, current)
    BY <2>4 DEF Whole
  <2>6. f = "Fresh" => Whole(r, m)
    <3> SUFFICES ASSUME f = "Fresh" PROVE m[Provider(r)] = relationships[r].target.revision
      BY <2>0 DEF Whole
    <3>1. m[Provider(r)] <= current[Provider(r)] /\ relationships[r].target.revision <= m[Provider(r)]
      BY <1>1 DEF KnownReport, BindsKnown, HasBeen
    <3>2. m[Provider(r)] \in Nat
      BY <1>1 DEF Reports
    <3> QED BY <1>2, <2>4, <3>1, <3>2
  <2>7. ASSUME NEW c \in Reports, c.at = "applicable", c.of = r, c.path = p, c.moment = m
        PROVE  KnownReport(c)
    BY <1>1, <2>0, <2>1, <2>2, <2>5, <2>6, <2>7 DEF KnownReport
  <2> QED BY <1>1, <2>2, <2>3, <2>7, GoesOn DEF ReportStages
<1> QED BY <1>3, <1>4, <1>5

LEMMA JudgementStagesMove ==
  ASSUME ImpactInv, NEW k \in Callers,
         \/ SelectAssessment(k) \/ JudgeProvider(k) \/ JudgeConsumer(k)
         \/ ViewProvider(k) \/ ViewConsumer(k)
  PROVE  ImpactInv'
<1>0. call[k].at \in ReportStages
  BY DEF SelectAssessment, JudgeProvider, JudgeConsumer, ViewProvider, ViewConsumer,
         Reading, ReportStages
<1> PICK r, q, m : r = call[k].of /\ q = call[k].path /\ m = call[k].moment
  OBVIOUS
<1>1. /\ call[k] \in Reports /\ KnownReport(call[k]) /\ q \in Path
      /\ r \in RelationshipIds /\ current \in [Endpoints -> Nat]
      /\ BindsKnown(r, current)
      /\ q.provider <= current[Provider(r)] /\ q.consumer <= current[Consumer(r)]
      /\ Provider(r) \in Endpoints /\ Consumer(r) \in Endpoints
  BY <1>0, ReportStands
<1>2. current[Provider(r)] \in Nat /\ current[Consumer(r)] \in Nat
      /\ \A e \in Endpoints : current[e] <= current[e]
  BY <1>1
<1>3. CASE SelectAssessment(k)
  <2>0. call[k].at = "applicable" /\ q.judged = "unknown"
    BY <1>1, <1>3 DEF SelectAssessment, Reading, KnownReport
  <2>1. CASE Continue(k, "providerView", q)
    <3>1. ASSUME NEW c \in Reports, c.at = "providerView", c.of = r, c.path = q, c.moment = m
          PROVE  KnownReport(c)
      BY <1>1, <2>0, <3>1 DEF KnownReport
    <3> QED BY <1>1, <2>1, <3>1, GoesOn DEF ReportStages
  <2>2. CASE \E a \in Applicable(r, q.provider, q.consumer) :
               Continue(k, "judge", [q EXCEPT !.assessment = a])
    <3> PICK a \in Applicable(r, q.provider, q.consumer) :
               Continue(k, "judge", [q EXCEPT !.assessment = a])
      BY <2>2
    <3> PICK p : p = [q EXCEPT !.assessment = a]
      OBVIOUS
    <3>1. /\ a \in 1 .. Len(assessments) /\ a \in Nat
          /\ assessments[a].provider = q.provider /\ assessments[a].consumer = q.consumer
      BY DEF Applicable
    <3>2. /\ p \in Path /\ p.provider = q.provider /\ p.consumer = q.consumer
          /\ p.binding = q.binding /\ p.judged = "unknown" /\ p.assessment = a
      BY <1>1, <2>0, <3>1 DEF Path
    <3>3. ASSUME NEW c \in Reports, c.at = "judge", c.of = r, c.path = p, c.moment = m
          PROVE  KnownReport(c)
      BY <1>1, <2>0, <3>1, <3>2, <3>3 DEF KnownReport
    <3> QED BY <1>1, <3>2, <3>3, GoesOn DEF ReportStages
  <2> QED BY <1>3, <2>1, <2>2 DEF SelectAssessment
<1>4. CASE JudgeProvider(k)
  <2>0. /\ call[k].at = "judge" /\ q.judged = "unknown"
        /\ q.assessment \in 1 .. Len(assessments)
        /\ assessments[q.assessment].provider = q.provider
        /\ assessments[q.assessment].consumer = q.consumer
    BY <1>1, <1>4 DEF JudgeProvider, Reading, KnownReport
  <2>1. q.binding = "Stale" => ~ Whole(r, current)
    BY <1>1 DEF KnownReport
  <2>2. CASE current[Provider(r)] = q.provider
    <3>1. ContinueAt(k, "judgeConsumer", q)
      BY <1>4, <2>0, <2>2 DEF JudgeProvider
    <3>2. ASSUME NEW c \in Reports, c.at = "judgeConsumer", c.of = r, c.path = q,
                 c.moment = current
          PROVE  KnownReport(c)
      BY <1>1, <1>2, <2>0, <2>1, <2>2, <3>2 DEF KnownReport, HasBeen
    <3> QED BY <1>1, <3>1, <3>2, GoesOn DEF ReportStages
  <2>3. CASE current[Provider(r)] # q.provider
    <3> PICK p : p = [q EXCEPT !.judged = "Stale"]
      OBVIOUS
    <3>1. /\ p \in Path /\ p.provider = q.provider /\ p.consumer = q.consumer
          /\ p.binding = q.binding /\ p.judged = "Stale"
      BY <1>1 DEF Path
    <3>2. ContinueAt(k, "providerView", p)
      BY <1>4, <2>0, <2>3 DEF JudgeProvider
    <3>3. ASSUME NEW c \in Reports, c.at = "providerView", c.of = r, c.path = p,
                 c.moment = current
          PROVE  KnownReport(c)
      BY <1>1, <1>2, <2>1, <2>3, <3>1, <3>3 DEF KnownReport, HasBeen
    <3> QED BY <1>1, <3>1, <3>2, <3>3, GoesOn DEF ReportStages
  <2> QED BY <2>2, <2>3
<1>5. CASE JudgeConsumer(k)
  <2>0. /\ call[k].at = "judgeConsumer" /\ q.judged = "unknown"
        /\ assessments[q.assessment].consumer = q.consumer
        /\ m[Provider(r)] = q.provider /\ q.consumer <= m[Consumer(r)]
        /\ m[Consumer(r)] <= current[Consumer(r)]
    BY <1>1, <1>5 DEF JudgeConsumer, Reading, KnownReport
  <2> PICK f : f = Freshness(current[Consumer(r)] = q.consumer)
    OBVIOUS
  <2> PICK p : p = [q EXCEPT !.judged = f]
    OBVIOUS
  <2>1. f \in {"Fresh", "Stale"} /\ (f = "Fresh" <=> current[Consumer(r)] = q.consumer)
    BY DEF Freshness
  <2>2. /\ p \in Path /\ p.provider = q.provider /\ p.consumer = q.consumer
        /\ p.binding = q.binding /\ p.judged = f
    BY <1>1, <2>1 DEF Path
  <2>3. Continue(k, "providerView", p)
    BY <1>5, <2>0 DEF JudgeConsumer
  <2>4. f = "Fresh" => m[Consumer(r)] = q.consumer
    <3>1. m[Consumer(r)] \in Nat /\ q.consumer \in Nat
      BY <1>1 DEF Reports, Path
    <3> QED BY <1>2, <2>0, <2>1, <3>1
  <2>5. ASSUME NEW c \in Reports, c.at = "providerView", c.of = r, c.path = p, c.moment = m
        PROVE  KnownReport(c)
    BY <1>1, <2>0, <2>1, <2>2, <2>4, <2>5 DEF KnownReport
  <2> QED BY <1>1, <2>2, <2>3, <2>5, GoesOn DEF ReportStages
<1>6. CASE ViewProvider(k)
  <2> PICK v : v = Temporal(Provider(r), q.provider)
    OBVIOUS
  <2> PICK p : p = [q EXCEPT !.providerIs = v]
    OBVIOUS
  <2>1. v \in {"Current", "Historical"}
    BY DEF Temporal
  <2>2. /\ p \in Path /\ p.provider = q.provider /\ p.consumer = q.consumer
        /\ p.binding = q.binding /\ p.judged = q.judged
    BY <1>1, <2>1 DEF Path
  <2>3. Continue(k, "consumerView", p) /\ call[k].at = "providerView"
    BY <1>6 DEF ViewProvider, Reading
  <2>4. ASSUME NEW c \in Reports, c.at = "consumerView", c.of = r, c.path = p, c.moment = m
        PROVE  KnownReport(c)
    BY <1>1, <2>2, <2>3, <2>4 DEF KnownReport
  <2> QED BY <1>1, <2>2, <2>3, <2>4, GoesOn DEF ReportStages
<1>7. CASE ViewConsumer(k)
  BY <1>7, IdleIsKnown, ReadsMove DEF ViewConsumer, Goto
<1> QED BY <1>3, <1>4, <1>5, <1>6, <1>7

-----------------------------------------------------------------------------
LEMMA ImpactInvInductive == ImpactInv /\ [Next]_vars => ImpactInv'
<1> SUFFICES ASSUME ImpactInv, [Next]_vars PROVE ImpactInv'
  OBVIOUS
<1>1. ASSUME NEW k \in Callers, ReportPath(k) PROVE ImpactInv'
  BY <1>1, BeginningsMove, BindingStagesMove, JudgementStagesMove DEF ReportPath
<1>2. CASE UNCHANGED vars
  <2>1. Tables' /\ MovesOn /\ call' = call
    BY <1>2, TablesStay DEF ImpactInv, vars, tables
  <2>2. ASSUME NEW k \in Callers PROVE KnownCall(call[k])'
    <3> PICK c : c = call[k]
      OBVIOUS
    <3>1. KnownCall(c)'
      BY <2>1, StillKnown DEF ImpactInv
    <3> QED BY <2>1, <3>1 DEF KnownCall
  <2> QED BY <2>1, <2>2 DEF ImpactInv
<1> QED BY <1>1, <1>2, RevisionsMove, ReviewsMove, RelationsMove, AssessmentsMove DEF Next

LEMMA ImpactInvHolds == Spec => []ImpactInv
<1>1. Init => ImpactInv
  <2> SUFFICES ASSUME Init PROVE ImpactInv
    OBVIOUS
  <2>1. Tables
    BY EmptySeq DEF Init, Tables, RelationshipIds
  <2> QED BY <2>1, IdleIsKnown DEF Init, ImpactInv
<1> QED BY <1>1, ImpactInvInductive, PTL DEF Spec

(* Whatever happens between the reads a report is made of: what it calls    *)
(* fresh was Current at both ends at one moment of the report, and what it  *)
(* calls stale is so for good.                                              *)
THEOREM ReportsAreTrue == Spec => []ReaderIsTold
<1>1. ImpactInv => ReaderIsTold
  <2> SUFFICES ASSUME ImpactInv, NEW k \in Callers, call[k].at \in ReportStages
               PROVE  LET b == call[k].path.binding  r == relationships[call[k].of]
                          whole(pointers) ==
                            \A x \in {r.source, r.target} : pointers[x.end] = x.revision
                          path == call[k].path  of == call[k].of
                          fresh(pointers) == /\ pointers[Provider(of)] = path.provider
                                             /\ pointers[Consumer(of)] = path.consumer
                      IN /\ b = "Fresh" /\ call[k].at = "applicable" => whole(call[k].moment)
                         /\ b = "Stale" => ~ whole(current)
                         /\ path.judged = "Fresh" => fresh(call[k].moment)
                         /\ path.judged = "Stale" => ~ fresh(current)
    BY DEF ReaderIsTold, BindingIsTold
  <2>1. KnownReport(call[k])
    BY ReportStands
  <2> QED BY <2>1 DEF KnownReport, Whole, Provider, Consumer
<1> QED BY <1>1, ImpactInvHolds, PTL

(* A relationship is born binding what is Current at both its ends, and an  *)
(* assessment judging the consumer that is Current, however old the reads   *)
(* they were planned from; both projects hear of an assessment.             *)
THEOREM WritesAreOfTheMoment == Spec => WritesAreCurrent
<1>1. ASSUME ImpactInv, [Next]_vars, NEW r \in DOMAIN relationships' \ RelationshipIds
      PROVE  IsCurrent(relationships'[r].source) /\ IsCurrent(relationships'[r].target)
  <2>0. /\ relationships \in Seq(Link) /\ relationships' \in Seq(Link)
        /\ proposals \in Seq(Row)
    BY <1>1, ImpactInvInductive DEF ImpactInv, Tables
  <2>1. DOMAIN relationships = RelationshipIds /\ relationships' # relationships
    BY <1>1, <2>0, LenProperties DEF RelationshipIds
  <2>2. PICK id \in 1 .. Len(proposals), d \in {"Accepted", "Rejected"} :
          ReviewRelationship(id, d)
    <3>1. ASSUME NEW k \in Callers, Relate(k) \/ Assess(k) \/ ReportPath(k)
          PROVE  relationships' = relationships
      BY <3>1 DEF Relate, ReadSource, ReadTarget, SubmitRelationship, Assess, ReadConsumer,
           CreateAssessment, ReportPath, BeginDependency, BeginImpact, BeginPath,
           SelectConsumer, ReadBindingSource, ReadBindingTarget, SelectAssessment,
           JudgeProvider, JudgeConsumer, ViewProvider, ViewConsumer, Continue, ContinueAt,
           tables
    <3> QED BY <1>1, <2>1, <3>1 DEF Next, vars, NewRevision, tables
  <2>3. d = "Accepted" /\ MayAccept(proposals[id])
    BY <2>1, <2>2 DEF ReviewRelationship
  <2> PICK link : link = [proposal |-> id, source |-> proposals[id].source,
                          target |-> proposals[id].target]
    OBVIOUS
  <2>4. relationships' = Append(relationships, link)
    BY <2>2, <2>3 DEF ReviewRelationship
  <2>5. link \in Link
    <3>1. proposals[id] \in Row
      BY <2>0, ElementOfSeq
    <3> QED BY <3>1 DEF Row, Link
  <2>6. relationships'[r] = link
    <3>1. DOMAIN relationships' = 1 .. Len(relationships')
      BY <2>0, LenProperties
    <3>2. r = Len(relationships) + 1
      BY <1>1, <2>0, <2>4, <2>5, <3>1, OneMore DEF RelationshipIds
    <3> QED BY <2>0, <2>4, <2>5, <3>2, OneMore
  <2> QED BY <2>3, <2>6 DEF MayAccept
<1>2. ASSUME ImpactInv, [Next]_vars, NEW a \in DOMAIN assessments' \ DOMAIN assessments
      PROVE  LET of == assessments'[a].of IN
             /\ assessments'[a].consumer = current[Consumer(of)]
             /\ \A e \in {Consumer(of), Provider(of)} :
                  [project |-> ProjectOf(e), event |-> "Assessed", id |-> a] \in audits'
  <2>0. /\ assessments \in Seq(Judgement) /\ assessments' \in Seq(Judgement)
        /\ \A k \in Callers : KnownCall(call[k])
    BY <1>2, ImpactInvInductive DEF ImpactInv, Tables
  <2>1. PICK k \in Callers : CreateAssessment(k)
    <3>1. ASSUME NEW k \in Callers, Relate(k) \/ ReportPath(k) PROVE assessments' = assessments
      BY <3>1 DEF Relate, ReadSource, ReadTarget, SubmitRelationship, ReportPath,
           BeginDependency, BeginImpact, BeginPath, SelectConsumer, ReadBindingSource,
           ReadBindingTarget, SelectAssessment, JudgeProvider, JudgeConsumer, ViewProvider,
           ViewConsumer, Continue, ContinueAt, tables
    <3>2. ASSUME NEW k \in Callers, Assess(k), ~ CreateAssessment(k)
          PROVE  assessments' = assessments
      BY <3>2 DEF Assess, ReadConsumer, tables
    <3> QED BY <1>2, <3>1, <3>2 DEF Next, vars, NewRevision, ReviewRelationship, tables
  <2> PICK j : j = [of |-> call[k].of, provider |-> call[k].provider,
                    consumer |-> call[k].consumer]
    OBVIOUS
  <2>2. /\ ConsumerIsCurrent(call[k].of, call[k].consumer)
        /\ assessments' = Append(assessments, j)
        /\ audits' = audits \union
             EndpointAudits("Assessed", Len(assessments) + 1,
                            relationships[call[k].of].source, relationships[call[k].of].target)
    BY <1>2, <2>1 DEF CreateAssessment
  <2>3. call[k] \in [at : {"assess"}, of : Nat, provider : Nat, consumer : Nat]
    BY <2>0, <2>1 DEF CreateAssessment, KnownCall, Writes, Reports, ReportStages, Idle
  <2>4. j \in Judgement
    BY <2>3 DEF Judgement
  <2>5. a = Len(assessments) + 1 /\ assessments'[a] = j
    <3>1. /\ DOMAIN assessments' = 1 .. Len(assessments')
          /\ DOMAIN assessments = 1 .. Len(assessments)
      BY <2>0, LenProperties
    <3>2. a = Len(assessments) + 1
      BY <1>2, <2>0, <2>2, <2>4, <3>1, OneMore
    <3> QED BY <2>0, <2>2, <2>4, <3>2, OneMore
  <2>6. \A e \in {Consumer(j.of), Provider(j.of)} :
          [project |-> ProjectOf(e), event |-> "Assessed", id |-> a] \in audits'
    BY <2>2, <2>5 DEF EndpointAudits, Consumer, Provider
  <2> QED BY <2>2, <2>5, <2>6 DEF ConsumerIsCurrent
<1>3. ImpactInv /\ [Next]_vars =>
        [\A r \in DOMAIN relationships' \ RelationshipIds :
           IsCurrent(relationships'[r].source) /\ IsCurrent(relationships'[r].target)]_vars
  BY <1>1
<1>4. ImpactInv /\ [Next]_vars =>
        [\A a \in DOMAIN assessments' \ DOMAIN assessments :
           LET of == assessments'[a].of IN
           /\ assessments'[a].consumer = current[Consumer(of)]
           /\ \A e \in {Consumer(of), Provider(of)} :
                [project |-> ProjectOf(e), event |-> "Assessed", id |-> a] \in audits']_vars
  BY <1>2
<1> QED BY <1>3, <1>4, ImpactInvHolds, PTL DEF Spec, WritesAreCurrent, BornFresh

-----------------------------------------------------------------------------
(* Proposals, decisions, relationships and audit events tell one story.     *)
ProposalIds == 1 .. Len(proposals)
LinkOf(id) == [proposal |-> id, source |-> proposals[id].source, target |-> proposals[id].target]
DecisionsOn(id) == {d.decision : d \in {x \in decisions : x.proposal = id}}

Told(id, event) ==
  \A b \in {proposals[id].source, proposals[id].target} :
    [project |-> ProjectOf(b.end), event |-> event, id |-> id] \in audits

(* What a caller is about to write names Revisions, never the absence of    *)
(* one.                                                                     *)
Ready(c) ==
  /\ c.at = "submit" => c.source \in Binding /\ c.target \in Binding
  /\ c.at = "assess" => c.provider \in Nat \ {0} /\ c.consumer \in Nat \ {0}

Shapes ==
  /\ proposals \in Seq(Proposal)
  /\ relationships \in Seq(Relationship)
  /\ assessments \in Seq(Assessment)

Decisive(id) ==
  /\ DecisionsOn(id) = {proposals[id].status} \ {"Submitted"}
  /\ Told(id, "Proposed")
  /\ proposals[id].status # "Submitted" => Told(id, proposals[id].status)
  /\ proposals[id].status = "Accepted" => \E r \in RelationshipIds : relationships[r].proposal = id

Made(r) ==
  /\ relationships[r].proposal \in ProposalIds
  /\ relationships[r] = LinkOf(relationships[r].proposal)
  /\ proposals[relationships[r].proposal].status = "Accepted"

ReviewInv ==
  /\ Shapes
  /\ \A k \in Callers : Ready(call[k])
  /\ \A d \in decisions : d.proposal \in ProposalIds
  /\ \A id \in ProposalIds : Decisive(id)
  /\ \A r \in RelationshipIds : Made(r)
  /\ \A r, s \in RelationshipIds : relationships[r].proposal = relationships[s].proposal => r = s

LEMMA ReadyStays ==
  ASSUME ImpactInv, \A k \in Callers : Ready(call[k]), NEW k \in Callers, NEW c, Ready(c),
         call' = [call EXCEPT ![k] = c]
  PROVE  \A j \in Callers : Ready(call[j])'
<1>1. \A j \in Callers : Ready(call'[j])
  BY DEF ImpactInv
<1> QED BY <1>1 DEF Ready, Binding

LEMMA IdleIsReady == Ready(Idle)
  BY DEF Ready, Idle

(* A step that writes neither Proposals, decisions nor relationships.       *)
LEMMA StoryStays ==
  ASSUME ReviewInv, UNCHANGED << proposals, decisions, relationships >>, audits \subseteq audits',
         assessments' \in Seq(Assessment), \A j \in Callers : Ready(call[j])'
  PROVE  ReviewInv'
<1>1. ASSUME NEW id \in ProposalIds PROVE Decisive(id)'
  BY <1>1 DEF ReviewInv, Decisive, DecisionsOn, Told, RelationshipIds
<1>2. ASSUME NEW r \in RelationshipIds PROVE Made(r)'
  BY <1>2 DEF ReviewInv, Made, LinkOf, ProposalIds
<1> QED
  BY <1>1, <1>2 DEF ReviewInv, Shapes, ProposalIds, RelationshipIds

LEMMA ReadsKeepStory ==
  ASSUME ImpactInv, ReviewInv, UNCHANGED << current, tables >>, NEW k \in Callers, NEW c, Ready(c),
         call' = [call EXCEPT ![k] = c]
  PROVE  ReviewInv'
<1>1. \A j \in Callers : Ready(call[j])'
  BY ReadyStays DEF ReviewInv
<1> QED BY <1>1, StoryStays DEF tables, ReviewInv, Shapes

LEMMA ReportsKeepStory ==
  ASSUME ImpactInv, ReviewInv, NEW k \in Callers, ReportPath(k)
  PROVE  ReviewInv'
<1>1. ASSUME NEW r, NEW stage \in {"consumer", "source"}, NEW path, UNCHANGED << current, tables >>,
             Goto(k, Report(r, stage, path))
      PROVE  ReviewInv'
  <2> PICK c : c = Report(r, stage, path)
    OBVIOUS
  <2>1. Ready(c)
    BY DEF Report, Ready
  <2> QED BY <1>1, <2>1, ReadsKeepStory DEF Goto
<1>2. ASSUME NEW stage \in ReportStages, NEW path, call[k].at \in ReportStages,
             Continue(k, stage, path) \/ ContinueAt(k, stage, path)
      PROVE  ReviewInv'
  <2> PICK c : \/ c = [call[k] EXCEPT !.at = stage, !.path = path]
                  /\ Continue(k, stage, path)
               \/ c = [call[k] EXCEPT !.at = stage, !.path = path, !.moment = current]
                  /\ ContinueAt(k, stage, path)
    BY <1>2
  <2>1. call[k] \in Reports
    BY <1>2 DEF ImpactInv, KnownCall
  <2>2. c.at = stage
    BY <2>1 DEF Reports
  <2>3. Ready(c)
    BY <2>2 DEF Ready, ReportStages
  <2>4. call' = [call EXCEPT ![k] = c] /\ UNCHANGED << current, tables >>
    BY DEF Continue, ContinueAt, Goto
  <2> QED BY <2>3, <2>4, ReadsKeepStory
<1>3. ASSUME NEW r \in RelationshipIds, BeginDependency(k, r)
      PROVE  ReviewInv'
  BY <1>1, <1>3 DEF BeginDependency
<1>4. ASSUME NEW r \in RelationshipIds, NEW provider, BeginImpact(k, r, provider)
      PROVE  ReviewInv'
  BY <1>1, <1>4 DEF BeginImpact
<1>5. ASSUME NEW a, BeginPath(k, a) PROVE ReviewInv'
  BY <1>1, <1>5 DEF BeginPath
<1>6. CASE SelectConsumer(k) \/ ReadBindingSource(k) \/ ReadBindingTarget(k)
  BY <1>2, <1>6 DEF SelectConsumer, ReadBindingSource, ReadBindingTarget, Reading, ReportStages
<1>7. CASE SelectAssessment(k)
  <2>1. call[k].at \in ReportStages
    BY <1>7 DEF SelectAssessment, Reading, ReportStages
  <2>2. \E stage \in {"providerView", "judge"} : \E path : Continue(k, stage, path)
    BY <1>7 DEF SelectAssessment
  <2> QED BY <1>2, <2>1, <2>2 DEF ReportStages
<1>8. CASE JudgeProvider(k) \/ JudgeConsumer(k) \/ ViewProvider(k)
  BY <1>2, <1>8 DEF JudgeProvider, JudgeConsumer, ViewProvider, Reading, ReportStages
<1>9. CASE ViewConsumer(k)
  BY <1>9, IdleIsReady, ReadsKeepStory DEF ViewConsumer, Goto
<1> QED BY <1>3, <1>4, <1>5, <1>6, <1>7, <1>8, <1>9 DEF ReportPath

LEMMA AssessmentsKeepStory ==
  ASSUME ImpactInv, ReviewInv, NEW k \in Callers, Assess(k)
  PROVE  ReviewInv'
<1>1. ASSUME NEW r \in RelationshipIds, NEW provider \in 1 .. current[Provider(r)],
             ReadConsumer(k, r, provider)
      PROVE  ReviewInv'
  <2> PICK c : c = [at |-> "assess", of |-> r, provider |-> provider,
                    consumer |-> current[Consumer(r)]]
    OBVIOUS
  <2>1. /\ current[Provider(r)] \in Nat /\ current[Consumer(r)] \in Nat
        /\ relationships[r].source.revision <= current[Consumer(r)]
    BY EndsAreEndpoints DEF ImpactInv, Tables, BindsKnown, HasBeen
  <2>2. relationships[r] \in Relationship
    BY ElementOfSeq DEF ReviewInv, Shapes, RelationshipIds
  <2>3. provider \in Nat \ {0} /\ current[Consumer(r)] \in Nat \ {0}
    BY <2>1, <2>2 DEF Relationship, Binding
  <2>4. Ready(c)
    BY <2>3 DEF Ready
  <2> QED BY <1>1, <2>4, ReadsKeepStory DEF ReadConsumer, Goto
<1>2. CASE CreateAssessment(k)
  <2>1. /\ call' = [call EXCEPT ![k] = Idle]
        /\ UNCHANGED << proposals, decisions, relationships >> /\ audits \subseteq audits'
    BY <1>2 DEF CreateAssessment, Goto
  <2>2. \A j \in Callers : Ready(call[j])'
    BY <2>1, IdleIsReady, ReadyStays DEF ReviewInv
  <2>3. assessments' \in Seq(Assessment)
    <3>1. CASE assessments' = assessments
      BY <3>1 DEF ReviewInv, Shapes
    <3>2. CASE assessments' # assessments
      <4> PICK j : j = [of |-> call[k].of, provider |-> call[k].provider,
                        consumer |-> call[k].consumer]
        OBVIOUS
      <4>1. assessments' = Append(assessments, j)
        BY <1>2, <3>2 DEF CreateAssessment
      <4>2. call[k].of \in RelationshipIds
        BY <1>2 DEF CreateAssessment, ImpactInv, KnownCall
      <4>3. call[k].provider \in Nat \ {0} /\ call[k].consumer \in Nat \ {0}
        BY <1>2 DEF CreateAssessment, ReviewInv, Ready
      <4>4. j \in Assessment
        BY <4>2, <4>3 DEF Assessment, RelationshipIds
      <4> QED BY <4>1, <4>4, OneMore DEF ReviewInv, Shapes
    <3> QED BY <3>1, <3>2
  <2> QED BY <2>1, <2>2, <2>3, StoryStays
<1> QED BY <1>1, <1>2 DEF Assess

LEMMA RelationsKeepStory ==
  ASSUME ImpactInv, ReviewInv, NEW k \in Callers, Relate(k)
  PROVE  ReviewInv'
<1>0. KnownCall(call[k]) /\ Ready(call[k]) /\ current \in [Endpoints -> Nat]
  BY DEF ImpactInv, ReviewInv, Tables
<1>1. ASSUME NEW source \in Endpoints, NEW target \in Endpoints, ReadSource(k, source, target)
      PROVE  ReviewInv'
  <2> PICK c : c = [at |-> "target", source |-> [end |-> source, revision |-> current[source]],
                    target |-> target]
    OBVIOUS
  <2>1. Ready(c)
    BY DEF Ready
  <2> QED BY <1>1, <2>1, ReadsKeepStory DEF ReadSource, Goto
<1>2. CASE ReadTarget(k)
  <2>1. call[k] \in [at : {"target"}, source : Bind, target : Endpoints]
    BY <1>0, <1>2 DEF ReadTarget, KnownCall, Writes, Reports, ReportStages, Idle
  <2> PICK c : c = IF BothKnown(call[k].source.revision, current[call[k].target])
                   THEN [at |-> "submit", source |-> call[k].source,
                         target |-> [end |-> call[k].target, revision |-> current[call[k].target]]]
                   ELSE Idle
    OBVIOUS
  <2>2. Ready(c)
    <3>1. CASE BothKnown(call[k].source.revision, current[call[k].target])
      <4>1. call[k].source \in Binding
        BY <2>1, <3>1 DEF BothKnown, Bind, Binding
      <4>2. [end |-> call[k].target, revision |-> current[call[k].target]] \in Binding
        BY <1>0, <2>1, <3>1 DEF BothKnown, Binding
      <4> QED BY <3>1, <4>1, <4>2 DEF Ready
    <3> QED BY <3>1, IdleIsReady
  <2> QED BY <1>2, <2>2, ReadsKeepStory DEF ReadTarget, Goto
<1>3. CASE SubmitRelationship(k)
  <2>1. /\ call' = [call EXCEPT ![k] = Idle]
        /\ UNCHANGED << decisions, relationships, assessments >> /\ audits \subseteq audits'
    BY <1>3 DEF SubmitRelationship, Goto
  <2>2. \A j \in Callers : Ready(call[j])'
    BY <2>1, IdleIsReady, ReadyStays DEF ReviewInv
  <2>3. CASE proposals' = proposals
    BY <2>1, <2>2, <2>3, StoryStays DEF ReviewInv, Shapes
  <2>4. CASE proposals' # proposals
    <3> PICK row : row = [source |-> call[k].source, target |-> call[k].target,
                          status |-> "Submitted"]
      OBVIOUS
    <3> PICK new : new = Len(proposals) + 1
      OBVIOUS
    <3>1. /\ proposals' = Append(proposals, row)
          /\ audits' = audits \union EndpointAudits("Proposed", new, row.source, row.target)
      BY <1>3, <2>4 DEF SubmitRelationship
    <3>2. row \in Proposal
      BY <1>0, <1>3 DEF SubmitRelationship, Ready, Proposal
    <3>3. /\ proposals' \in Seq(Proposal) /\ Len(proposals) \in Nat /\ Len(proposals') = new
          /\ \A id \in ProposalIds : proposals'[id] = proposals[id]
          /\ proposals'[new] = row
      BY <3>1, <3>2, OneMore DEF ReviewInv, Shapes, ProposalIds
    <3>4. ProposalIds' = ProposalIds \union {new} /\ new \notin ProposalIds
      BY <3>3 DEF ProposalIds
    <3>5. ASSUME NEW id \in ProposalIds PROVE Decisive(id)'
      <4>1. Decisive(id) /\ proposals'[id] = proposals[id]
        BY <3>3 DEF ReviewInv
      <4> QED BY <2>1, <4>1 DEF Decisive, DecisionsOn, Told, RelationshipIds
    <3>6. Decisive(new)'
      <4>1. DecisionsOn(new)' = {}
        BY <2>1, <3>4 DEF DecisionsOn, ReviewInv
      <4>2. Told(new, "Proposed")'
        BY <3>1, <3>3 DEF Told, EndpointAudits
      <4>3. row.status = "Submitted"
        OBVIOUS
      <4> QED BY <3>3, <4>1, <4>2, <4>3 DEF Decisive
    <3>7. ASSUME NEW r \in RelationshipIds PROVE Made(r)'
      <4>1. Made(r)
        BY DEF ReviewInv
      <4> QED BY <2>1, <3>3, <3>4, <4>1 DEF Made, LinkOf
    <3>8. Shapes' /\ \A d \in decisions' : d.proposal \in ProposalIds'
      BY <2>1, <3>3, <3>4 DEF ReviewInv, Shapes
    <3>9. RelationshipIds' = RelationshipIds /\ relationships' = relationships
      BY <2>1 DEF RelationshipIds
    <3> QED BY <2>2, <3>4, <3>5, <3>6, <3>7, <3>8, <3>9 DEF ReviewInv
  <2> QED BY <2>3, <2>4
<1> QED BY <1>1, <1>2, <1>3 DEF Relate

LEMMA ReviewsKeepStory ==
  ASSUME ImpactInv, ReviewInv, NEW id \in ProposalIds, NEW d \in {"Accepted", "Rejected"},
         ReviewRelationship(id, d)
  PROVE  ReviewInv'
<1> PICK p, q : p = proposals[id] /\ q = [p EXCEPT !.status = d]
  OBVIOUS
<1>1. /\ p.status = "Submitted" /\ proposals' = [proposals EXCEPT ![id] = q]
      /\ decisions' = decisions \union {[proposal |-> id, decision |-> d]}
      /\ audits' = audits \union EndpointAudits(d, id, p.source, p.target)
      /\ UNCHANGED << current, assessments, call >>
  BY DEF ReviewRelationship, Decided
<1>2. p \in Proposal /\ proposals \in Seq(Proposal) /\ id \in 1 .. Len(proposals)
  BY ElementOfSeq DEF ReviewInv, Shapes, ProposalIds
<1>3. q \in Proposal /\ q.source = p.source /\ q.target = p.target /\ q.status = d
  BY <1>2 DEF Proposal
<1>4. /\ proposals' \in Seq(Proposal) /\ Len(proposals') = Len(proposals) /\ proposals'[id] = q
      /\ \A i \in ProposalIds \ {id} : proposals'[i] = proposals[i]
  BY <1>1, <1>2, <1>3, ExceptSeq DEF ProposalIds
<1>5. ProposalIds' = ProposalIds
  BY <1>4 DEF ProposalIds
<1> PICK link, new : link = LinkOf(id) /\ new = Len(relationships) + 1
  OBVIOUS
<1>6. link \in Relationship /\ link.proposal = id
  BY <1>2 DEF LinkOf, Relationship, Proposal
<1>7. /\ relationships' \in Seq(Relationship)
      /\ \A r \in RelationshipIds : r \in RelationshipIds' /\ relationships'[r] = relationships[r]
      /\ \A r \in RelationshipIds' \ RelationshipIds :
           d = "Accepted" /\ r = new /\ relationships'[r] = link
      /\ d = "Accepted" => new \in RelationshipIds' /\ relationships'[new] = link
  <2>1. CASE d = "Rejected"
    <3>1. relationships' = relationships
      BY <2>1 DEF ReviewRelationship
    <3> QED BY <2>1, <3>1 DEF ReviewInv, Shapes, RelationshipIds
  <2>2. CASE d = "Accepted"
    <3>1. relationships' = Append(relationships, link)
      BY <2>2 DEF ReviewRelationship, LinkOf
    <3>2. /\ relationships' \in Seq(Relationship) /\ Len(relationships') = new
          /\ Len(relationships) \in Nat /\ relationships'[new] = link
          /\ \A r \in 1 .. Len(relationships) : relationships'[r] = relationships[r]
      BY <1>6, <3>1, OneMore DEF ReviewInv, Shapes
    <3> QED BY <2>2, <3>2 DEF RelationshipIds
  <2> QED BY <2>1, <2>2
<1>8. \A r \in RelationshipIds : relationships[r].proposal # id
  BY <1>1 DEF ReviewInv, Made
<1>9. ASSUME NEW i \in ProposalIds, i # id PROVE Decisive(i)'
  <2>1. Decisive(i) /\ proposals'[i] = proposals[i]
    BY <1>4, <1>9 DEF ReviewInv
  <2>2. DecisionsOn(i)' = DecisionsOn(i)
    BY <1>1, <1>9 DEF DecisionsOn
  <2>3. \A e : Told(i, e) => Told(i, e)'
    BY <1>1, <2>1 DEF Told
  <2>4. proposals[i].status = "Accepted" => \E r \in RelationshipIds' : relationships'[r].proposal = i
    BY <1>7, <2>1 DEF Decisive
  <2> QED BY <2>1, <2>2, <2>3, <2>4 DEF Decisive
<1>10. Decisive(id)'
  <2>1. Decisive(id) /\ p.status = "Submitted"
    BY <1>1 DEF ReviewInv
  <2>2. DecisionsOn(id)' = {d}
    <3>1. DecisionsOn(id) = {}
      BY <2>1 DEF Decisive
    <3> PICK x : x = [proposal |-> id, decision |-> d]
      OBVIOUS
    <3>2. decisions' = decisions \union {x} /\ x.proposal = id /\ x.decision = d
      BY <1>1
    <3> QED BY <3>1, <3>2 DEF DecisionsOn
  <2>3. Told(id, "Proposed")' /\ Told(id, d)'
    BY <1>1, <1>3, <1>4, <2>1 DEF Decisive, Told, EndpointAudits
  <2>4. d = "Accepted" => \E r \in RelationshipIds' : relationships'[r].proposal = id
    BY <1>6, <1>7
  <2> QED BY <1>3, <1>4, <2>2, <2>3, <2>4 DEF Decisive
<1>11. ASSUME NEW r \in RelationshipIds' PROVE Made(r)'
  <2>1. CASE r \in RelationshipIds
    <3>1. Made(r) /\ relationships'[r] = relationships[r] /\ relationships[r].proposal # id
      BY <1>7, <1>8, <2>1 DEF ReviewInv
    <3> QED BY <1>4, <1>5, <3>1 DEF Made, LinkOf
  <2>2. CASE r \notin RelationshipIds
    <3>1. relationships'[r] = link /\ d = "Accepted"
      BY <1>7, <2>2
    <3>2. LinkOf(id)' = link
      BY <1>3, <1>4 DEF LinkOf
    <3> QED BY <1>3, <1>4, <1>5, <1>6, <3>1, <3>2 DEF Made
  <2> QED BY <2>1, <2>2
<1>12. ASSUME NEW r \in RelationshipIds', NEW s \in RelationshipIds',
              relationships'[r].proposal = relationships'[s].proposal
       PROVE  r = s
  BY <1>6, <1>7, <1>8, <1>12 DEF ReviewInv
<1>13. Shapes' /\ \A x \in decisions' : x.proposal \in ProposalIds'
  BY <1>1, <1>4, <1>5, <1>7 DEF ReviewInv, Shapes
<1>14. \A k \in Callers : Ready(call[k])'
  BY <1>1 DEF ReviewInv, Ready, Binding
<1> QED BY <1>5, <1>9, <1>10, <1>11, <1>12, <1>13, <1>14 DEF ReviewInv

(* However two processes interleave, a Proposal is decided once, an         *)
(* accepted one is one relationship that says what was proposed, and both   *)
(* projects hear of every step (cross-project.ts over impact.ts).           *)
THEOREM ReviewsTellOneStory == Spec => []RelationshipsAreReviewed
<1>1. Init => ReviewInv
  <2> SUFFICES ASSUME Init PROVE ReviewInv
    OBVIOUS
  <2>1. Shapes /\ ProposalIds = {} /\ RelationshipIds = {}
    BY EmptySeq DEF Init, Shapes, ProposalIds, RelationshipIds
  <2> QED BY <2>1, IdleIsReady DEF Init, ReviewInv
<1>2. ImpactInv /\ ReviewInv /\ [Next]_vars => ReviewInv'
  <2> SUFFICES ASSUME ImpactInv, ReviewInv, [Next]_vars PROVE ReviewInv'
    OBVIOUS
  <2>1. ASSUME UNCHANGED << tables, call >> PROVE ReviewInv'
    <3>1. \A k \in Callers : Ready(call[k])'
      BY <2>1 DEF ReviewInv, Ready, Binding
    <3> QED BY <2>1, <3>1, StoryStays DEF tables, ReviewInv, Shapes
  <2>2. CASE UNCHANGED vars
    BY <2>1, <2>2 DEF vars, tables
  <2>3. CASE \E e \in Endpoints : NewRevision(e)
    BY <2>1, <2>3 DEF NewRevision
  <2> QED BY <2>2, <2>3, ReviewsKeepStory, RelationsKeepStory, AssessmentsKeepStory,
          ReportsKeepStory DEF Next, ProposalIds
<1>3. ImpactInv /\ ReviewInv => RelationshipsAreReviewed
  <2> SUFFICES ASSUME ImpactInv, ReviewInv PROVE RelationshipsAreReviewed
    OBVIOUS
  <2>1. TypeOK
    <3>1. ASSUME NEW r \in RelationshipIds
          PROVE  \A b \in {relationships[r].source, relationships[r].target} :
                   b.revision <= current[b.end]
      BY DEF ImpactInv, Tables, BindsKnown, HasBeen, Provider, Consumer
    <3> QED BY <3>1 DEF TypeOK, ImpactInv, Tables, ReviewInv, Shapes
  <2>2. ASSUME NEW id \in ProposalIds
        PROVE  LET made == {r \in RelationshipIds : relationships[r].proposal = id}
               IN  /\ Cardinality(made) = IF proposals[id].status = "Accepted" THEN 1 ELSE 0
                   /\ \A r \in made : relationships[r] = LinkOf(id)
    <3> PICK made : made = {r \in RelationshipIds : relationships[r].proposal = id}
      OBVIOUS
    <3>1. \A r \in made : relationships[r] = LinkOf(id) /\ proposals[id].status = "Accepted"
      BY DEF ReviewInv, Made
    <3>2. CASE proposals[id].status = "Accepted"
      <4>1. PICK r \in RelationshipIds : relationships[r].proposal = id
        BY <3>2 DEF ReviewInv, Decisive
      <4>2. made = {r}
        BY <4>1 DEF ReviewInv
      <4> QED BY <3>1, <3>2, <4>2, FS_Singleton
    <3>3. CASE proposals[id].status # "Accepted"
      <4>1. made = {}
        BY <3>1, <3>3
      <4> QED BY <3>1, <3>3, <4>1, FS_EmptySet
    <3> QED BY <3>2, <3>3
  <2>3. ASSUME NEW id \in ProposalIds,
               NEW e \in {"Proposed"} \union ({proposals[id].status} \ {"Submitted"}),
               NEW b \in {proposals[id].source, proposals[id].target}
        PROVE  [project |-> ProjectOf(b.end), event |-> e, id |-> id] \in audits
    BY DEF ReviewInv, Decisive, Told
  <2>4. \A id \in ProposalIds : DecisionsOn(id) = {proposals[id].status} \ {"Submitted"}
    BY DEF ReviewInv, Decisive
  <2> QED BY <2>1, <2>2, <2>3, <2>4
          DEF RelationshipsAreReviewed, ProposalIds, DecisionsOn, LinkOf
<1> QED BY <1>1, <1>2, <1>3, ImpactInvHolds, PTL DEF Spec
=============================================================================
