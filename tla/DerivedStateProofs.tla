-------------------------- MODULE DerivedStateProofs --------------------------
(***************************************************************************)
(* Theorems about what is derived from the database and never kept in it:  *)
(* the maps of the navigation projection, built in pieces while others     *)
(* write, and the stage of the guided demo, which two processes derive     *)
(* from the database and from the files beside it.                         *)
(***************************************************************************)
EXTENDS NavigationProjection, DemoGuide, FiniteSetTheorems, SequenceTheorems, TLAPS

(* The navigation projection.                                               *)

-----------------------------------------------------------------------------
(* The database only grows, every commit shows in one of its counters, and  *)
(* a plan of the same revision is the same plan.                            *)

DB(d) ==
  /\ d \in Canon
  /\ {n \in Nodes : d.revision[n] > 0} \subseteq d.nodes
  /\ \A q \in Plans : d.plans[q].related => d.plans[q].revision > 0

Older(a, b) ==
  /\ a.nodes \subseteq b.nodes
  /\ Elsewhere(a) \subseteq Elsewhere(b)
  /\ \A n \in Nodes : a.revision[n] <= b.revision[n]
  /\ \A q \in Plans : /\ a.plans[q].revision <= b.plans[q].revision
                      /\ a.plans[q].revision = b.plans[q].revision => a.plans[q] = b.plans[q]
  /\ a.other <= b.other
  /\ a.audits <= b.audits
  /\ a.judged \subseteq b.judged

Moved(a, b) ==
  \/ a.other < b.other \/ a.audits < b.audits
  \/ \E q \in Plans : a.plans[q].revision < b.plans[q].revision

(* The plans that were related at one moment and are unchanged at another.  *)
Kept(s, c) == {q \in Plans : s.plans[q].related /\ c.plans[q] = s.plans[q]}

(* Those of the plans on a map that are related as the map shows them, and  *)
(* those that were ever related.                                            *)
Still(m, c) ==
  {q \in DOMAIN m.plans : c.plans[q].related /\ c.plans[q].revision = m.plans[q]}
Ever(c) == {q \in Plans : c.plans[q].revision > 0}

-----------------------------------------------------------------------------
(* A map of which the first k statements were read.                         *)

(* What was read is bounded by the database as it is now; where one thing   *)
(* was read after another, it is the newer of the two.  The count includes  *)
(* every plan that is related as the map shows it, and none that never was. *)
ReadUpTo(m, k, c) ==
  /\ m = [name \in Names |-> m[name]]
  /\ k >= 1 => m.nodes \subseteq c.nodes
  /\ k >= 2 => m.revision \in [Nodes -> Nat] /\ Orphans(m) \subseteq Elsewhere(c)
  /\ k >= 3 => m.audits \in Nat /\ m.audits <= c.audits
  /\ k >= 4 => /\ DOMAIN m.plans \subseteq Plans
               /\ \A q \in DOMAIN m.plans :
                    m.plans[q] \in Nat /\ m.plans[q] <= c.plans[q].revision
  /\ k >= 5 => m.ends \in Nat \X Nat
  /\ k >= 7 => /\ m.count \in Nat
               /\ Cardinality(Still(m, c)) <= m.count
               /\ m.count <= Cardinality(Ever(c))
  /\ k >= 8 => m.last \in Nat /\ m.audits <= m.last /\ m.last <= c.audits

(* What was read is at least what there was when the map was asked for.     *)
AtLeast(m, k, s, c) ==
  /\ k >= 1 => s.nodes \subseteq m.nodes
  /\ k >= 2 => \A n \in Nodes : m.revision[n] >= s.revision[n]
  /\ k >= 3 => m.audits >= s.audits
  /\ k >= 4 => Kept(s, c) \subseteq Still(m, c)
  /\ k >= 5 => m.ends[1] >= s.revision[Local] /\ m.ends[2] >= s.other
  /\ k >= 6 => (m.ends = Ends(s) => Judged(s, Ends(s)) \subseteq m.judged)

(* What was read is what there is, if nothing has changed since.            *)
Exact(m, k, s, c) == s = c => \A i \in 1 .. k : m[Statements[i]] = MapOf(c)[Statements[i]]

(* Only a map that is to be shown was asked for at some moment.             *)
BuildOK(j, c) ==
  /\ j.at = "build"
  /\ j = [at |-> "build", why |-> j.why, done |-> j.done, map |-> j.map, since |-> j.since]
  /\ j.why \in {"rebuild", "read"} /\ j.done \in 0 .. 8
  /\ ReadUpTo(j.map, j.done, c)
  /\ j.why = "read" => /\ DB(j.since) /\ Older(j.since, c)
                       /\ AtLeast(j.map, j.done, j.since, c)
                       /\ Exact(j.map, j.done, j.since, c)

(* What the properties say of a map that is shown.                          *)
ShownOK(j, c) ==
  LET m == j.map  s == j.since IN
  /\ j.at = "shown"
  /\ j = [at |-> "shown", map |-> m, since |-> s, activity |-> j.activity]
  /\ DB(s) /\ Older(s, c)
  /\ Orphans(m) \subseteq Elsewhere(c)
  /\ s.nodes \subseteq m.nodes
  /\ \A n \in s.nodes : m.revision[n] >= s.revision[n]
  /\ m.ends[1] >= s.revision[Local] /\ m.ends[2] >= s.other
  /\ m.last >= s.audits
  /\ m.count \in Nat /\ Cardinality(Kept(s, c)) <= m.count
  /\ j.activity = "Fresh" /\ m.ends = Ends(s) => Judged(s, Ends(s)) \subseteq m.judged
  /\ s = c =>
       /\ [m EXCEPT !.audits = c.audits, !.judged = Judged(c, Ends(c)),
                     !.count = Cardinality(DOMAIN Related(c.plans))] = MapOf(c)
       /\ m.count \in Cardinality(DOMAIN Related(c.plans)) .. Cardinality(Ever(c))
       /\ j.activity = "Fresh" => [MapOf(c) EXCEPT !.count = m.count] = m

JobOK(j, c) == j = Idle \/ BuildOK(j, c) \/ ShownOK(j, c)

GenerationOK ==
  active = NoGeneration \/ (active = [persisted |-> TRUE, map |-> active.map] /\ ReadUpTo(active.map, 8, canon))

NavInv ==
  /\ DB(canon)
  /\ GenerationOK
  /\ failure \in BOOLEAN
  /\ process = [p \in Processes |-> process[p]]
  /\ \A p \in Processes : JobOK(process[p], canon)

-----------------------------------------------------------------------------
(* Commits.                                                                *)

LEMMA DatabaseFields ==
  ASSUME NEW d, DB(d)
  PROVE  /\ d.nodes \in SUBSET Nodes /\ d.revision \in [Nodes -> Nat]
         /\ d.plans \in [Plans -> Plan] /\ d.other \in Nat /\ d.audits \in Nat
         /\ d.judged \in SUBSET ((Nat \X Nat) \X Nat)
         /\ \A n \in Nodes : d.revision[n] \in Nat
         /\ \A q \in Plans : d.plans[q] \in Plan /\ d.plans[q].revision \in Nat
         /\ d = [nodes |-> d.nodes, revision |-> d.revision, plans |-> d.plans,
                 other |-> d.other, judged |-> d.judged, audits |-> d.audits]
BY DEF DB, Canon, Plan

LEMMA CommitGrows ==
  ASSUME NEW d, DB(d), NEW c \in Commits(d)
  PROVE  DB(c) /\ Older(d, c) /\ Moved(d, c)
<1>t. /\ d.nodes \in SUBSET Nodes /\ d.revision \in [Nodes -> Nat] /\ d.plans \in [Plans -> Plan]
      /\ d.other \in Nat /\ d.judged \in SUBSET ((Nat \X Nat) \X Nat) /\ d.audits \in Nat
      /\ \A n \in Nodes : d.revision[n] \in Nat
      /\ \A q \in Plans : d.plans[q] \in Plan /\ d.plans[q].revision \in Nat
      /\ d = [nodes |-> d.nodes, revision |-> d.revision, plans |-> d.plans,
              other |-> d.other, judged |-> d.judged, audits |-> d.audits]
  BY DatabaseFields
<1>d. /\ {n \in Nodes : d.revision[n] > 0} \subseteq d.nodes
      /\ \A q \in Plans : d.plans[q].related => d.plans[q].revision > 0
  BY DEF DB
<1>1. ASSUME NEW n \in Nodes \ d.nodes, c = AcceptInitial(n, d)
      PROVE  DB(c) /\ Older(d, c) /\ Moved(d, c)
  <2>1. c = [nodes |-> d.nodes \union {n}, revision |-> [d.revision EXCEPT ![n] = 1],
             plans |-> d.plans, other |-> d.other, judged |-> d.judged, audits |-> d.audits + 1]
    BY <1>1, <1>t DEF AcceptInitial
  <2>2. \A x \in Nodes : c.revision[x] = IF x = n THEN 1 ELSE d.revision[x]
    BY <2>1, <1>t
  <2>3. d.revision[n] = 0
    BY <1>1, <1>t, <1>d
  <2>4. {x \in Nodes : c.revision[x] > 0} \subseteq c.nodes /\ Elsewhere(d) \subseteq Elsewhere(c)
    BY <1>1, <2>1, <2>2, <1>t, <1>d DEF Elsewhere
  <2>5. c \in Canon
    BY <2>1, <1>t DEF Canon
  <2>6. DB(c)
    BY <2>1, <2>4, <2>5, <1>d DEF DB
  <2>7. /\ c.nodes = d.nodes \union {n} /\ c.plans = d.plans /\ c.other = d.other
        /\ c.judged = d.judged /\ c.audits = d.audits + 1
    BY <2>1
  <2>8. \A x \in Nodes : d.revision[x] <= c.revision[x]
    BY <2>2, <2>3, <1>t
  <2>9. d.other <= c.other /\ d.audits < c.audits /\ d.audits <= c.audits
    BY <2>7, <1>t
  <2>10. \A q \in Plans : d.plans[q].revision <= c.plans[q].revision /\ d.plans[q] = c.plans[q]
    BY <2>7, <1>t
  <2> QED BY <2>4, <2>6, <2>7, <2>8, <2>9, <2>10 DEF Older, Moved
<1>2. ASSUME NEW n \in Nodes \ d.nodes, c = AcceptElsewhere(n, d)
      PROVE  DB(c) /\ Older(d, c) /\ Moved(d, c)
  <2>1. c = [nodes |-> d.nodes \union {n}, revision |-> d.revision,
             plans |-> d.plans, other |-> d.other, judged |-> d.judged, audits |-> d.audits + 1]
    BY <1>2, <1>t DEF AcceptElsewhere
  <2>4. {x \in Nodes : c.revision[x] > 0} \subseteq c.nodes /\ Elsewhere(d) \subseteq Elsewhere(c)
    BY <1>2, <2>1, <1>t, <1>d DEF Elsewhere
  <2>5. c \in Canon
    BY <1>2, <2>1, <1>t DEF Canon
  <2>6. DB(c)
    BY <2>1, <2>4, <2>5, <1>d DEF DB
  <2>7. /\ c.revision = d.revision /\ c.nodes = d.nodes \union {n} /\ c.plans = d.plans /\ c.other = d.other
        /\ c.judged = d.judged /\ c.audits = d.audits + 1
    BY <2>1
  <2>8. \A x \in Nodes : d.revision[x] <= c.revision[x]
    BY <2>7, <1>t
  <2>9. d.other <= c.other /\ d.audits < c.audits /\ d.audits <= c.audits
    BY <2>7, <1>t
  <2>10. \A q \in Plans : d.plans[q].revision <= c.plans[q].revision /\ d.plans[q] = c.plans[q]
    BY <2>7, <1>t
  <2> QED BY <2>4, <2>6, <2>7, <2>8, <2>9, <2>10 DEF Older, Moved
<1>3. ASSUME NEW n \in {x \in d.nodes : d.revision[x] > 0}, c = AcceptSuccessor(n, d)
      PROVE  DB(c) /\ Older(d, c) /\ Moved(d, c)
  <2>1. c = [nodes |-> d.nodes, revision |-> [d.revision EXCEPT ![n] = @ + 1],
             plans |-> d.plans, other |-> d.other, judged |-> d.judged, audits |-> d.audits + 1]
    BY <1>3, <1>t DEF AcceptSuccessor
  <2>2. \A x \in Nodes : c.revision[x] = IF x = n THEN d.revision[x] + 1 ELSE d.revision[x]
    BY <2>1, <1>t
  <2>4. {x \in Nodes : c.revision[x] > 0} \subseteq c.nodes /\ Elsewhere(d) \subseteq Elsewhere(c)
    BY <1>3, <2>1, <2>2, <1>t, <1>d DEF Elsewhere
  <2>5. c \in Canon
    BY <1>3, <2>1, <1>t DEF Canon
  <2>6. DB(c)
    BY <2>1, <2>4, <2>5, <1>d DEF DB
  <2>7. Older(d, c) /\ Moved(d, c)
    BY <2>1, <2>2, <2>4, <1>t DEF Older, Moved
  <2> QED BY <2>6, <2>7
<1>4. CASE c = MoveOther(d)
  <2>1. c = [nodes |-> d.nodes, revision |-> d.revision, plans |-> d.plans,
             other |-> d.other + 1, judged |-> d.judged, audits |-> d.audits]
    BY <1>4, <1>t DEF MoveOther
  <2>2. c \in Canon /\ Elsewhere(d) = Elsewhere(c)
    BY <2>1, <1>t DEF Canon, Elsewhere
  <2>3. DB(c)
    BY <2>1, <2>2, <1>d DEF DB
  <2> QED BY <2>1, <2>2, <2>3, <1>t DEF Older, Moved
<1>5. ASSUME NEW ends \in Assessable(d), c = AssessPair(ends, d)
      PROVE  DB(c) /\ Older(d, c) /\ Moved(d, c)
  <2>0. << ends, d.audits >> \in (Nat \X Nat) \X Nat
    BY <1>5, <1>t, NavigationConstants DEF Assessable
  <2>1. c = [nodes |-> d.nodes, revision |-> d.revision, plans |-> d.plans, other |-> d.other,
             judged |-> d.judged \union {<< ends, d.audits >>}, audits |-> d.audits + 1]
    BY <1>5, <1>t DEF AssessPair
  <2>2. c \in Canon /\ Elsewhere(d) = Elsewhere(c)
    BY <2>0, <2>1, <1>t DEF Canon, Elsewhere
  <2>3. DB(c)
    BY <2>1, <2>2, <1>d DEF DB
  <2> QED BY <2>1, <2>2, <2>3, <1>t DEF Older, Moved
<1>6. ASSUME NEW q \in Plans, NEW related \in BOOLEAN, c = RevisePlan(q, related, d)
      PROVE  DB(c) /\ Older(d, c) /\ Moved(d, c)
  <2>0. PICK plan : plan = [related |-> related, revision |-> d.plans[q].revision + 1]
    OBVIOUS
  <2>p. plan \in Plan /\ plan.revision = d.plans[q].revision + 1
    BY <2>0, <1>t DEF Plan
  <2>1. c = [nodes |-> d.nodes, revision |-> d.revision, plans |-> [d.plans EXCEPT ![q] = plan],
             other |-> d.other, judged |-> d.judged, audits |-> d.audits]
    BY <1>6, <2>0, <1>t DEF RevisePlan
  <2>2. \A x \in Plans : c.plans[x] = IF x = q THEN plan ELSE d.plans[x]
    BY <2>1, <1>t
  <2>3. c \in Canon /\ Elsewhere(d) = Elsewhere(c)
    BY <2>1, <2>p, <1>t DEF Canon, Elsewhere
  <2>4. \A x \in Plans : /\ d.plans[x].revision <= c.plans[x].revision
                         /\ d.plans[x].revision = c.plans[x].revision => d.plans[x] = c.plans[x]
                         /\ c.plans[x].related => c.plans[x].revision > 0
    BY <2>2, <2>p, <1>t, <1>d
  <2>5. d.plans[q].revision < c.plans[q].revision
    BY <2>2, <2>p, <1>t
  <2>6. DB(c)
    BY <2>1, <2>3, <2>4, <1>d DEF DB
  <2> QED BY <2>1, <2>3, <2>4, <2>5, <2>6, <1>t DEF Older, Moved
<1> QED BY <1>1, <1>2, <1>3, <1>4, <1>5, <1>6 DEF Commits

LEMMA OlderIsReflexive ==
  ASSUME NEW a, DB(a)
  PROVE  Older(a, a)
BY DatabaseFields DEF Older

LEMMA OlderIsTransitive ==
  ASSUME NEW a, NEW b, NEW c, DB(a), DB(b), DB(c), Older(a, b), Older(b, c)
  PROVE  Older(a, c)
<1>1. /\ a.other \in Nat /\ b.other \in Nat /\ c.other \in Nat
      /\ a.audits \in Nat /\ b.audits \in Nat /\ c.audits \in Nat
  BY DatabaseFields
<1>2. \A n \in Nodes : a.revision[n] \in Nat /\ b.revision[n] \in Nat /\ c.revision[n] \in Nat
  BY DatabaseFields
<1>3. \A q \in Plans : /\ a.plans[q].revision \in Nat /\ b.plans[q].revision \in Nat
                       /\ c.plans[q].revision \in Nat
  BY DatabaseFields
<1>4. \A q \in Plans : /\ a.plans[q].revision <= c.plans[q].revision
                       /\ a.plans[q].revision = c.plans[q].revision => a.plans[q] = c.plans[q]
  BY <1>3 DEF Older
<1> QED BY <1>1, <1>2, <1>4 DEF Older

LEMMA CommitMoves ==
  ASSUME NEW s, NEW a, NEW b, DB(s), DB(a), DB(b), Older(s, a), Older(a, b), Moved(a, b)
  PROVE  Older(s, b) /\ s # b
<1>1. Older(s, b)
  BY OlderIsTransitive
<1>2. s.other \in Nat /\ a.other \in Nat /\ s.audits \in Nat /\ a.audits \in Nat
  BY DatabaseFields
<1>3. \A q \in Plans : s.plans[q].revision \in Nat /\ a.plans[q].revision \in Nat
  BY DatabaseFields
<1>4. ASSUME s = b PROVE FALSE
  BY <1>2, <1>3, <1>4 DEF Older, Moved
<1> QED BY <1>1, <1>4

(* A plan that is as it was at an earlier moment was so all the time.       *)
LEMMA KeptAllTheTime ==
  ASSUME NEW s, NEW a, NEW b, DB(s), DB(a), DB(b), Older(s, a), Older(a, b)
  PROVE  \A q \in Kept(s, b) : q \in Kept(s, a) /\ a.plans[q] = b.plans[q]
<1> SUFFICES ASSUME NEW q \in Plans, s.plans[q].related, b.plans[q] = s.plans[q]
             PROVE  a.plans[q] = s.plans[q]
  BY DEF Kept
<1>1. s.plans[q].revision \in Nat /\ a.plans[q].revision \in Nat /\ b.plans[q].revision \in Nat
  BY DatabaseFields
<1>2. s.plans[q].revision <= a.plans[q].revision /\ a.plans[q].revision <= b.plans[q].revision
  BY DEF Older
<1>3. s.plans[q].revision = a.plans[q].revision
  BY <1>1, <1>2
<1> QED BY <1>3 DEF Older

(* Sets of plans are finite, and a part of one has no more members.         *)
LEMMA PlansAreFinite ==
  ASSUME NEW S \in SUBSET Plans, NEW T \in SUBSET S
  PROVE  /\ Cardinality(S) \in Nat /\ Cardinality(T) \in Nat
         /\ Cardinality(T) <= Cardinality(S)
<1>1. IsFiniteSet(S)
  BY FS_Subset, NavigationConstants
<1>2. IsFiniteSet(T) /\ Cardinality(T) <= Cardinality(S)
  BY <1>1, FS_Subset
<1> QED BY <1>1, <1>2, FS_CardinalityType

(* A commit leaves what has been read of a map as good as it was.           *)
LEMMA ReadingSurvives ==
  ASSUME NEW m, NEW k \in 0 .. 8, DB(canon), DB(canon'), Older(canon, canon'),
         ReadUpTo(m, k, canon)
  PROVE  ReadUpTo(m, k, canon')
<1> PICK c, e : c = canon /\ e = canon'
  OBVIOUS
<1>a. DB(c) /\ DB(e) /\ Older(c, e) /\ ReadUpTo(m, k, c)
  OBVIOUS
<1>1. c.audits \in Nat /\ e.audits \in Nat /\ c.audits <= e.audits
  BY <1>a, DatabaseFields DEF Older
<1>2. \A q \in Plans : /\ c.plans[q].revision \in Nat
                       /\ e.plans[q].revision \in Nat
                       /\ c.plans[q].revision <= e.plans[q].revision
                       /\ c.plans[q].revision = e.plans[q].revision => c.plans[q] = e.plans[q]
  BY <1>a, DatabaseFields DEF Older
<1>3. k >= 4 => /\ DOMAIN m.plans \subseteq Plans
                /\ \A q \in DOMAIN m.plans :
                     m.plans[q] \in Nat /\ m.plans[q] <= e.plans[q].revision
  BY <1>a, <1>2 DEF ReadUpTo
<1>4. ASSUME k >= 7
      PROVE  /\ m.count \in Nat
             /\ Cardinality(Still(m, e)) <= m.count
             /\ m.count <= Cardinality(Ever(e))
  <2>1. /\ m.count \in Nat /\ Cardinality(Still(m, c)) <= m.count
        /\ m.count <= Cardinality(Ever(c))
    BY <1>4, <1>a DEF ReadUpTo
  <2>2. Still(m, e) \subseteq Still(m, c)
    <3> SUFFICES ASSUME NEW q \in DOMAIN m.plans, e.plans[q].related,
                        e.plans[q].revision = m.plans[q]
                 PROVE  c.plans[q].related /\ c.plans[q].revision = m.plans[q]
      BY DEF Still
    <3>1. q \in Plans /\ m.plans[q] <= c.plans[q].revision
      BY <1>4, <1>a DEF ReadUpTo
    <3>2. c.plans[q].revision = e.plans[q].revision
      BY <3>1, <1>2
    <3> QED BY <3>1, <3>2, <1>2
  <2>3. Still(m, c) \subseteq Plans
    BY <1>4, <1>3 DEF Still
  <2>4. Ever(c) \subseteq Ever(e) /\ Ever(e) \subseteq Plans
    BY <1>2 DEF Ever
  <2>5. /\ Cardinality(Still(m, e)) \in Nat /\ Cardinality(Still(m, c)) \in Nat
        /\ Cardinality(Still(m, e)) <= Cardinality(Still(m, c))
    BY <2>2, <2>3, PlansAreFinite
  <2>6. /\ Cardinality(Ever(c)) \in Nat /\ Cardinality(Ever(e)) \in Nat
        /\ Cardinality(Ever(c)) <= Cardinality(Ever(e))
    BY <2>4, PlansAreFinite
  <2> QED BY <2>1, <2>5, <2>6
<1>5. /\ m = [name \in Names |-> m[name]]
      /\ k >= 1 => m.nodes \subseteq e.nodes
      /\ k >= 2 => m.revision \in [Nodes -> Nat] /\ Orphans(m) \subseteq Elsewhere(e)
      /\ k >= 5 => m.ends \in Nat \X Nat
  BY <1>a DEF ReadUpTo, Older
<1>6. k >= 3 => m.audits \in Nat /\ m.audits <= e.audits
  BY <1>1, <1>a DEF ReadUpTo
<1>7. k >= 8 => m.last \in Nat /\ m.audits <= m.last /\ m.last <= e.audits
  BY <1>1, <1>a DEF ReadUpTo
<1>8. ReadUpTo(m, k, e)
  BY <1>3, <1>4, <1>5, <1>6, <1>7 DEF ReadUpTo
<1> QED BY <1>8

LEMMA JobsSurvive ==
  ASSUME NEW j, DB(canon), DB(canon'), Older(canon, canon'), Moved(canon, canon')
  PROVE  JobOK(j, canon) => JobOK(j, canon')
<1> PICK c, e : c = canon /\ e = canon'
  OBVIOUS
<1>a. DB(c) /\ DB(e) /\ Older(c, e) /\ Moved(c, e)
  OBVIOUS
<1>1. ASSUME BuildOK(j, c) PROVE BuildOK(j, e)
  <2>r. ReadUpTo(j.map, j.done, e)
    BY <1>1, ReadingSurvives DEF BuildOK
  <2>1. ASSUME j.why = "read"
        PROVE  /\ DB(j.since) /\ Older(j.since, e)
               /\ AtLeast(j.map, j.done, j.since, e)
               /\ Exact(j.map, j.done, j.since, e)
    <3> PICK m, k, s : m = j.map /\ k = j.done /\ s = j.since
      OBVIOUS
    <3>1. DB(s) /\ Older(s, c) /\ AtLeast(m, k, s, c)
      BY <1>1, <2>1 DEF BuildOK
    <3>2. Older(s, e) /\ s # e
      BY <1>a, <3>1, CommitMoves
    <3>3. k >= 4 => Kept(s, e) \subseteq Still(m, e)
      <4> SUFFICES ASSUME k >= 4, NEW q \in Kept(s, e) PROVE q \in Still(m, e)
        OBVIOUS
      <4>1. q \in Kept(s, c) /\ c.plans[q] = e.plans[q]
        BY <1>a, <3>1, KeptAllTheTime
      <4>2. q \in Still(m, c)
        BY <3>1, <4>1 DEF AtLeast
      <4> QED BY <4>1, <4>2 DEF Still
    <3>4. AtLeast(m, k, s, e)
      BY <3>1, <3>3 DEF AtLeast
    <3>5. Exact(m, k, s, e)
      BY <3>2 DEF Exact
    <3> QED BY <3>1, <3>2, <3>4, <3>5
  <2> QED BY <1>1, <2>r, <2>1 DEF BuildOK
<1>2. ASSUME ShownOK(j, c) PROVE ShownOK(j, e)
  <2>0. DB(j.since) /\ Older(j.since, c)
    BY <1>2 DEF ShownOK
  <2>1. Older(j.since, e) /\ j.since # e
    BY <1>a, <2>0, CommitMoves
  <2>2. Elsewhere(c) \subseteq Elsewhere(e)
    BY <1>a DEF Older
  <2>3. Kept(j.since, e) \subseteq Kept(j.since, c) /\ Kept(j.since, c) \subseteq Plans
    BY <1>a, <2>0, KeptAllTheTime DEF Kept
  <2>4. /\ Cardinality(Kept(j.since, e)) \in Nat /\ Cardinality(Kept(j.since, c)) \in Nat
        /\ Cardinality(Kept(j.since, e)) <= Cardinality(Kept(j.since, c))
    BY <2>3, PlansAreFinite
  <2>5. j.map.count \in Nat /\ Cardinality(Kept(j.since, c)) <= j.map.count
    BY <1>2 DEF ShownOK
  <2>6. Cardinality(Kept(j.since, e)) <= j.map.count
    BY <2>4, <2>5
  <2> QED BY <1>2, <2>1, <2>2, <2>5, <2>6 DEF ShownOK
<1>3. JobOK(j, c) => JobOK(j, e)
  BY <1>1, <1>2 DEF JobOK
<1> QED BY <1>3

LEMMA CommitKeeps ==
  ASSUME DB(canon), GenerationOK, Commit, active' = active
  PROVE  /\ DB(canon') /\ Older(canon, canon') /\ GenerationOK'
         /\ \A j : JobOK(j, canon) => JobOK(j, canon')
<1>1. DB(canon') /\ Older(canon, canon') /\ Moved(canon, canon')
  BY CommitGrows DEF Commit
<1>2. ASSUME NEW j PROVE JobOK(j, canon) => JobOK(j, canon')
  BY <1>1, JobsSurvive
<1>3. ASSUME ReadUpTo(active.map, 8, canon) PROVE ReadUpTo(active.map, 8, canon')
  <2> PICK m : m = active.map
    OBVIOUS
  <2>1. ReadUpTo(m, 8, canon)
    BY <1>3
  <2>2. ReadUpTo(m, 8, canon')
    BY <1>1, <2>1, ReadingSurvives
  <2>3. (active.map)' = m
    OBVIOUS
  <2> QED BY <2>2, <2>3
<1> QED BY <1>1, <1>2, <1>3 DEF GenerationOK

-----------------------------------------------------------------------------
(* One more statement is read.                                             *)

LEMMA StatementNames ==
  /\ Statements[1] = "nodes" /\ Statements[2] = "revision" /\ Statements[3] = "audits"
  /\ Statements[4] = "plans" /\ Statements[5] = "ends" /\ Statements[6] = "judged"
  /\ Statements[7] = "count" /\ Statements[8] = "last"
  /\ \A i, j \in 1 .. 8 : Statements[i] = Statements[j] => i = j
  /\ \A i \in 1 .. 8 : Statements[i] \in Names
BY DEF Statements, Names

LEMMA SelectsThePart ==
  ASSUME NEW i \in 1 .. 8, NEW m, i = 6 => m.ends = Ends(canon)
  PROVE  Select(Statements[i], m) = MapOf(canon)[Statements[i]]
BY StatementNames DEF Select, MapOf

LEMMA RelatedPlans ==
  ASSUME NEW c, DB(c)
  PROVE  /\ DOMAIN Related(c.plans) = {q \in Plans : c.plans[q].related}
         /\ DOMAIN Related(c.plans) \subseteq Ever(c) /\ Ever(c) \subseteq Plans
         /\ \A q \in DOMAIN Related(c.plans) : Related(c.plans)[q] = c.plans[q].revision
         /\ Kept(c, c) = DOMAIN Related(c.plans)
BY DEF Related, Ever, Kept, DB

LEMMA ReadingGoesOn ==
  ASSUME DB(canon), NEW m, NEW k \in 0 .. 7, ReadUpTo(m, k, canon), NEW l, l = k + 1,
         NEW n, n = [m EXCEPT ![Statements[l]] = Select(Statements[l], m)]
  PROVE  /\ ReadUpTo(n, l, canon)
         /\ \A s : DB(s) /\ Older(s, canon) /\ AtLeast(m, k, s, canon)
              => AtLeast(n, l, s, canon)
         /\ \A s : Exact(m, k, s, canon) => Exact(n, l, s, canon)
<1>m. m = [name \in Names |-> m[name]]
  BY DEF ReadUpTo
<1>n. /\ n = [name \in Names |-> n[name]]
      /\ n[Statements[l]] = Select(Statements[l], m)
      /\ \A name \in Names : name # Statements[l] => n[name] = m[name]
  BY <1>m, StatementNames
<1>c. /\ canon.revision \in [Nodes -> Nat] /\ canon.audits \in Nat /\ canon.other \in Nat
      /\ \A x \in Nodes : canon.revision[x] \in Nat
      /\ \A q \in Plans : canon.plans[q].revision \in Nat
  BY DatabaseFields
<1>x. ASSUME NEW s, s = canon, Exact(m, k, s, canon)
      PROVE  Exact(n, l, s, canon)
  <2> SUFFICES ASSUME NEW i \in 1 .. l
               PROVE  n[Statements[i]] = MapOf(canon)[Statements[i]]
    BY DEF Exact
  <2>1. CASE i = l
    <3>1. ASSUME i = 6 PROVE m.ends = Ends(canon)
      <4>1. 5 \in 1 .. k
        BY <2>1, <3>1
      <4>2. m[Statements[5]] = MapOf(canon)[Statements[5]]
        BY <4>1, <1>x DEF Exact
      <4> QED BY <4>2, StatementNames DEF MapOf
    <3> QED BY <2>1, <3>1, <1>n, SelectsThePart
  <2>2. CASE i # l
    <3>1. i \in 1 .. k /\ i \in 1 .. 8 /\ l \in 1 .. 8
      BY <2>2
    <3>2. n[Statements[i]] = m[Statements[i]]
      BY <3>1, <2>2, <1>n, StatementNames
    <3> QED BY <3>1, <3>2, <1>x DEF Exact
  <2> QED BY <2>1, <2>2
<1>e. ASSUME NEW s, Exact(m, k, s, canon) PROVE Exact(n, l, s, canon)
  <2>1. s # canon => Exact(n, l, s, canon)
    BY DEF Exact
  <2> QED BY <2>1, <1>x, <1>e
<1>s. ASSUME NEW s, DB(s), Older(s, canon)
      PROVE  /\ s.revision \in [Nodes -> Nat] /\ s.audits \in Nat /\ s.other \in Nat
             /\ s.nodes \subseteq canon.nodes /\ s.audits <= canon.audits
             /\ s.other <= canon.other /\ s.judged \subseteq canon.judged
             /\ \A x \in Nodes : s.revision[x] \in Nat /\ s.revision[x] <= canon.revision[x]
  BY <1>s, DatabaseFields DEF Older
<1>0. CASE k = 0 /\ l = 1
  <2>1. n.nodes = canon.nodes
    BY <1>0, <1>n, StatementNames DEF Select
  <2>2. ReadUpTo(n, 1, canon)
    BY <2>1, <1>n DEF ReadUpTo
  <2>3. ASSUME NEW s, DB(s), Older(s, canon) PROVE AtLeast(n, 1, s, canon)
    BY <2>1, <2>3, <1>s DEF AtLeast
  <2> QED BY <1>0, <2>2, <2>3, <1>e, Zenon
<1>1. CASE k = 1 /\ l = 2
  <2>1. n.revision = canon.revision /\ n.nodes = m.nodes
    BY <1>1, <1>n, StatementNames DEF Select, Names
  <2>2. m.nodes \subseteq canon.nodes
    BY <1>1 DEF ReadUpTo
  <2>3. Orphans(n) \subseteq Elsewhere(canon)
    BY <2>1, <2>2 DEF Orphans, Elsewhere
  <2>4. ReadUpTo(n, 2, canon)
    BY <2>1, <2>2, <2>3, <1>n, <1>c DEF ReadUpTo
  <2>5. ASSUME NEW s, DB(s), Older(s, canon), AtLeast(m, 1, s, canon)
        PROVE  AtLeast(n, 2, s, canon)
    BY <2>1, <2>5, <1>s, <1>c DEF AtLeast
  <2> QED BY <1>1, <2>4, <2>5, <1>e, Zenon
<1>2. CASE k = 2 /\ l = 3
  <2>1. n.audits = canon.audits /\ n.nodes = m.nodes /\ n.revision = m.revision
    BY <1>2, <1>n, StatementNames DEF Select, Names
  <2>o. Orphans(n) = Orphans(m)
    BY <2>1 DEF Orphans
  <2>4. ReadUpTo(n, 3, canon)
    BY <1>2, <2>1, <2>o, <1>n, <1>c DEF ReadUpTo
  <2>5. ASSUME NEW s, DB(s), Older(s, canon), AtLeast(m, 2, s, canon)
        PROVE  AtLeast(n, 3, s, canon)
    BY <2>1, <2>5, <1>s, <1>c DEF AtLeast
  <2> QED BY <1>2, <2>4, <2>5, <1>e, Zenon
<1>3. CASE k = 3 /\ l = 4
  <2>1. n.plans = Related(canon.plans) /\ n.nodes = m.nodes /\ n.revision = m.revision /\ n.audits = m.audits
    BY <1>3, <1>n, StatementNames DEF Select, Names
  <2>2. /\ DOMAIN n.plans = {q \in Plans : canon.plans[q].related}
        /\ \A q \in DOMAIN n.plans : n.plans[q] = canon.plans[q].revision
    BY <2>1, RelatedPlans
  <2>o. Orphans(n) = Orphans(m)
    BY <2>1 DEF Orphans
  <2>3. /\ DOMAIN n.plans \subseteq Plans
        /\ \A q \in DOMAIN n.plans : n.plans[q] \in Nat /\ n.plans[q] <= canon.plans[q].revision
    BY <2>2, <1>c
  <2>4. ReadUpTo(n, 4, canon)
    BY <1>3, <2>1, <2>3, <2>o, <1>n DEF ReadUpTo
  <2>5. ASSUME NEW s, AtLeast(m, 3, s, canon)
        PROVE  AtLeast(n, 4, s, canon)
    <3>1. Kept(s, canon) \subseteq Still(n, canon)
      BY <2>2 DEF Kept, Still
    <3>2. n.nodes = m.nodes /\ n.revision = m.revision /\ n.audits = m.audits
      BY <2>1
    <3>3. /\ s.nodes \subseteq m.nodes /\ m.audits >= s.audits
          /\ \A x \in Nodes : m.revision[x] >= s.revision[x]
      BY <2>5 DEF AtLeast
    <3>4. /\ s.nodes \subseteq n.nodes /\ n.audits >= s.audits
          /\ \A x \in Nodes : n.revision[x] >= s.revision[x]
      BY <3>2, <3>3
    <3>5. ~ (4 >= 5) /\ ~ (4 >= 6)
      OBVIOUS
    <3> QED BY <3>1, <3>4, <3>5, Zenon DEF AtLeast
  <2> QED BY <1>3, <2>4, <2>5, <1>e, Zenon
<1>4. CASE k = 4 /\ l = 5
  <2>1. /\ n.ends = Ends(canon) /\ n.plans = m.plans /\ n.nodes = m.nodes
        /\ n.revision = m.revision /\ n.audits = m.audits
    BY <1>4, <1>n, StatementNames DEF Select, Names
  <2>o. Orphans(n) = Orphans(m) /\ Still(n, canon) = Still(m, canon)
    BY <2>1 DEF Orphans, Still
  <2>w. canon.revision[Local] \in Nat /\ canon.other \in Nat
    BY <1>c, NavigationConstants
  <2>x. n.ends \in Nat \X Nat
    <3>1. << canon.revision[Local], canon.other >> \in Nat \X Nat
      BY <2>w
    <3> QED BY <3>1, <2>1 DEF Ends
  <2>c. n.ends[1] = canon.revision[Local] /\ n.ends[2] = canon.other
    BY <2>1 DEF Ends
  <2>r. ReadUpTo(n, 5, canon)
    BY <1>4, <2>1, <2>o, <2>x, <1>n DEF ReadUpTo
  <2>a. ASSUME NEW s, DB(s), Older(s, canon), AtLeast(m, 4, s, canon)
        PROVE  AtLeast(n, 5, s, canon)
    <3>1. n.ends[1] >= s.revision[Local] /\ n.ends[2] >= s.other
      BY <2>a, <2>c, <2>w, <1>s, NavigationConstants
    <3> QED BY <2>1, <2>a, <2>o, <3>1 DEF AtLeast
  <2> QED BY <1>4, <2>r, <2>a, <1>e, Zenon
<1>5. CASE k = 5 /\ l = 6
  <2>1. /\ n.judged = Judged(canon, m.ends) /\ n.ends = m.ends /\ n.plans = m.plans
        /\ n.nodes = m.nodes /\ n.revision = m.revision /\ n.audits = m.audits
    BY <1>5, <1>n, StatementNames DEF Select, Names
  <2>o. Orphans(n) = Orphans(m) /\ Still(n, canon) = Still(m, canon)
    BY <2>1 DEF Orphans, Still
  <2>r. ReadUpTo(n, 6, canon)
    BY <1>5, <2>1, <2>o, <1>n DEF ReadUpTo
  <2>a. ASSUME NEW s, DB(s), Older(s, canon), AtLeast(m, 5, s, canon)
        PROVE  AtLeast(n, 6, s, canon)
    <3>1. n.ends = Ends(s) => Judged(s, Ends(s)) \subseteq n.judged
      BY <2>1, <2>a, <1>s DEF Judged
    <3> QED BY <2>1, <2>a, <2>o, <3>1 DEF AtLeast
  <2> QED BY <1>5, <2>r, <2>a, <1>e, Zenon
<1>6. CASE k = 6 /\ l = 7
  <2>1. /\ n.count = Cardinality(DOMAIN Related(canon.plans)) /\ n.judged = m.judged
        /\ n.ends = m.ends /\ n.plans = m.plans
        /\ n.nodes = m.nodes /\ n.revision = m.revision /\ n.audits = m.audits
    BY <1>6, <1>n, StatementNames DEF Select, Names
  <2>o. Orphans(n) = Orphans(m) /\ Still(n, canon) = Still(m, canon)
    BY <2>1 DEF Orphans, Still
  <2>2. DOMAIN m.plans \subseteq Plans
    BY <1>6 DEF ReadUpTo
  <2>3. Still(n, canon) \subseteq DOMAIN Related(canon.plans)
    BY <2>o, <2>2, RelatedPlans DEF Still
  <2>4. DOMAIN Related(canon.plans) \subseteq Ever(canon) /\ Ever(canon) \subseteq Plans
    BY RelatedPlans
  <2>5. /\ n.count \in Nat /\ Cardinality(Still(n, canon)) <= n.count
        /\ n.count <= Cardinality(Ever(canon))
    BY <2>1, <2>3, <2>4, PlansAreFinite
  <2>r. ReadUpTo(n, 7, canon)
    BY <1>6, <2>1, <2>o, <2>5, <1>n DEF ReadUpTo
  <2>a. ASSUME NEW s, AtLeast(m, 6, s, canon)
        PROVE  AtLeast(n, 7, s, canon)
    BY <2>1, <2>a, <2>o DEF AtLeast
  <2> QED BY <1>6, <2>r, <2>a, <1>e, Zenon
<1>7. CASE k = 7 /\ l = 8
  <2>1. /\ n.last = canon.audits /\ n.count = m.count /\ n.judged = m.judged
        /\ n.ends = m.ends /\ n.plans = m.plans
        /\ n.nodes = m.nodes /\ n.revision = m.revision /\ n.audits = m.audits
    BY <1>7, <1>n, StatementNames DEF Select, Names
  <2>o. Orphans(n) = Orphans(m) /\ Still(n, canon) = Still(m, canon)
    BY <2>1 DEF Orphans, Still
  <2>r. ReadUpTo(n, 8, canon)
    BY <1>7, <2>1, <2>o, <1>n, <1>c DEF ReadUpTo
  <2>a. ASSUME NEW s, AtLeast(m, 7, s, canon)
        PROVE  AtLeast(n, 8, s, canon)
    BY <2>1, <2>a, <2>o DEF AtLeast
  <2> QED BY <1>7, <2>r, <2>a, <1>e, Zenon
<1>c0. k = 0 => l = 1
  OBVIOUS
<1>c1. k = 1 => l = 2
  OBVIOUS
<1>c2. k = 2 => l = 3
  OBVIOUS
<1>c3. k = 3 => l = 4
  OBVIOUS
<1>c4. k = 4 => l = 5
  OBVIOUS
<1>c5. k = 5 => l = 6
  OBVIOUS
<1>c6. k = 6 => l = 7
  OBVIOUS
<1>c7. k = 7 => l = 8
  OBVIOUS
<1>8. k \in {0, 1, 2, 3, 4, 5, 6, 7}
  OBVIOUS
<1> QED BY <1>0, <1>1, <1>2, <1>3, <1>4, <1>5, <1>6, <1>7, <1>8,
            <1>c0, <1>c1, <1>c2, <1>c3, <1>c4, <1>c5, <1>c6, <1>c7, Zenon

-----------------------------------------------------------------------------
(* What is shown.                                                          *)

LEMMA QuietCopy ==
  ASSUME NEW m, m = [name \in Names |-> m[name]],
         m.nodes = canon.nodes, m.revision = canon.revision, m.plans = Related(canon.plans),
         m.ends = Ends(canon), m.last = canon.audits
  PROVE  /\ [m EXCEPT !.audits = canon.audits, !.judged = Judged(canon, Ends(canon)),
                      !.count = Cardinality(DOMAIN Related(canon.plans))] = MapOf(canon)
         /\ m.audits = canon.audits /\ m.judged = Judged(canon, Ends(canon))
              => [MapOf(canon) EXCEPT !.count = m.count] = m
<1> PICK d, c : d = Judged(canon, Ends(canon)) /\ c = Cardinality(DOMAIN Related(canon.plans))
  OBVIOUS
<1>1. [m EXCEPT !.audits = canon.audits, !.judged = d, !.count = c]
        = [name \in Names |-> IF name = "audits" THEN canon.audits
                              ELSE IF name = "judged" THEN d
                              ELSE IF name = "count" THEN c ELSE m[name]]
  BY DEF Names
<1>2. MapOf(canon)
        = [name \in Names |-> IF name = "audits" THEN canon.audits
                              ELSE IF name = "judged" THEN d
                              ELSE IF name = "count" THEN c ELSE m[name]]
  BY DEF MapOf, Names
<1>3. ASSUME m.audits = canon.audits, m.judged = d
      PROVE  [MapOf(canon) EXCEPT !.count = m.count] = m
  <2>1. MapOf(canon) = [m EXCEPT !.count = c]
    BY <1>2, <1>3 DEF Names
  <2>2. [MapOf(canon) EXCEPT !.count = m.count] = [name \in Names |-> m[name]]
    BY <2>1
  <2> QED BY <2>2
<1> QED BY <1>1, <1>2, <1>3

LEMMA WhatIsShown ==
  ASSUME DB(canon), GenerationOK, NEW j, BuildOK(j, canon), j.done = 8, j.why = "read",
         NEW r, r = [at |-> "shown", map |-> Shown(j.map), since |-> j.since,
                     activity |-> Fresh(active.persisted,
                       active.persisted /\ Activity(active.map) = Activity(j.map))]
  PROVE  ShownOK(r, canon)
<1> PICK b, s, a, m : b = j.map /\ s = j.since /\ a = active.map /\ m = Shown(b)
  OBVIOUS
<1>b. /\ ReadUpTo(b, 8, canon) /\ AtLeast(b, 8, s, canon) /\ Exact(b, 8, s, canon)
      /\ DB(s) /\ Older(s, canon)
      /\ r.map = m /\ r.since = s /\ r.at = "shown"
      /\ r = [at |-> "shown", map |-> m, since |-> s, activity |-> r.activity]
  BY DEF BuildOK
<1>t. /\ s.other \in Nat /\ s.audits \in Nat /\ s.nodes \subseteq Nodes
      /\ canon.audits \in Nat /\ b.audits \in Nat /\ b.last \in Nat
  BY <1>b, DatabaseFields DEF ReadUpTo
<1>f. /\ s.nodes \subseteq b.nodes /\ (\A n \in s.nodes : b.revision[n] >= s.revision[n])
      /\ b.ends[1] >= s.revision[Local] /\ b.ends[2] >= s.other
      /\ b.ends = Ends(s) => Judged(s, Ends(s)) \subseteq b.judged
      /\ Kept(s, canon) \subseteq Still(b, canon)
      /\ b.audits >= s.audits /\ b.audits <= b.last
  BY <1>b, <1>t DEF AtLeast, ReadUpTo
<1>x. ASSUME s = canon
      PROVE  /\ b.nodes = canon.nodes /\ b.revision = canon.revision /\ b.audits = canon.audits
             /\ b.plans = Related(canon.plans) /\ b.ends = Ends(canon)
             /\ b.judged = Judged(canon, Ends(canon)) /\ b.last = canon.audits
  <2>1. \A i \in 1 .. 8 : b[Statements[i]] = MapOf(canon)[Statements[i]]
    BY <1>b, <1>x DEF Exact
  <2> QED BY <2>1, StatementNames DEF MapOf
<1>k. ASSUME NEW x, ReadUpTo(x, 8, canon), x.plans = b.plans
      PROVE  /\ x.count \in Nat /\ Cardinality(Kept(s, canon)) <= x.count
             /\ s = canon => x.count \in Cardinality(DOMAIN Related(canon.plans))
                                           .. Cardinality(Ever(canon))
  <2>1. /\ x.count \in Nat /\ Cardinality(Still(x, canon)) <= x.count
        /\ x.count <= Cardinality(Ever(canon)) /\ DOMAIN x.plans \subseteq Plans
    BY <1>k DEF ReadUpTo
  <2>2. Still(x, canon) \subseteq Plans /\ Kept(s, canon) \subseteq Still(x, canon)
    BY <2>1, <1>k, <1>f DEF Still
  <2>3. /\ Cardinality(Kept(s, canon)) \in Nat /\ Cardinality(Still(x, canon)) \in Nat
        /\ Cardinality(Kept(s, canon)) <= Cardinality(Still(x, canon))
    BY <2>2, PlansAreFinite
  <2>4. Cardinality(Kept(s, canon)) <= x.count
    BY <2>1, <2>3
  <2>5. Ever(canon) \subseteq Plans /\ Kept(canon, canon) = DOMAIN Related(canon.plans)
    BY RelatedPlans
  <2>6. Cardinality(Ever(canon)) \in Nat
    BY <2>5, PlansAreFinite
  <2> QED BY <2>1, <2>3, <2>4, <2>5, <2>6
<1>1. CASE active.persisted /\ Content(a) = Content(b)
  <2>1. ReadUpTo(a, 8, canon)
    BY <1>1 DEF GenerationOK, NoGeneration
  <2>2. /\ a.nodes = b.nodes /\ a.revision = b.revision /\ a.plans = b.plans
        /\ a.ends = b.ends
    BY <1>1 DEF Content
  <2>3. PICK l : l = IF Activity(a) = Activity(b) THEN a.last ELSE b.last
    OBVIOUS
  <2>4. m = [a EXCEPT !.last = l]
    BY <1>1, <2>3 DEF Shown
  <2>5. a = [name \in Names |-> a[name]]
    BY <2>1 DEF ReadUpTo
  <2>6. /\ m = [name \in Names |-> m[name]] /\ m.last = l
        /\ m.nodes = a.nodes /\ m.revision = a.revision /\ m.plans = a.plans
        /\ m.ends = a.ends /\ m.judged = a.judged /\ m.audits = a.audits /\ m.count = a.count
    BY <2>4, <2>5 DEF Names
  <2>7. r.activity = IF Activity(a) = Activity(b) THEN "Fresh" ELSE "Stale"
    BY <1>1 DEF Fresh
  <2>8. Activity(a) = Activity(b) => a.audits = b.audits /\ a.judged = b.judged
    BY DEF Activity
  <2>9. /\ a.audits \in Nat /\ a.last \in Nat /\ a.audits <= a.last /\ a.last <= canon.audits
    BY <2>1 DEF ReadUpTo
  <2>10. Orphans(m) \subseteq Elsewhere(canon)
    BY <2>1, <2>6 DEF ReadUpTo, Orphans
  <2>11. m.last >= s.audits
    BY <1>f, <2>3, <2>6, <2>8, <2>9, <1>t
  <2>12. /\ s.nodes \subseteq m.nodes /\ (\A n \in s.nodes : m.revision[n] >= s.revision[n])
         /\ m.ends[1] >= s.revision[Local] /\ m.ends[2] >= s.other
         /\ (r.activity = "Fresh" /\ m.ends = Ends(s) => Judged(s, Ends(s)) \subseteq m.judged)
    BY <1>f, <2>2, <2>6, <2>7, <2>8
  <2>c. /\ m.count \in Nat /\ Cardinality(Kept(s, canon)) <= m.count
        /\ s = canon => m.count \in Cardinality(DOMAIN Related(canon.plans))
                                      .. Cardinality(Ever(canon))
    BY <1>k, <2>1, <2>2, <2>6
  <2>13. ASSUME s = canon
         PROVE  /\ [m EXCEPT !.audits = canon.audits, !.judged = Judged(canon, Ends(canon)),
                             !.count = Cardinality(DOMAIN Related(canon.plans))] = MapOf(canon)
                /\ r.activity = "Fresh" => [MapOf(canon) EXCEPT !.count = m.count] = m
    <3>1. m.last = canon.audits
      <4>1. CASE Activity(a) = Activity(b)
        BY <4>1, <1>x, <2>13, <2>3, <2>6, <2>8, <2>9, <1>t
      <4>2. CASE Activity(a) # Activity(b)
        BY <4>2, <1>x, <2>13, <2>3, <2>6
      <4> QED BY <4>1, <4>2
    <3>2. /\ m.nodes = canon.nodes /\ m.revision = canon.revision
          /\ m.plans = Related(canon.plans) /\ m.ends = Ends(canon)
      BY <1>x, <2>13, <2>2, <2>6
    <3>3. r.activity = "Fresh" => m.audits = canon.audits /\ m.judged = Judged(canon, Ends(canon))
      BY <1>x, <2>13, <2>6, <2>7, <2>8
    <3> QED BY <2>6, <3>1, <3>2, <3>3, QuietCopy
  <2> QED BY <1>b, <2>10, <2>11, <2>12, <2>c, <2>13 DEF ShownOK
<1>2. CASE ~(active.persisted /\ Content(a) = Content(b))
  <2>1. m = b
    BY <1>2 DEF Shown
  <2>2. b = [name \in Names |-> b[name]] /\ Orphans(b) \subseteq Elsewhere(canon)
    BY <1>b DEF ReadUpTo
  <2>3. b.last >= s.audits
    BY <1>f, <1>t
  <2>c. /\ b.count \in Nat /\ Cardinality(Kept(s, canon)) <= b.count
        /\ s = canon => b.count \in Cardinality(DOMAIN Related(canon.plans))
                                      .. Cardinality(Ever(canon))
    BY <1>k, <1>b
  <2>5. ASSUME s = canon
        PROVE  /\ [b EXCEPT !.audits = canon.audits, !.judged = Judged(canon, Ends(canon)),
                            !.count = Cardinality(DOMAIN Related(canon.plans))] = MapOf(canon)
               /\ [MapOf(canon) EXCEPT !.count = b.count] = b
    BY <2>2, <1>x, <2>5, QuietCopy
  <2> QED BY <1>b, <1>f, <2>1, <2>2, <2>3, <2>c, <2>5 DEF ShownOK
<1> QED BY <1>1, <1>2

-----------------------------------------------------------------------------
(* The invariant.                                                          *)

LEMMA WhatAJobIs ==
  ASSUME NEW j, NEW c, JobOK(j, c)
  PROVE  /\ j = Idle \/ j.at = "build" \/ j.at = "shown"
         /\ j = Idle => j.at = "idle"
         /\ j.at = "build" => BuildOK(j, c)
         /\ j.at = "shown" => ShownOK(j, c)
<1>1. j = Idle => j.at = "idle"
  BY DEF Idle
<1>2. BuildOK(j, c) => j.at = "build"
  BY DEF BuildOK
<1>3. ShownOK(j, c) => j.at = "shown"
  BY DEF ShownOK
<1> QED BY <1>1, <1>2, <1>3 DEF JobOK

LEMMA OneProcessMoves ==
  ASSUME NavInv, UNCHANGED canon, NEW p \in Processes, NEW j, Goto(p, j),
         JobOK(j, canon), GenerationOK', failure' \in BOOLEAN
  PROVE  NavInv'
<1>1. \A x \in Processes : process'[x] = IF x = p THEN j ELSE process[x]
  BY DEF NavInv, Goto
<1>2. process' = [x \in Processes |-> process'[x]]
  BY DEF NavInv, Goto
<1>3. DB(canon')
  BY DEF NavInv
<1>4. ASSUME NEW x \in Processes PROVE JobOK(process'[x], canon')
  BY <1>1 DEF NavInv
<1>5. failure' \in BOOLEAN
  OBVIOUS
<1> QED BY <1>2, <1>3, <1>4, <1>5 DEF NavInv

LEMMA ARebuild ==
  ASSUME NEW c, NEW done \in 0 .. 8, NEW map, NEW since, ReadUpTo(map, done, c)
  PROVE  BuildOK([at |-> "build", why |-> "rebuild", done |-> done, map |-> map, since |-> since], c)
BY DEF BuildOK

LEMMA ABuild ==
  ASSUME NEW c, NEW done \in 0 .. 8, NEW map, NEW since,
         DB(since), Older(since, c), ReadUpTo(map, done, c), AtLeast(map, done, since, c),
         Exact(map, done, since, c)
  PROVE  BuildOK([at |-> "build", why |-> "read", done |-> done, map |-> map, since |-> since], c)
BY DEF BuildOK

LEMMA NewBuild ==
  ASSUME NEW c, DB(c)
  PROVE  /\ JobOK(Build("rebuild", Never), c)
         /\ JobOK(Build("read", c), c)
<1>1. Older(c, c)
  BY OlderIsReflexive
<1>2. ReadUpTo(Unread, 0, c) /\ AtLeast(Unread, 0, c, c) /\ Exact(Unread, 0, c, c)
  BY DEF ReadUpTo, AtLeast, Exact, Unread
<1>3. BuildOK(Build("rebuild", Never), c)
  BY <1>2, ARebuild DEF Build
<1>4. BuildOK(Build("read", c), c)
  BY <1>1, <1>2, ABuild DEF Build
<1> QED BY <1>3, <1>4 DEF JobOK

LEMMA GenerationStays ==
  ASSUME GenerationOK, UNCHANGED << canon, active >>
  PROVE  GenerationOK'
BY DEF GenerationOK

LEMMA NavInvInit == Init => NavInv
<1> SUFFICES ASSUME Init PROVE NavInv
  OBVIOUS
<1>1. DB(canon)
  <2>1. canon \in Canon
    BY NavigationConstants DEF Init, Empty, Canon, Plan
  <2> QED BY <2>1, NavigationConstants DEF Init, Empty, DB
<1>2. GenerationOK
  BY DEF Init, GenerationOK
<1>3. ASSUME NEW p \in Processes PROVE JobOK(process[p], canon)
  BY DEF Init, JobOK
<1>4. failure \in BOOLEAN /\ process = [p \in Processes |-> process[p]]
  BY DEF Init
<1> QED BY <1>1, <1>2, <1>3, <1>4 DEF NavInv

LEMMA NavInvNext == NavInv /\ [Next]_vars => NavInv'
<1> SUFFICES ASSUME NavInv, [Next]_vars PROVE NavInv'
  OBVIOUS
<1>d. DB(canon) /\ GenerationOK /\ failure \in BOOLEAN
  BY DEF NavInv
<1>k. \A p \in Processes : JobOK(process[p], canon)
  BY DEF NavInv
<1>1. CASE WriteElsewhere
  <2>1. /\ DB(canon') /\ GenerationOK'
        /\ \A j : JobOK(j, canon) => JobOK(j, canon')
    BY <1>1, <1>d, CommitKeeps DEF WriteElsewhere
  <2>2. ASSUME NEW x \in Processes
        PROVE  JobOK(process'[x], canon')
    <3> PICK k : k = process[x]
      OBVIOUS
    <3>1. JobOK(k, canon')
      BY <2>1, <1>k
    <3>2. process'[x] = k
      BY <1>1 DEF WriteElsewhere
    <3> QED BY <3>1, <3>2
  <2> QED BY <1>1, <2>1, <2>2 DEF WriteElsewhere, NavInv
<1>2. ASSUME NEW p \in Processes, WriteCommand(p) PROVE NavInv'
  <2>1. /\ DB(canon') /\ GenerationOK'
        /\ \A j : JobOK(j, canon) => JobOK(j, canon')
    <3>1. CASE Commit
      BY <1>2, <1>d, <3>1, CommitKeeps DEF WriteCommand
    <3>2. CASE UNCHANGED << canon, writes >>
      BY <1>2, <1>d, <3>2, GenerationStays DEF WriteCommand
    <3> QED BY <1>2, <3>1, <3>2 DEF WriteCommand
  <2> PICK j : j = Build("rebuild", Never)
    OBVIOUS
  <2>3. JobOK(j, canon')
    BY <2>1, NewBuild
  <2>4. ASSUME NEW x \in Processes
        PROVE  JobOK(process'[x], canon')
    <3>1. process'[x] = IF x = p THEN j ELSE process[x]
      BY <1>2 DEF WriteCommand, Goto, NavInv
    <3>2. CASE x = p
      BY <3>1, <3>2, <2>3
    <3>3. CASE x # p
      <4> PICK k : k = process[x]
        OBVIOUS
      <4>1. JobOK(k, canon')
        BY <2>1, <1>k
      <4> QED BY <4>1, <3>1, <3>3
    <3> QED BY <3>2, <3>3
  <2> QED BY <1>2, <2>1, <2>4 DEF WriteCommand, Goto, NavInv
<1>3. ASSUME NEW p \in Processes, ShowMap(p) PROVE NavInv'
  <2>1. GenerationOK'
    BY <1>3, <1>d, GenerationStays DEF ShowMap
  <2>2. JobOK(Build("read", canon), canon)
    BY <1>d, NewBuild
  <2> QED BY <1>3, <1>d, <2>1, <2>2, OneProcessMoves DEF ShowMap
<1>4. ASSUME NEW p \in Processes, SelectNext(p) PROVE NavInv'
  <2> PICK j : j = process[p]
    OBVIOUS
  <2>1. BuildOK(j, canon) /\ j.done \in 0 .. 7
    <3>1. j.at = "build" /\ j.done < 8
      BY <1>4 DEF SelectNext
    <3>2. BuildOK(j, canon)
      BY <1>k, <3>1, WhatAJobIs
    <3> QED BY <3>1, <3>2 DEF BuildOK
  <2> PICK m, k, s, name : m = j.map /\ k = j.done /\ s = j.since /\ name = Statements[j.done + 1]
    OBVIOUS
  <2> PICK l : l = k + 1
    OBVIOUS
  <2> PICK n : n = [m EXCEPT ![name] = Select(name, m)]
    OBVIOUS
  <2> PICK r : r = [j EXCEPT !.done = @ + 1, !.map = [@ EXCEPT ![name] = Select(name, m)]]
    OBVIOUS
  <2>2. j = [at |-> "build", why |-> j.why, done |-> k, map |-> m, since |-> s]
    BY <2>1 DEF BuildOK
  <2>3. r = [at |-> "build", why |-> j.why, done |-> l, map |-> n, since |-> s]
    <3>1. r = [j EXCEPT !.done = l, !.map = n]
      OBVIOUS
    <3>2. j \in [at : {"build"}, why : {j.why}, done : {k, l}, map : {m, n}, since : {s}]
      BY <2>2
    <3>3. /\ r \in [at : {"build"}, why : {j.why}, done : {k, l}, map : {m, n}, since : {s}]
          /\ r.done = l /\ r.map = n
      BY <3>1, <3>2
    <3> QED BY <3>3
  <2>4. /\ ReadUpTo(m, k, canon) /\ k \in 0 .. 7 /\ l \in 0 .. 8
        /\ j.why \in {"rebuild", "read"}
    BY <2>1 DEF BuildOK
  <2>n. n = [m EXCEPT ![Statements[l]] = Select(Statements[l], m)]
    OBVIOUS
  <2>5. BuildOK(r, canon)
    <3>1. ReadUpTo(n, l, canon)
      BY <1>d, <2>4, <2>n, ReadingGoesOn
    <3>2. CASE j.why = "rebuild"
      <4>1. BuildOK([at |-> "build", why |-> "rebuild", done |-> l, map |-> n, since |-> s], canon)
        BY <2>4, <3>1, ARebuild
      <4> QED BY <4>1, <2>3, <3>2, Zenon
    <3>3. CASE j.why = "read"
      <4>1. DB(s) /\ Older(s, canon) /\ AtLeast(m, k, s, canon) /\ Exact(m, k, s, canon)
        BY <2>1, <3>3 DEF BuildOK
      <4>2. AtLeast(n, l, s, canon) /\ Exact(n, l, s, canon)
        BY <1>d, <2>4, <2>n, <4>1, ReadingGoesOn
      <4>3. BuildOK([at |-> "build", why |-> "read", done |-> l, map |-> n, since |-> s], canon)
        BY <2>4, <3>1, <4>1, <4>2, ABuild
      <4> QED BY <4>3, <2>3, <3>3, Zenon
    <3> QED BY <2>4, <3>2, <3>3
  <2>6. Goto(p, r)
    BY <1>4 DEF SelectNext
  <2>7. GenerationOK'
    BY <1>4, <1>d, GenerationStays DEF SelectNext
  <2> QED BY <1>4, <1>d, <2>5, <2>6, <2>7, OneProcessMoves DEF SelectNext, JobOK
<1>5. ASSUME NEW p \in Processes, SwitchGeneration(p) PROVE NavInv'
  <2>1. BuildOK(process[p], canon) /\ process[p].done = 8
    BY <1>5, <1>k, WhatAJobIs DEF SwitchGeneration, Built
  <2> PICK m : m = process[p].map
    OBVIOUS
  <2>2. ReadUpTo(m, 8, canon)
    BY <2>1 DEF BuildOK
  <2>3. active' = [persisted |-> TRUE, map |-> m] /\ canon' = canon
    BY <1>5 DEF SwitchGeneration
  <2>4. ReadUpTo(m, 8, canon')
    BY <2>2, <2>3
  <2>5. GenerationOK'
    <3>1. active' = [persisted |-> TRUE, map |-> active'.map] /\ active'.map = m
      BY <2>3
    <3> QED BY <3>1, <2>4 DEF GenerationOK
  <2>6. JobOK(Build("read", canon), canon)
    BY <1>d, NewBuild
  <2> QED BY <1>5, <2>5, <2>6, OneProcessMoves DEF SwitchGeneration
<1>6. ASSUME NEW p \in Processes, RebuildFails(p) PROVE NavInv'
  <2>1. GenerationOK'
    BY <1>6, <1>d, GenerationStays DEF RebuildFails
  <2> QED BY <1>6, <2>1, OneProcessMoves DEF RebuildFails, JobOK
<1>7. ASSUME NEW p \in Processes, Resolve(p) PROVE NavInv'
  <2> PICK j : j = process[p]
    OBVIOUS
  <2>1. BuildOK(j, canon) /\ j.done = 8 /\ j.why = "read"
    BY <1>7, <1>k, WhatAJobIs DEF Resolve, Built
  <2> PICK r : r = [at |-> "shown", map |-> Shown(j.map), since |-> j.since,
                    activity |-> Fresh(active.persisted,
                      active.persisted /\ Activity(active.map) = Activity(j.map))]
    OBVIOUS
  <2>2. ShownOK(r, canon)
    BY <1>d, <2>1, WhatIsShown
  <2>3. Goto(p, r)
    BY <1>7 DEF Resolve
  <2>4. GenerationOK'
    BY <1>7, <1>d, GenerationStays DEF Resolve
  <2> QED BY <1>7, <1>d, <2>2, <2>3, <2>4, OneProcessMoves DEF Resolve, JobOK
<1>8. ASSUME NEW p \in Processes, End(p) PROVE NavInv'
  <2>1. GenerationOK'
    BY <1>8, <1>d, GenerationStays DEF End
  <2> QED BY <1>8, <1>d, <2>1, OneProcessMoves DEF End, JobOK
<1>9. CASE UNCHANGED vars
  <2>1. GenerationOK'
    BY <1>9, <1>d, GenerationStays DEF vars
  <2>2. canon' = canon /\ process' = process /\ failure' = failure
    BY <1>9 DEF vars
  <2> QED BY <2>1, <2>2 DEF NavInv
<1> QED BY <1>1, <1>2, <1>3, <1>4, <1>5, <1>6, <1>7, <1>8, <1>9 DEF Next

LEMMA NavInvAlways == Spec => []NavInv
BY NavInvInit, NavInvNext, PTL DEF Spec

-----------------------------------------------------------------------------
(* The theorems.                                                           *)

(* However the SELECTs of a build interleave with the commits of others, no *)
(* map and no generation lists a Node of its scope as one without Current.  *)
THEOREM MapsHaveNoPhantomOrphans == Spec => []NoPhantomOrphans
<1>1. NavInv => NoPhantomOrphans
  <2> SUFFICES ASSUME NavInv PROVE NoPhantomOrphans
    OBVIOUS
  <2>1. active = NoGeneration \/ (ReadUpTo(active.map, 8, canon) /\ active.persisted = TRUE)
    BY DEF NavInv, GenerationOK
  <2>2. active = NoGeneration => ~ active.persisted
    BY DEF NoGeneration
  <2>3. ReadUpTo(active.map, 8, canon)
          => DOMAIN active.map = Names /\ Orphans(active.map) \subseteq Elsewhere(canon)
    <3>1. ASSUME NEW m, ReadUpTo(m, 8, canon)
          PROVE  DOMAIN m = Names /\ Orphans(m) \subseteq Elsewhere(canon)
      BY <3>1 DEF ReadUpTo
    <3> QED BY <3>1
  <2>4. ASSUME NEW p \in Processes
        PROVE  /\ process[p].at \in {"idle", "build", "shown"}
               /\ process[p].at = "shown" => Orphans(process[p].map) \subseteq Elsewhere(canon)
    <3>1. process[p].at \in {"idle", "build", "shown"}
      BY WhatAJobIs DEF NavInv
    <3>2. process[p].at = "shown" => ShownOK(process[p], canon)
      BY WhatAJobIs DEF NavInv
    <3> QED BY <3>1, <3>2 DEF ShownOK
  <2>5. TypeOK
    BY <2>1, <2>3, <2>4 DEF NavInv, DB, TypeOK
  <2> QED BY <2>1, <2>2, <2>3, <2>4, <2>5 DEF NoPhantomOrphans
<1> QED BY <1>1, NavInvAlways, PTL

(* A map shows at least what there was when it was asked for, whatever      *)
(* generation is active by the time it is resolved.                         *)
THEOREM MapsShowWhatWasThere == Spec => []MapsAreRecent
<1>1. NavInv => MapsAreRecent
  <2> SUFFICES ASSUME NavInv, NEW p \in Processes, process[p].at = "shown"
      PROVE  LET m == process[p].map  since == process[p].since IN
             /\ since.nodes \subseteq m.nodes
             /\ \A n \in since.nodes : m.revision[n] >= since.revision[n]
             /\ m.ends[1] >= since.revision[Local] /\ m.ends[2] >= since.other
             /\ m.last >= since.audits
             /\ Cardinality({q \in Plans :
                   since.plans[q].related /\ canon.plans[q] = since.plans[q]}) <= m.count
             /\ process[p].activity = "Fresh" /\ m.ends = Ends(since)
                  => Judged(since, m.ends) \subseteq m.judged
    BY DEF MapsAreRecent
  <2>1. ShownOK(process[p], canon)
    BY WhatAJobIs DEF NavInv
  <2> QED BY <2>1 DEF ShownOK, Kept
<1> QED BY <1>1, NavInvAlways, PTL

(* However many processes write and rebuild, and wherever they stop: what a *)
(* map shows is in no part older than the moment it was asked for, and it   *)
(* lists no orphan that is none.                                            *)
THEOREM MapsAreAlwaysSound == Spec => []MapsAreSound
<1>1. NoPhantomOrphans /\ MapsAreRecent => MapsAreSound
  BY DEF MapsAreSound
<1> QED BY <1>1, MapsHaveNoPhantomOrphans, MapsShowWhatWasThere, PTL

(* A map that was asked for and shown while nothing was written is the      *)
(* database as it is, and with its assessments if it is announced as fresh; *)
(* only the count of plans may include some that are related no more.       *)
THEOREM QuietMapsAreExact == Spec => []QuietMapIsExact
<1>1. NavInv => QuietMapIsExact
  <2> SUFFICES ASSUME NavInv, NEW p \in Processes, process[p].at = "shown",
                      process[p].since = canon
      PROVE  LET m == process[p].map IN
             /\ [m EXCEPT !.audits = canon.audits, !.judged = Judged(canon, Ends(canon)),
                           !.count = Cardinality(DOMAIN Related(canon.plans))] = MapOf(canon)
             /\ m.count \in Cardinality(DOMAIN Related(canon.plans))
                               .. Cardinality({q \in Plans : canon.plans[q].revision > 0})
             /\ process[p].activity = "Fresh" => [MapOf(canon) EXCEPT !.count = m.count] = m
    BY DEF QuietMapIsExact
  <2>1. ShownOK(process[p], canon)
    BY WhatAJobIs DEF NavInv
  <2> QED BY <2>1 DEF ShownOK, Ever
<1> QED BY <1>1, NavInvAlways, PTL

-----------------------------------------------------------------------------
(* The guided demo.  Its invariant, GuideInv:                               *)
(* - a note of a review that names this run, in runtime.json, in a copy a   *)
(*   process read, or in what a call has still to write, is there only      *)
(*   when this run was confirmed;                                           *)
(* - a run is paid for in trouble before it begins, so that a run never     *)
(*   gets the number of an earlier one;                                     *)
(* - a fixed id that was used is of a Proposal that is open or accepted, or *)
(*   its rejection is noted, is about to be noted, or is lost;              *)
(* - between moving the new database in and the end of a reset nothing of   *)
(*   the story happened, so that no stage is lost with the old proof.       *)

(* A note of a review is of this run only when this run was confirmed.      *)
Notes == {n \in 0 .. db.run : n = db.run => confirmed = db.run}
GoodKeys == {keys \in Keys : keys.review \in Notes}

(* What a call still has to do.  A reset is at one of its five steps.       *)
CallNames == {"update", "prepare", "resume", "submit", "resubmit", "assess", "request",
              "direct", "mcp", "passed", "failed"}
CallStep == [do : CallNames, keys : GoodKeys]
AfterReset(n) ==
  CASE n = 1 -> << Step("newRuntime") >>
    [] n = 2 -> << Step("dropRequest"), Step("newRuntime") >>
    [] n = 3 -> << Step("dropProof"), Step("dropRequest"), Step("newRuntime") >>
    [] n = 4 -> << Step("moveIn"), Step("dropProof"), Step("dropRequest"), Step("newRuntime") >>
    [] n = 5 -> << Step("moveAway"), Step("moveIn"), Step("dropProof"), Step("dropRequest"),
                   Step("newRuntime") >>

BeforeMoveIn == todo[Server] = AfterReset(4) \/ todo[Server] = AfterReset(5)
AfterMoveIn == \E n \in 1 .. 3 : todo[Server] = AfterReset(n)

CallsHold ==
  /\ DOMAIN todo = DemoProcesses
  /\ todo[Proof] \in Seq(CallStep)
  /\ todo[Server] \in Seq(CallStep) \/ BeforeMoveIn \/ AfterMoveIn

FilesHold ==
  /\ present \in BOOLEAN /\ request \in BOOLEAN /\ lost \in BOOLEAN
  /\ proof \in {"absent", "failed", "passed"}
  /\ runtime \in GoodKeys /\ confirmed \in Notes
  /\ read \in [DemoProcesses -> [done : BOOLEAN, file : GoodKeys]]

Database ==
  [run : Runs, inbox : SUBSET Kinds, accepted : SUBSET Kinds, used : SUBSET Fixed,
   assessed : SUBSET {"v2", "v3"}, rollback : BOOLEAN, plan : BOOLEAN]

DatabaseHolds == db \in Database /\ db.inbox \intersect db.accepted = {} /\ RestorationHasItsPlan

(* A run is paid for before it begins.                                      *)
RunsArePaid ==
  /\ trouble \in 0 .. MaxTrouble /\ db.run <= 1 + trouble
  /\ BeforeMoveIn \/ ~present => db.run <= trouble

(* A fixed id that was used is of a Proposal that is open or accepted, or   *)
(* its rejection is noted, about to be noted, or lost.                      *)
AboutToNote(kind) == NextIs(Server, "update") /\ kind \in Head(todo[Server]).keys.rejected
IdIsKnown(kind) ==
  kind \in db.inbox \union db.accepted \/ kind \in runtime.rejected \/ lost \/ AboutToNote(kind)
IdsAreKnown ==
  /\ AfterMoveIn => db.used = {} /\ db.accepted = {}
  /\ \A kind \in db.used : IdIsKnown(kind)

GuideInv == FilesHold /\ DatabaseHolds /\ CallsHold /\ RunsArePaid /\ IdsAreKnown

-----------------------------------------------------------------------------
(* The calls.                                                               *)

LEMMA CallerNames == /\ DemoProcesses = {Server, Proof} /\ Server # Proof
BY DEF DemoProcesses, Server, Proof

LEMMA NoKeysAreGood ==
  ASSUME DatabaseHolds
  PROVE  /\ 0 \in Notes /\ NoKeys \in GoodKeys /\ NoKeys.rejected = {} /\ NoKeys.review = 0
         /\ db.run \in Nat /\ db.run > 0
<1>1. db.run \in Runs
  BY DEF DatabaseHolds, Database
<1>2. db.run \in Nat /\ db.run > 0
  BY <1>1, DemoConstants DEF Runs
<1>3. 0 \in Notes
  BY <1>2 DEF Notes
<1>4. NoKeys \in Keys /\ NoKeys.review = 0 /\ NoKeys.rejected = {}
  BY DEF NoKeys, Keys
<1> QED BY <1>2, <1>3, <1>4 DEF GoodKeys

LEMMA StepsAreCalls ==
  ASSUME DatabaseHolds
  PROVE  /\ \A do \in CallNames : Step(do) \in CallStep
         /\ \A keys \in GoodKeys : Update(keys) \in CallStep
         /\ Receipt \in CallStep
BY NoKeysAreGood DEF Step, Update, Receipt, CallStep, CallNames

LEMMA NoResetIsCall ==
  ASSUME NEW n \in 1 .. 5
  PROVE  /\ AfterReset(n) \notin Seq(CallStep)
         /\ AfterReset(n) # <<>> /\ Head(AfterReset(n)).do \notin CallNames
<1>1. /\ AfterReset(n) # <<>> /\ Head(AfterReset(n)) = AfterReset(n)[1]
      /\ AfterReset(n)[1].do \in {"newRuntime", "dropRequest", "dropProof", "moveIn", "moveAway"}
  BY DEF AfterReset, Step
<1>2. AfterReset(n)[1].do \notin CallNames
  BY <1>1 DEF CallNames
<1>3. ASSUME AfterReset(n) \in Seq(CallStep) PROVE FALSE
  <2>1. Head(AfterReset(n)) \in CallStep
    BY <1>1, <1>3, HeadTailProperties
  <2> QED BY <1>1, <1>2, <2>1 DEF CallStep
<1> QED BY <1>1, <1>2, <1>3

LEMMA CallIsNoReset ==
  /\ todo[Server] \in Seq(CallStep) => ~ BeforeMoveIn /\ ~ AfterMoveIn
  /\ todo'[Server] \in Seq(CallStep) => ~ BeforeMoveIn' /\ ~ AfterMoveIn'
BY NoResetIsCall DEF BeforeMoveIn, AfterMoveIn

LEMMA CallGoesOn ==
  ASSUME CallsHold, NEW p \in DemoProcesses, NEW do \in CallNames, NextIs(p, do)
  PROVE  /\ todo[p] \in Seq(CallStep) /\ todo[p] # <<>>
         /\ Head(todo[p]) \in CallStep /\ Tail(todo[p]) \in Seq(CallStep)
         /\ Head(todo[p]).do = do
<1>1. todo[p] # <<>> /\ Head(todo[p]).do = do
  BY DEF NextIs, NoCall
<1>2. todo[p] \in Seq(CallStep)
  <2>1. CASE p = Proof
    BY <2>1 DEF CallsHold
  <2>2. CASE p = Server
    BY <1>1, <2>2, NoResetIsCall DEF CallsHold, BeforeMoveIn, AfterMoveIn
  <2> QED BY <2>1, <2>2, CallerNames
<1> QED BY <1>1, <1>2, HeadTailProperties

(* What a process does when it goes on with a call.                         *)
LEMMA CallsFollow ==
  ASSUME CallsHold, NEW p \in DemoProcesses, todo[p] \in Seq(CallStep),
         NEW steps \in Seq(CallStep), todo' = [todo EXCEPT ![p] = steps],
         db'.run = db.run, confirmed' = confirmed
  PROVE  CallsHold' /\ (p = Server => ~ BeforeMoveIn' /\ ~ AfterMoveIn')
         /\ (p = Proof => (BeforeMoveIn' <=> BeforeMoveIn) /\ (AfterMoveIn' <=> AfterMoveIn))
<1>1. CallStep' = CallStep
  BY DEF CallStep, GoodKeys, Notes
<1>2. DOMAIN todo' = DemoProcesses /\ todo'[p] = steps
      /\ \A q \in DemoProcesses \ {p} : todo'[q] = todo[q]
  BY DEF CallsHold
<1>3. CASE p = Server
  <2>1. todo'[Server] \in Seq(CallStep) /\ todo'[Proof] = todo[Proof]
    BY <1>2, <1>3, CallerNames
  <2> QED BY <1>1, <1>2, <1>3, <2>1, CallIsNoReset, CallerNames DEF CallsHold
<1>4. CASE p = Proof
  <2>1. todo'[Proof] \in Seq(CallStep) /\ todo'[Server] = todo[Server]
    BY <1>2, <1>4, CallerNames
  <2>2. (BeforeMoveIn' <=> BeforeMoveIn) /\ (AfterMoveIn' <=> AfterMoveIn)
    BY <2>1 DEF BeforeMoveIn, AfterMoveIn
  <2> QED BY <1>1, <1>2, <1>4, <2>1, <2>2, CallerNames DEF CallsHold
<1> QED BY <1>3, <1>4, CallerNames

LEMMA EmptyCall == ASSUME CallsHold, NEW p \in DemoProcesses, NoCall(p) PROVE todo[p] \in Seq(CallStep)
BY EmptySeq DEF NoCall

-----------------------------------------------------------------------------
(* What a step leaves as it is.                                             *)

LEMMA NotesGrow ==
  ASSUME Notes \subseteq Notes'
  PROVE  GoodKeys \subseteq GoodKeys' /\ CallStep \subseteq CallStep'
         /\ Seq(CallStep) \subseteq Seq(CallStep')
<1>1. GoodKeys \subseteq GoodKeys'
  BY DEF GoodKeys, Keys, Runs
<1>2. CallStep \subseteq CallStep'
  BY <1>1 DEF CallStep
<1>3. \A s \in Seq(CallStep) : s \in Seq(CallStep')
  BY <1>2, SeqDef
<1> QED BY <1>1, <1>2, <1>3

LEMMA NotesStay ==
  ASSUME db'.run = db.run, confirmed' = confirmed
  PROVE  Notes' = Notes /\ GoodKeys' = GoodKeys /\ CallStep' = CallStep
BY DEF CallStep, GoodKeys, Notes

LEMMA FilesStay ==
  ASSUME FilesHold, db'.run = db.run, UNCHANGED << present, files, read, watched >>
  PROVE  FilesHold'
BY NotesStay DEF FilesHold, files, watched

LEMMA DatabaseStays == ASSUME DatabaseHolds, db' = db PROVE DatabaseHolds'
BY DEF DatabaseHolds, RestorationHasItsPlan

LEMMA IdsStay ==
  ASSUME IdsAreKnown, AfterMoveIn' => AfterMoveIn, db'.used = db.used,
         db'.accepted = db.accepted, db.inbox \union db.accepted \subseteq db'.inbox \union db'.accepted,
         lost => lost', runtime.rejected \subseteq runtime'.rejected \/ lost',
         \A kind \in Fixed : AboutToNote(kind) =>
           AboutToNote(kind)' \/ kind \in runtime'.rejected \/ lost',
         db.used \subseteq Fixed
  PROVE  IdsAreKnown'
BY DEF IdsAreKnown, IdIsKnown

LEMMA UsedAreFixed == ASSUME DatabaseHolds PROVE db.used \subseteq Fixed
BY DEF DatabaseHolds, Database

(* The Proof goes on with its call, or begins one.                          *)
LEMMA ProofKeeps ==
  ASSUME GuideInv, NEW steps \in Seq(CallStep), todo' = [todo EXCEPT ![Proof] = steps],
         UNCHANGED << present, db, read, watched, trouble >>,
         FilesHold', runtime.rejected \subseteq runtime'.rejected
  PROVE  GuideInv'
<1>1. todo[Proof] \in Seq(CallStep) /\ Proof \in DemoProcesses
  BY CallerNames DEF GuideInv, CallsHold
<1>2. /\ CallsHold' /\ (BeforeMoveIn' <=> BeforeMoveIn) /\ (AfterMoveIn' <=> AfterMoveIn)
  BY <1>1, CallsFollow DEF GuideInv, watched
<1>3. todo'[Server] = todo[Server]
  BY CallerNames DEF GuideInv, CallsHold
<1>4. \A kind : AboutToNote(kind)' <=> AboutToNote(kind)
  BY <1>3 DEF AboutToNote, NextIs, NoCall
<1>5. IdsAreKnown'
  BY <1>2, <1>4, IdsStay, UsedAreFixed DEF GuideInv, watched
<1>6. RunsArePaid'
  BY <1>2 DEF GuideInv, RunsArePaid
<1> QED BY <1>2, <1>5, <1>6, DatabaseStays DEF GuideInv

(* The server goes on with its call, or begins one, and its next step is    *)
(* not the note of a rejection.                                             *)
LEMMA ServerKeeps ==
  ASSUME GuideInv, NEW steps \in Seq(CallStep), todo' = [todo EXCEPT ![Server] = steps],
         todo[Server] \in Seq(CallStep), ~ NextIs(Server, "update"),
         DatabaseHolds', db'.run = db.run, confirmed' = confirmed, present' = present,
         trouble' \in 0 .. MaxTrouble, trouble <= trouble',
         FilesHold', runtime' = runtime, lost' = lost,
         \A kind \in db'.used : IdIsKnown(kind) => IdIsKnown(kind)',
         \A kind \in db'.used : kind \in db.used \/ kind \in db'.inbox
  PROVE  GuideInv'
<1>1. CallsHold' /\ ~ BeforeMoveIn' /\ ~ AfterMoveIn'
  BY CallsFollow, CallerNames DEF GuideInv
<1>2. RunsArePaid'
  <2>1. db.run \in Nat
    BY NoKeysAreGood DEF GuideInv
  <2> QED BY <1>1, <2>1, DemoConstants DEF GuideInv, RunsArePaid
<1>3. IdsAreKnown'
  BY <1>1 DEF GuideInv, IdsAreKnown, IdIsKnown
<1> QED BY <1>1, <1>2, <1>3 DEF GuideInv

(* With the database, its ids are as known as they were.                    *)
LEMMA IdsAreAsKnown ==
  ASSUME db' = db, runtime' = runtime, lost' = lost, ~ NextIs(Server, "update")
  PROVE  \A kind \in db'.used :
           (IdIsKnown(kind) => IdIsKnown(kind)') /\ (kind \in db.used \/ kind \in db'.inbox)
BY DEF IdIsKnown, AboutToNote

-----------------------------------------------------------------------------
(* The steps of a call.                                                     *)

LEMMA ThenFollows ==
  ASSUME GuideInv, NEW p \in DemoProcesses, NEW do \in CallNames, NextIs(p, do),
         NEW steps \in Seq(CallStep), Then(p, steps)
  PROVE  \E s \in Seq(CallStep) : todo' = [todo EXCEPT ![p] = s]
<1>1. Tail(todo[p]) \in Seq(CallStep) /\ p \in DOMAIN todo
  BY CallGoesOn DEF GuideInv, CallsHold
<1>2. steps \o Tail(todo[p]) \in Seq(CallStep)
  BY <1>1, ConcatProperties
<1> QED BY <1>1, <1>2 DEF Then

LEMMA BeginFollows ==
  ASSUME GuideInv, NEW p \in DemoProcesses, NEW steps \in Seq(CallStep), Begin(p, steps)
  PROVE  /\ todo' = [todo EXCEPT ![p] = steps] /\ present
         /\ todo[p] \in Seq(CallStep) /\ \A do : ~ NextIs(p, do)
BY EmptyCall DEF Begin, GuideInv, NextIs

LEMMA OneCall ==
  ASSUME NEW a \in CallStep
  PROVE  /\ << >> \in Seq(CallStep) /\ << a >> \in Seq(CallStep)
         /\ \A b \in CallStep : << a, b >> \in Seq(CallStep)
         /\ \A b, c \in CallStep : << a, b, c >> \in Seq(CallStep)
BY EmptySeq

LEMMA ReadKeeps == ASSUME GuideInv, NEW p \in DemoProcesses, ReadRuntime(p) PROVE GuideInv'
<1>1. read' = [read EXCEPT ![p] = [done |-> TRUE, file |-> runtime]]
      /\ UNCHANGED << present, db, runtime, request, proof, todo, lost, confirmed, trouble >>
  BY DEF ReadRuntime, files, watched
<1>2. FilesHold'
  BY <1>1, NotesStay DEF GuideInv, FilesHold
<1>3. CallsHold' /\ (BeforeMoveIn' <=> BeforeMoveIn) /\ (AfterMoveIn' <=> AfterMoveIn)
  <2>1. (BeforeMoveIn' <=> BeforeMoveIn) /\ (AfterMoveIn' <=> AfterMoveIn)
    BY <1>1 DEF BeforeMoveIn, AfterMoveIn
  <2> QED BY <1>1, <2>1, NotesStay DEF GuideInv, CallsHold
<1>4. RunsArePaid' /\ IdsAreKnown'
  <2>1. \A kind \in Fixed : AboutToNote(kind) => AboutToNote(kind)'
    BY <1>1 DEF AboutToNote, NextIs, NoCall
  <2>2. IdsAreKnown'
    BY <1>1, <1>3, <2>1, IdsStay, UsedAreFixed DEF GuideInv
  <2> QED BY <1>1, <1>3, <2>2 DEF GuideInv, RunsArePaid
<1> QED BY <1>1, <1>2, <1>3, <1>4, DatabaseStays DEF GuideInv

LEMMA MergedIsGood ==
  ASSUME NEW file \in GoodKeys, NEW keys \in GoodKeys
  PROVE  /\ Merged(file, keys) \in GoodKeys
         /\ Merged(file, keys).rejected = file.rejected \union keys.rejected
BY DEF Merged, GoodKeys, Keys

LEMMA WriteKeeps == ASSUME GuideInv, NEW p \in DemoProcesses, WriteRuntime(p) PROVE GuideInv'
<1> DEFINE file == read[p].file  keys == Head(todo[p]).keys
<1>1. /\ NextIs(p, "update") /\ Then(p, << >>)
      /\ runtime' = Merged(file, keys)
      /\ lost' = (lost \/ ~(runtime.rejected \subseteq file.rejected))
      /\ read' = [read EXCEPT ![p] = NotRead]
      /\ UNCHANGED << present, db, request, proof, confirmed, trouble >>
  BY DEF WriteRuntime
<1>2. "update" \in CallNames
  BY DEF CallNames
<1>3. PICK s \in Seq(CallStep) : todo' = [todo EXCEPT ![p] = s]
  BY <1>1, <1>2, ThenFollows, EmptySeq
<1>4. todo[p] \in Seq(CallStep) /\ Head(todo[p]) \in CallStep
  BY <1>1, <1>2, CallGoesOn DEF GuideInv
<1>5. file \in GoodKeys /\ keys \in GoodKeys
  BY <1>4 DEF GuideInv, FilesHold, CallStep
<1>6. /\ runtime' \in GoodKeys
      /\ runtime'.rejected = file.rejected \union keys.rejected
  BY <1>1, <1>5, MergedIsGood
<1>7. FilesHold'
  <2>1. NotRead \in [done : BOOLEAN, file : GoodKeys]
    BY NoKeysAreGood DEF GuideInv, NotRead
  <2>2. lost' \in BOOLEAN
    BY <1>1 DEF GuideInv, FilesHold
  <2> QED BY <1>1, <1>6, <2>1, <2>2, NotesStay DEF GuideInv, FilesHold
<1>8. CallsHold' /\ (p = Server => ~ BeforeMoveIn' /\ ~ AfterMoveIn')
      /\ (p = Proof => (BeforeMoveIn' <=> BeforeMoveIn) /\ (AfterMoveIn' <=> AfterMoveIn))
  BY <1>1, <1>3, <1>4, CallsFollow DEF GuideInv
<1>9. RunsArePaid'
  BY <1>1, <1>8, CallerNames DEF GuideInv, RunsArePaid
<1>10. IdsAreKnown'
  <2>1. ASSUME NEW kind \in Fixed, AboutToNote(kind)
        PROVE  AboutToNote(kind)' \/ kind \in runtime'.rejected \/ lost'
    <3>1. CASE p = Server
      BY <1>6, <2>1, <3>1 DEF AboutToNote
    <3>2. CASE p = Proof
      <4>1. todo'[Server] = todo[Server]
        BY <1>3, <3>2, CallerNames DEF GuideInv, CallsHold
      <4> QED BY <2>1, <4>1 DEF AboutToNote, NextIs, NoCall
    <3> QED BY <3>1, <3>2, CallerNames
  <2>2. runtime.rejected \subseteq runtime'.rejected \/ lost'
    BY <1>1, <1>6
  <2>3. (AfterMoveIn' => AfterMoveIn) /\ (lost => lost')
    BY <1>1, <1>8, CallerNames
  <2>4. db' = db
    BY <1>1
  <2> QED BY <2>1, <2>2, <2>3, <2>4, IdsStay, UsedAreFixed DEF GuideInv
<1> QED BY <1>1, <1>7, <1>8, <1>9, <1>10, DatabaseStays DEF GuideInv

LEMMA StopKeeps == ASSUME GuideInv, NEW p \in DemoProcesses, Stop(p) PROVE GuideInv'
<1>1. /\ ~ NoCall(p) /\ Meet(1) /\ todo' = [todo EXCEPT ![p] = << >>]
      /\ read' = [read EXCEPT ![p] = NotRead]
      /\ lost' = (lost \/ \E i \in DOMAIN todo[p] : todo[p][i].do = "update"
                        /\ ~(todo[p][i].keys.rejected \subseteq runtime.rejected))
      /\ UNCHANGED << present, db, runtime, request, proof, confirmed >>
  BY DEF Stop, GiveUp, files
<1>2. DOMAIN todo' = DemoProcesses /\ todo'[p] = << >>
      /\ \A q \in DemoProcesses \ {p} : todo'[q] = todo[q]
  BY <1>1 DEF GuideInv, CallsHold
<1>3. FilesHold'
  <2>1. NotRead \in [done : BOOLEAN, file : GoodKeys]
    BY NoKeysAreGood DEF GuideInv, NotRead
  <2>2. lost' \in BOOLEAN
    BY <1>1 DEF GuideInv, FilesHold
  <2> QED BY <1>1, <2>1, <2>2, NotesStay DEF GuideInv, FilesHold
<1>4. CallsHold' /\ (BeforeMoveIn' => BeforeMoveIn) /\ (AfterMoveIn' => AfterMoveIn)
  <2>1. << >> \in Seq(CallStep) /\ CallStep' = CallStep
    BY <1>1, NotesStay, EmptySeq
  <2>2. CASE p = Server
    <3>1. todo'[Server] \in Seq(CallStep) /\ todo'[Proof] = todo[Proof]
      BY <1>2, <2>1, <2>2, CallerNames
    <3> QED BY <1>2, <2>1, <3>1, CallIsNoReset DEF GuideInv, CallsHold
  <2>3. CASE p = Proof
    <3>1. todo'[Proof] \in Seq(CallStep) /\ todo'[Server] = todo[Server]
      BY <1>2, <2>1, <2>3, CallerNames
    <3> QED BY <1>2, <2>1, <3>1 DEF GuideInv, CallsHold, BeforeMoveIn, AfterMoveIn
  <2> QED BY <2>2, <2>3, CallerNames
<1>5. RunsArePaid'
  <2>1. trouble' \in 0 .. MaxTrouble /\ trouble' = trouble + 1
    BY <1>1, DemoConstants DEF Meet, GuideInv, RunsArePaid
  <2>2. db.run \in Nat /\ trouble \in Nat
    BY NoKeysAreGood, DemoConstants DEF GuideInv, RunsArePaid
  <2> QED BY <1>1, <1>4, <2>1, <2>2 DEF GuideInv, RunsArePaid
<1>6. IdsAreKnown'
  <2>1. ASSUME NEW kind \in Fixed, AboutToNote(kind)
        PROVE  AboutToNote(kind)' \/ kind \in runtime'.rejected \/ lost'
    <3>1. CASE p = Server
      <4>1. todo[Server] \in Seq(CallStep) /\ todo[Server] # << >>
            /\ Head(todo[Server]).do = "update"
        <5>1. "update" \in CallNames /\ NextIs(Server, "update")
          BY <2>1 DEF CallNames, AboutToNote
        <5> QED BY <3>1, <5>1, CallGoesOn DEF GuideInv
      <4>2. 1 \in DOMAIN todo[Server] /\ Head(todo[Server]) = todo[Server][1]
        BY <4>1, EmptySeq, LenProperties
      <4> QED BY <1>1, <2>1, <3>1, <4>1, <4>2 DEF AboutToNote
    <3>2. CASE p = Proof
      <4>1. todo'[Server] = todo[Server]
        BY <1>2, <3>2, CallerNames
      <4> QED BY <2>1, <4>1 DEF AboutToNote, NextIs, NoCall
    <3> QED BY <3>1, <3>2, CallerNames
  <2> QED BY <1>1, <1>4, <2>1, IdsStay, UsedAreFixed DEF GuideInv
<1> QED BY <1>1, <1>3, <1>4, <1>5, <1>6, DatabaseStays DEF GuideInv

(* The command.                                                             *)
LEMMA ProofStepKeeps ==
  ASSUME GuideInv, WriteRequest(Proof) \/ BuildDirect \/ CallMcp \/ WriteProof
  PROVE  GuideInv'
<1>0. {"request", "direct", "mcp", "passed", "failed"} \subseteq CallNames /\ Proof \in DemoProcesses
      /\ \A do \in CallNames : << Step(do) >> \in Seq(CallStep)
  BY OneCall, StepsAreCalls, CallerNames DEF CallNames, GuideInv
<1>1. UNCHANGED << present, db, read, watched, trouble >> /\ runtime' = runtime
  BY DEF WriteRequest, BuildDirect, CallMcp, WriteProof, files
<1>2. PICK do \in CallNames, steps \in Seq(CallStep) :
        NextIs(Proof, do) /\ (Then(Proof, steps) \/ GiveUp(Proof))
  <2>1. CASE WriteRequest(Proof)
    BY <1>0, <2>1, EmptySeq DEF WriteRequest
  <2>2. CASE BuildDirect
    BY <1>0, <2>2, EmptySeq DEF BuildDirect
  <2>3. CASE CallMcp
    BY <1>0, <2>3 DEF CallMcp
  <2>4. CASE WriteProof
    BY <1>0, <2>4, EmptySeq DEF WriteProof
  <2> QED BY <2>1, <2>2, <2>3, <2>4
<1>3. PICK s \in Seq(CallStep) : todo' = [todo EXCEPT ![Proof] = s]
  BY <1>0, <1>2, ThenFollows, EmptySeq DEF GiveUp
<1>4. FilesHold'
  <2>1. request' \in BOOLEAN /\ proof' \in {"absent", "failed", "passed"}
    BY DEF WriteRequest, BuildDirect, CallMcp, WriteProof, files, GuideInv, FilesHold
  <2> QED BY <1>1, <2>1, NotesStay DEF GuideInv, FilesHold, watched
<1> QED BY <1>1, <1>3, <1>4, ProofKeeps

LEMMA ContextIsCalls == ASSUME GuideInv PROVE ContextSteps \in Seq(CallStep)
<1>1. [NoKeys EXCEPT !.fingerprint = TRUE] \in GoodKeys
  BY NoKeysAreGood DEF GoodKeys, Keys, NoKeys, GuideInv
<1>2. /\ Step("request") \in CallStep /\ Update([NoKeys EXCEPT !.fingerprint = TRUE]) \in CallStep
      /\ Receipt \in CallStep
  BY <1>1, StepsAreCalls DEF CallNames, GuideInv
<1> QED BY <1>2, OneCall DEF ContextSteps

LEMMA RunProofKeeps == ASSUME GuideInv, RunProof PROVE GuideInv'
<1>1. UNCHANGED << present, db, files, read, watched, trouble >>
  BY DEF RunProof
<1>2. PICK steps \in Seq(CallStep) : Begin(Proof, steps)
  <2> DEFINE more == << Step("direct"), Step("mcp") >>
             first == IF request THEN << >> ELSE ContextSteps
  <2>1. more \in Seq(CallStep)
    <3>1. Step("direct") \in CallStep /\ Step("mcp") \in CallStep
      BY StepsAreCalls DEF CallNames, GuideInv
    <3> QED BY <3>1, OneCall
  <2>2. first \in Seq(CallStep)
    BY ContextIsCalls, EmptySeq
  <2> HIDE DEF more, first
  <2>3. first \o more \in Seq(CallStep)
    BY <2>1, <2>2, ConcatProperties
  <2> QED BY <2>3 DEF RunProof, more, first
<1>3. todo' = [todo EXCEPT ![Proof] = steps]
  BY <1>2, BeginFollows, CallerNames
<1>4. FilesHold'
  BY <1>1, FilesStay DEF GuideInv
<1> QED BY <1>1, <1>3, <1>4, ProofKeeps DEF files

(* The server, when it neither writes its database nor its notes.           *)
LEMMA ServerFollows ==
  ASSUME GuideInv, NEW steps \in Seq(CallStep), todo' = [todo EXCEPT ![Server] = steps],
         todo[Server] \in Seq(CallStep), ~ NextIs(Server, "update"),
         UNCHANGED << present, db, runtime, proof, read, watched >>,
         request' \in BOOLEAN, trouble' \in 0 .. MaxTrouble, trouble <= trouble'
  PROVE  GuideInv'
<1>1. FilesHold'
  BY NotesStay DEF GuideInv, FilesHold, watched
<1>2. DatabaseHolds'
  BY DatabaseStays DEF GuideInv
<1> QED BY <1>1, <1>2, IdsAreAsKnown, ServerKeeps DEF watched

LEMMA TroubleStays == ASSUME GuideInv, trouble' = trouble
                      PROVE  trouble' \in 0 .. MaxTrouble /\ trouble <= trouble'
BY DemoConstants DEF GuideInv, RunsArePaid

LEMMA SessionKeeps == ASSUME GuideInv, OpenSession \/ WriteRequest(Server) PROVE GuideInv'
<1>0. {"prepare", "resume", "submit", "resubmit", "request"} \subseteq CallNames
      /\ Server \in DemoProcesses
  BY CallerNames DEF CallNames
<1>1. UNCHANGED << present, db, runtime, proof, read, watched, trouble >> /\ request' \in BOOLEAN
  BY DEF OpenSession, WriteRequest, files, GuideInv, FilesHold
<1>2. PICK do \in CallNames \ {"update"}, steps \in Seq(CallStep) :
        NextIs(Server, do) /\ Then(Server, steps)
  <2>1. CASE WriteRequest(Server)
    BY <1>0, <2>1, EmptySeq DEF WriteRequest
  <2>2. CASE OpenSession
    <3>1. PICK do \in {"prepare", "resume"} :
            /\ NextIs(Server, do)
            /\ Then(Server, << [do |-> IF do = "prepare" THEN "submit" ELSE "resubmit",
                                keys |-> [runtime EXCEPT !.review = 0]] >>)
      BY <2>2 DEF OpenSession
    <3>2. [runtime EXCEPT !.review = 0] \in GoodKeys
      BY NoKeysAreGood DEF GuideInv, FilesHold, GoodKeys, Keys
    <3>3. [do |-> IF do = "prepare" THEN "submit" ELSE "resubmit",
           keys |-> [runtime EXCEPT !.review = 0]] \in CallStep
      BY <1>0, <3>2 DEF CallStep
    <3> QED BY <1>0, <3>1, <3>3, OneCall
  <2> QED BY <2>1, <2>2
<1>3. PICK s \in Seq(CallStep) : todo' = [todo EXCEPT ![Server] = s]
  BY <1>0, <1>2, ThenFollows
<1>4. todo[Server] \in Seq(CallStep) /\ ~ NextIs(Server, "update")
  BY <1>0, <1>2, CallGoesOn DEF GuideInv, NextIs
<1> QED BY <1>1, <1>3, <1>4, TroubleStays, ServerFollows

-----------------------------------------------------------------------------
(* The Proposals.                                                           *)

(* The kinds resumeOne may prepare; a fixed one is neither open nor         *)
(* accepted.                                                                *)
MayPrepare(d, kind) ==
  \/ kind \in Initials \ d.accepted
  \/ kind = "Relationship" /\ Initials \subseteq d.accepted /\ ~ HasDependency(d)
  \/ kind = "Successor" /\ HasDependency(d) /\ Role(d) = "Initial"
  \/ kind = "Restoration" /\ d.rollback /\ Role(d) = "Successor"

LEMMA NextMayBePrepared ==
  ASSUME NEW d
  PROVE  /\ NextArtifact(d) # Nothing =>
              NextArtifact(d) \in Kinds \ d.inbox /\ MayPrepare(d, NextArtifact(d))
         /\ \A kind \in Kinds \ d.inbox : MayPrepare(d, kind) => NextArtifact(d) # Nothing
<1> DEFINE M == { kind \in Kinds \ d.inbox :
        CASE kind \in Initials -> kind \notin d.accepted
          [] kind = "Relationship" -> Initials \subseteq d.accepted /\ ~HasDependency(d)
          [] kind = "Successor" -> HasDependency(d) /\ Role(d) = "Initial"
          [] kind = "Restoration" -> d.rollback /\ Role(d) = "Successor" }
<1>1. NextArtifact(d) = IF M = {} THEN Nothing
                        ELSE IF "identity" \in M THEN "identity"
                        ELSE IF "portal" \in M THEN "portal" ELSE CHOOSE k \in M : TRUE
  BY DEF NextArtifact
<1>2. \A kind \in Kinds \ d.inbox : kind \in M <=> MayPrepare(d, kind)
  BY DEF MayPrepare, Kinds, Initials, Fixed
<1>3. M \subseteq Kinds \ d.inbox /\ Nothing \notin Kinds
  BY DEF Kinds, Initials, Fixed, Nothing
<1> HIDE DEF M
<1>4. M # {} => NextArtifact(d) \in M
  BY <1>1
<1> QED BY <1>1, <1>2, <1>3, <1>4

LEMMA PreparedIsNew ==
  ASSUME NEW d, NEW kind, MayPrepare(d, kind)
  PROVE  kind \notin d.accepted /\ (kind = "Restoration" => d.rollback)
BY DEF MayPrepare, Role, HasDependency, Initials

LEMMA PlanKeeps == ASSUME GuideInv, CreatePlan PROVE GuideInv'
<1>1. /\ db' = [db EXCEPT !.plan = TRUE]
      /\ UNCHANGED << present, runtime, request, proof, todo, read, lost, confirmed, trouble >>
  BY DEF CreatePlan, files, watched
<1>2. /\ db' \in Database /\ db'.run = db.run /\ db'.inbox = db.inbox /\ db'.used = db.used
      /\ db'.accepted = db.accepted /\ db'.plan = TRUE
  BY <1>1 DEF GuideInv, DatabaseHolds, Database
<1>3. DatabaseHolds'
  BY <1>2 DEF GuideInv, DatabaseHolds, RestorationHasItsPlan, Database, Runs
<1>4. FilesHold'
  BY <1>1, <1>2, FilesStay DEF GuideInv, files, watched
<1>5. CallsHold' /\ (BeforeMoveIn' <=> BeforeMoveIn) /\ (AfterMoveIn' <=> AfterMoveIn)
  <2>1. (BeforeMoveIn' <=> BeforeMoveIn) /\ (AfterMoveIn' <=> AfterMoveIn)
    BY <1>1 DEF BeforeMoveIn, AfterMoveIn
  <2> QED BY <1>1, <1>2, <2>1, NotesStay DEF GuideInv, CallsHold
<1>6. IdsAreKnown'
  <2>1. \A kind \in Fixed : AboutToNote(kind) => AboutToNote(kind)'
    BY <1>1 DEF AboutToNote, NextIs, NoCall
  <2> QED BY <1>1, <1>2, <1>5, <2>1, IdsStay, UsedAreFixed DEF GuideInv
<1>7. RunsArePaid'
  BY <1>1, <1>2, <1>5 DEF GuideInv, RunsArePaid
<1> QED BY <1>3, <1>4, <1>5, <1>6, <1>7 DEF GuideInv

LEMMA SubmittedHolds ==
  ASSUME DatabaseHolds, NEW keys, NEW kind, kind = NextArtifact(db), kind # Nothing,
         ~ PlanIsDue(db), db' = Submitted(db, kind, keys)
  PROVE  /\ DatabaseHolds' /\ db'.run = db.run /\ db'.accepted = db.accepted
         /\ db'.inbox = db.inbox \union {kind}
         /\ db.used \subseteq db'.used /\ db'.used \subseteq db.used \union {kind}
<1>1. kind \in Kinds \ db.inbox /\ kind \notin db.accepted
      /\ (kind = "Restoration" => db.rollback)
  BY NextMayBePrepared, PreparedIsNew
<1>2. db \in Database
  BY DEF DatabaseHolds
<1>3. /\ db' \in Database /\ db'.run = db.run /\ db'.accepted = db.accepted
      /\ db'.inbox = db.inbox \union {kind} /\ db'.plan = db.plan
      /\ db.used \subseteq db'.used /\ db'.used \subseteq db.used \union {kind}
  BY <1>1, <1>2 DEF Submitted, Database
<1>4. kind = "Restoration" => db.plan
  BY <1>1, <1>2 DEF PlanIsDue, Database
<1>5. RestorationHasItsPlan'
  BY <1>3, <1>4 DEF DatabaseHolds, RestorationHasItsPlan
<1>6. db'.inbox \intersect db'.accepted = {}
  BY <1>1, <1>3 DEF DatabaseHolds
<1> QED BY <1>3, <1>5, <1>6 DEF DatabaseHolds, Database, Runs

LEMMA SubmitKeeps == ASSUME GuideInv, SubmitNext PROVE GuideInv'
<1> DEFINE kind == NextArtifact(db)  keys == Head(todo[Server]).keys
<1>0. {"submit", "resubmit"} \subseteq CallNames /\ Server \in DemoProcesses
  BY CallerNames DEF CallNames
<1>1. /\ AtSubmit /\ ~ PlanIsDue(db)
      /\ UNCHANGED << present, files, read, direct, watched, trouble >>
  BY DEF SubmitNext
<1>2. /\ todo[Server] \in Seq(CallStep) /\ ~ NextIs(Server, "update")
      /\ Head(todo[Server]) \in CallStep
  BY <1>0, <1>1, CallGoesOn DEF GuideInv, AtSubmit, NextIs
<1>3. \E s \in Seq(CallStep) : todo' = [todo EXCEPT ![Server] = s]
  <2>1. \E steps \in Seq(CallStep) : Then(Server, steps) \/ GiveUp(Server)
    <3>1. keys \in GoodKeys
      BY <1>2 DEF CallStep
    <3>2. << Update(keys) >> \in Seq(CallStep) /\ << >> \in Seq(CallStep)
      BY <3>1, StepsAreCalls, OneCall DEF GuideInv
    <3> QED BY <3>2 DEF SubmitNext
  <2> QED BY <1>0, <1>1, <2>1, ThenFollows, EmptySeq DEF AtSubmit, GiveUp
<1>4. /\ DatabaseHolds' /\ db'.run = db.run /\ db'.accepted = db.accepted
      /\ db.inbox \subseteq db'.inbox
      /\ \A k \in db'.used : k \in db.used \/ k \in db'.inbox
  <2>1. CASE db' = db
    BY <2>1, DatabaseStays DEF GuideInv
  <2>2. CASE db' # db
    <3>1. kind # Nothing /\ db' = Submitted(db, kind, keys)
      BY <2>2 DEF SubmitNext
    <3> HIDE DEF kind, keys
    <3>2. kind = NextArtifact(db)
      BY DEF kind
    <3> QED BY <1>1, <3>1, <3>2, SubmittedHolds DEF GuideInv
  <2> QED BY <2>1, <2>2
<1>5. \A k \in db'.used : IdIsKnown(k) => IdIsKnown(k)'
  BY <1>1, <1>2, <1>4 DEF IdIsKnown, AboutToNote, files, watched
<1>6. FilesHold'
  BY <1>1, <1>4, FilesStay DEF GuideInv
<1> QED BY <1>1, <1>2, <1>3, <1>4, <1>5, <1>6, TroubleStays, ServerKeeps DEF files, watched

-----------------------------------------------------------------------------
(* The calls of the server.                                                 *)

LEMMA ChangeHolds ==
  ASSUME DatabaseHolds, db' \in Database, db'.inbox = db.inbox, db'.accepted = db.accepted,
         db'.plan = db.plan
  PROVE  DatabaseHolds'
BY DEF DatabaseHolds, RestorationHasItsPlan, Database, Runs

(* The server goes on, or begins, and changes neither files nor Proposals.  *)
LEMMA ChangeKeeps ==
  ASSUME GuideInv, NEW steps \in Seq(CallStep), todo' = [todo EXCEPT ![Server] = steps],
         todo[Server] \in Seq(CallStep), ~ NextIs(Server, "update"),
         db' \in Database, db'.run = db.run, db'.inbox = db.inbox, db'.accepted = db.accepted,
         db'.used = db.used, db'.plan = db.plan,
         UNCHANGED << present, files, read, watched, trouble >>
  PROVE  GuideInv'
<1>1. FilesHold'
  BY FilesStay DEF GuideInv
<1>2. DatabaseHolds'
  BY ChangeHolds DEF GuideInv
<1>3. \A kind \in db'.used :
         (IdIsKnown(kind) => IdIsKnown(kind)') /\ (kind \in db.used \/ kind \in db'.inbox)
  BY DEF IdIsKnown, AboutToNote, files, watched
<1> QED BY <1>1, <1>2, <1>3, TroubleStays, ServerKeeps DEF files, watched

LEMMA AssessedChanges ==
  ASSUME DatabaseHolds, db' = Assessed(db)
  PROVE  /\ db' \in Database /\ db'.run = db.run /\ db'.inbox = db.inbox
         /\ db'.accepted = db.accepted /\ db'.used = db.used /\ db'.plan = db.plan
         /\ db'.rollback = db.rollback /\ db.assessed \subseteq db'.assessed
BY DEF DatabaseHolds, Database, Assessed, Assessment

LEMMA AssessKeeps == ASSUME GuideInv, AssessRestoration PROVE GuideInv'
<1>0. "assess" \in CallNames /\ Server \in DemoProcesses /\ << Receipt >> \in Seq(CallStep)
  BY CallerNames, StepsAreCalls, OneCall DEF CallNames, GuideInv
<1>1. /\ NextIs(Server, "assess")
      /\ UNCHANGED << present, files, read, watched, trouble >>
      /\ (db' = Assessed(db) /\ Then(Server, << Receipt >>)) \/ (db' = db /\ GiveUp(Server))
  BY DEF AssessRestoration
<1>2. todo[Server] \in Seq(CallStep) /\ ~ NextIs(Server, "update")
  BY <1>0, <1>1, CallGoesOn DEF GuideInv, NextIs
<1>3. \E s \in Seq(CallStep) : todo' = [todo EXCEPT ![Server] = s]
  BY <1>0, <1>1, ThenFollows, EmptySeq DEF GiveUp
<1>4. /\ db' \in Database /\ db'.run = db.run /\ db'.inbox = db.inbox
      /\ db'.accepted = db.accepted /\ db'.used = db.used /\ db'.plan = db.plan
  BY <1>1, AssessedChanges DEF GuideInv, DatabaseHolds
<1> QED BY <1>1, <1>2, <1>3, <1>4, ChangeKeeps

LEMMA BegunKeeps ==
  ASSUME GuideInv, Resume \/ AssessImpact \/ RecordRollback \/ BuildContextPackage
  PROVE  GuideInv'
<1>1. UNCHANGED << present, files, read, watched, trouble >>
  BY DEF Resume, AssessImpact, RecordRollback, BuildContextPackage
<1>2. PICK steps \in Seq(CallStep) : Begin(Server, steps)
  <2>1. /\ Step("resume") \in CallStep /\ Step("prepare") \in CallStep /\ Receipt \in CallStep
    BY StepsAreCalls DEF CallNames, GuideInv
  <2>2. CASE Resume
    BY <2>1, <2>2, OneCall DEF Resume
  <2>3. CASE AssessImpact
    BY <2>1, <2>3, OneCall DEF AssessImpact
  <2>4. CASE RecordRollback
    BY <2>1, <2>4, OneCall DEF RecordRollback
  <2>5. CASE BuildContextPackage
    BY <2>5, ContextIsCalls DEF BuildContextPackage
  <2> QED BY <2>2, <2>3, <2>4, <2>5
<1>3. /\ todo' = [todo EXCEPT ![Server] = steps] /\ todo[Server] \in Seq(CallStep)
      /\ ~ NextIs(Server, "update")
  BY <1>2, BeginFollows, CallerNames
<1>4. /\ db' \in Database /\ db'.run = db.run /\ db'.inbox = db.inbox
      /\ db'.accepted = db.accepted /\ db'.used = db.used /\ db'.plan = db.plan
  <2>1. db \in Database
    BY DEF GuideInv, DatabaseHolds
  <2>2. CASE AssessImpact
    BY <2>2, AssessedChanges DEF AssessImpact, GuideInv
  <2>3. CASE RecordRollback
    BY <2>1, <2>3 DEF RecordRollback, Database
  <2>4. CASE Resume \/ BuildContextPackage
    BY <2>1, <2>4 DEF Resume, BuildContextPackage
  <2> QED BY <2>2, <2>3, <2>4
<1> QED BY <1>1, <1>3, <1>4, ChangeKeeps

LEMMA Continued ==
  ASSUME NEW S, NEW s \in Seq(S), s # << >>, NEW t \in Seq(S)
  PROVE  s \o t \in Seq(S) /\ s \o t # << >> /\ Head(s \o t) = Head(s)
<1>1. Len(s) > 0 /\ Len(s) \in Nat
  BY EmptySeq, LenProperties
<1>2. /\ s \o t \in Seq(S) /\ Len(s \o t) = Len(s) + Len(t)
      /\ \A i \in 1 .. Len(s) + Len(t) :
           (s \o t)[i] = IF i <= Len(s) THEN s[i] ELSE t[i - Len(s)]
  BY ConcatProperties
<1>3. Len(t) \in Nat
  BY LenProperties
<1>4. s \o t # << >>
  BY <1>1, <1>2, <1>3
<1> QED BY <1>1, <1>2, <1>3, <1>4

LEMMA DecisionIsNoted ==
  ASSUME DatabaseHolds, NEW kind, NEW decision
  PROVE  /\ AfterDecision(kind, decision) \in Seq(CallStep)
         /\ AfterDecision(kind, decision) # << >>
         /\ Head(AfterDecision(kind, decision)) = Update(DecisionKeys(kind, decision))
<1> DEFINE a == << Update(DecisionKeys(kind, decision)) >>
           b == IF decision = "Accepted" THEN << Step("prepare") >> ELSE << >>
           c == IF decision = "Accepted" /\ kind = "Restoration" THEN << Step("assess") >> ELSE << >>
           d == << Receipt >>
<1>1. DecisionKeys(kind, decision) \in GoodKeys
  <2>1. /\ DecisionKeys(kind, decision) \in Keys
        /\ DecisionKeys(kind, decision).review = NoKeys.review
    BY NoKeysAreGood DEF DecisionKeys, NoKeys, Keys
  <2> QED BY <2>1, NoKeysAreGood DEF GoodKeys
<1>2. a \in Seq(CallStep) /\ a # << >> /\ Head(a) = Update(DecisionKeys(kind, decision))
  <2>1. Update(DecisionKeys(kind, decision)) \in CallStep
    BY <1>1, StepsAreCalls
  <2> QED BY <2>1, OneCall
<1>3. b \in Seq(CallStep) /\ c \in Seq(CallStep) /\ d \in Seq(CallStep)
  <2>1. Step("prepare") \in CallStep /\ Step("assess") \in CallStep /\ Receipt \in CallStep
    BY StepsAreCalls DEF CallNames
  <2> QED BY <2>1, OneCall
<1>4. AfterDecision(kind, decision) = ((a \o b) \o c) \o d
  BY DEF AfterDecision
<1> HIDE DEF a, b, c, d
<1>5. a \o b \in Seq(CallStep) /\ a \o b # << >> /\ Head(a \o b) = Head(a)
  BY <1>2, <1>3, Continued
<1>6. /\ (a \o b) \o c \in Seq(CallStep) /\ (a \o b) \o c # << >>
      /\ Head((a \o b) \o c) = Head(a)
  BY <1>3, <1>5, Continued
<1>7. /\ ((a \o b) \o c) \o d \in Seq(CallStep) /\ ((a \o b) \o c) \o d # << >>
      /\ Head(((a \o b) \o c) \o d) = Head(a)
  BY <1>3, <1>6, Continued
<1> QED BY <1>2, <1>4, <1>7

LEMMA ReviewKeeps ==
  ASSUME GuideInv, NEW kind \in Kinds, NEW decision \in {"Accepted", "Rejected"},
         Review(kind, decision)
  PROVE  GuideInv'
<1>1. /\ kind \in db.inbox /\ Begin(Server, AfterDecision(kind, decision))
      /\ db' = Decided(db, kind, decision) /\ Meet(IF decision = "Rejected" THEN 1 ELSE 0)
      /\ UNCHANGED << present, runtime, request, proof, read, lost, confirmed >>
  BY DEF Review, files, watched
<1>2. /\ AfterDecision(kind, decision) \in Seq(CallStep)
      /\ AfterDecision(kind, decision) # << >>
      /\ Head(AfterDecision(kind, decision)) = Update(DecisionKeys(kind, decision))
  BY DecisionIsNoted DEF GuideInv
<1>3. /\ todo' = [todo EXCEPT ![Server] = AfterDecision(kind, decision)]
      /\ todo[Server] \in Seq(CallStep) /\ ~ NextIs(Server, "update")
  BY <1>1, <1>2, BeginFollows, CallerNames
<1>4. /\ db' \in Database /\ db'.run = db.run /\ db'.used = db.used /\ db'.plan = db.plan
      /\ db'.inbox = db.inbox \ {kind}
      /\ db'.accepted = IF decision = "Accepted" THEN db.accepted \union {kind} ELSE db.accepted
  BY <1>1 DEF Decided, GuideInv, DatabaseHolds, Database
<1>5. DatabaseHolds'
  BY <1>1, <1>4 DEF GuideInv, DatabaseHolds, RestorationHasItsPlan, Database, Runs
<1>6. FilesHold'
  BY <1>1, <1>4, FilesStay DEF GuideInv, files, watched
<1>7. trouble' \in 0 .. MaxTrouble /\ trouble <= trouble'
  BY <1>1, DemoConstants DEF Meet, GuideInv, RunsArePaid
<1>8. todo'[Server] = AfterDecision(kind, decision)
  BY <1>3, CallerNames DEF GuideInv, CallsHold
<1>9. ASSUME NEW k \in db'.used, IdIsKnown(k) PROVE IdIsKnown(k)'
  <2>1. ~ AboutToNote(k)
    BY <1>3 DEF AboutToNote
  <2>2. CASE k = kind /\ decision = "Rejected"
    <3>1. k \in Fixed
      BY <1>4, UsedAreFixed DEF GuideInv
    <3>2. k \in DecisionKeys(kind, decision).rejected
      BY <2>2, <3>1 DEF DecisionKeys, NoKeys
    <3>3. /\ ~ NoCall(Server)' /\ Head(todo'[Server]).do = "update"
          /\ k \in Head(todo'[Server]).keys.rejected
      BY <1>2, <1>8, <3>2 DEF NoCall, Update
    <3> QED BY <3>3 DEF IdIsKnown, AboutToNote, NextIs
  <2>3. CASE k # kind \/ decision = "Accepted"
    BY <1>1, <1>4, <1>9, <2>1, <2>3 DEF IdIsKnown
  <2> QED BY <2>2, <2>3
<1> QED BY <1>1, <1>2, <1>3, <1>4, <1>5, <1>6, <1>7, <1>9, ServerKeeps

LEMMA ConfirmKeeps == ASSUME GuideInv, ConfirmTemporalReview PROVE GuideInv'
<1> DEFINE steps == << Update([NoKeys EXCEPT !.review = db.run]) >>
<1>1. /\ Begin(Server, steps) /\ confirmed' = db.run
      /\ UNCHANGED << present, db, runtime, request, proof, read, lost, trouble >>
  BY DEF ConfirmTemporalReview, files
<1>2. db.run \in Runs /\ db.run \in Nat
  BY NoKeysAreGood DEF GuideInv, DatabaseHolds, Database
<1>3. /\ Notes \subseteq Notes' /\ db.run \in Notes'
      /\ NoKeys \in GoodKeys'
  <2>1. Notes \subseteq Notes' /\ db.run \in Notes'
    BY <1>1, <1>2 DEF Notes
  <2> QED BY <2>1, NotesGrow, NoKeysAreGood DEF GuideInv
<1>4. GoodKeys \subseteq GoodKeys' /\ Seq(CallStep) \subseteq Seq(CallStep')
  BY <1>3, NotesGrow
<1>5. steps \in Seq(CallStep')
  <2>1. [NoKeys EXCEPT !.review = db.run] \in GoodKeys'
    BY <1>2, <1>3 DEF GoodKeys, Keys, NoKeys
  <2>2. Update([NoKeys EXCEPT !.review = db.run]) \in CallStep'
    BY <2>1 DEF Update, CallStep, CallNames
  <2> QED BY <2>2
<1>6. todo' = [todo EXCEPT ![Server] = steps] /\ NoCall(Server)
  BY <1>1 DEF Begin
<1> HIDE DEF steps
<1>7. FilesHold'
  BY <1>1, <1>3, <1>4 DEF GuideInv, FilesHold
<1>8. CallsHold' /\ ~ BeforeMoveIn' /\ ~ AfterMoveIn'
  <2>1. /\ DOMAIN todo' = DemoProcesses /\ todo'[Server] = steps /\ todo'[Proof] = todo[Proof]
    BY <1>6, CallerNames DEF GuideInv, CallsHold
  <2>2. todo'[Server] \in Seq(CallStep') /\ todo'[Proof] \in Seq(CallStep')
    BY <1>4, <1>5, <2>1 DEF GuideInv, CallsHold
  <2>3. \A n \in 1 .. 5 : todo'[Server] # AfterReset(n)
    <3>1. ASSUME NEW n \in 1 .. 5, todo'[Server] = AfterReset(n) PROVE FALSE
      <4>1. AfterReset(n) # << >> /\ Head(AfterReset(n)).do \notin CallNames
        BY NoResetIsCall
      <4>2. Head(todo'[Server]) \in CallStep'
        BY <2>2, <3>1, <4>1, HeadTailProperties
      <4> QED BY <3>1, <4>1, <4>2 DEF CallStep
    <3> QED BY <3>1
  <2> QED BY <2>1, <2>2, <2>3 DEF CallsHold, BeforeMoveIn, AfterMoveIn
<1>9. RunsArePaid'
  BY <1>1, <1>8 DEF GuideInv, RunsArePaid
<1>10. IdsAreKnown'
  <2>1. \A kind : ~ AboutToNote(kind)
    BY <1>6 DEF AboutToNote, NextIs
  <2> QED BY <1>1, <1>8, <2>1, IdsStay, UsedAreFixed DEF GuideInv
<1> QED BY <1>1, <1>7, <1>8, <1>9, <1>10, DatabaseStays DEF GuideInv

-----------------------------------------------------------------------------
(* Reset.                                                                   *)

LEMMA ResetLength == ASSUME NEW n \in 1 .. 5 PROVE Len(AfterReset(n)) = n
<1>1. /\ Len(AfterReset(1)) = 1 /\ Len(AfterReset(2)) = 2 /\ Len(AfterReset(3)) = 3
      /\ Len(AfterReset(4)) = 4 /\ Len(AfterReset(5)) = 5
  BY DEF AfterReset
<1>2. n = 1 \/ n = 2 \/ n = 3 \/ n = 4 \/ n = 5
  OBVIOUS
<1> QED BY <1>1, <1>2

LEMMA ResetsGoOn ==
  /\ ResetSteps = AfterReset(5) /\ Tail(ResetSteps) = AfterReset(4)
  /\ \A n \in 2 .. 5 : Tail(AfterReset(n)) = AfterReset(n - 1)
  /\ Tail(AfterReset(1)) = << >>
<1>1. ResetSteps = AfterReset(5) /\ Tail(AfterReset(5)) = AfterReset(4)
  BY DEF ResetSteps, AfterReset
<1>2. /\ Tail(AfterReset(4)) = AfterReset(3) /\ Tail(AfterReset(3)) = AfterReset(2)
      /\ Tail(AfterReset(2)) = AfterReset(1) /\ Tail(AfterReset(1)) = << >>
  BY DEF AfterReset
<1>3. \A n \in 2 .. 5 : Tail(AfterReset(n)) = AfterReset(n - 1)
  BY <1>1, <1>2
<1> QED BY <1>1, <1>2, <1>3

LEMMA ResetBegins == ASSUME GuideInv, Reset PROVE GuideInv'
<1>1. /\ NoCall(Server) /\ Meet(IF present THEN 1 ELSE 0)
      /\ todo' = [todo EXCEPT ![Server] = IF present THEN ResetSteps ELSE Tail(ResetSteps)]
      /\ UNCHANGED << present, db, runtime, request, proof, read, lost, confirmed >>
  BY DEF Reset, files, watched
<1>2. /\ DOMAIN todo' = DemoProcesses /\ todo'[Proof] = todo[Proof]
      /\ todo'[Server] = IF present THEN AfterReset(5) ELSE AfterReset(4)
  BY <1>1, ResetsGoOn, CallerNames DEF GuideInv, CallsHold
<1>3. BeforeMoveIn' /\ ~ AfterMoveIn'
  <2>1. PICK n \in {4, 5} : todo'[Server] = AfterReset(n)
    BY <1>2
  <2>2. Len(todo'[Server]) = n
    <3>1. n \in 1 .. 5
      OBVIOUS
    <3> QED BY <2>1, <3>1, ResetLength
  <2>3. \A m \in 1 .. 3 : AfterReset(m) # todo'[Server]
    <3>1. ASSUME NEW m \in 1 .. 3, AfterReset(m) = todo'[Server] PROVE FALSE
      <4>1. Len(AfterReset(m)) = m
        <5>1. m \in 1 .. 5
          OBVIOUS
        <5> QED BY <5>1, ResetLength
      <4> QED BY <2>2, <3>1, <4>1
    <3> QED BY <3>1
  <2> QED BY <2>1, <2>3 DEF BeforeMoveIn, AfterMoveIn
<1>4. CallsHold'
  BY <1>1, <1>2, <1>3, NotesStay DEF GuideInv, CallsHold
<1>5. FilesHold'
  BY <1>1, FilesStay DEF GuideInv, files, watched
<1>6. RunsArePaid'
  <2>1. db.run \in Nat /\ trouble \in Nat /\ MaxTrouble \in Nat
    BY NoKeysAreGood, DemoConstants DEF GuideInv, RunsArePaid
  <2>2. CASE present
    BY <1>1, <2>1, <2>2 DEF Meet, GuideInv, RunsArePaid
  <2>3. CASE ~ present
    BY <1>1, <2>1, <2>3 DEF Meet, GuideInv, RunsArePaid
  <2> QED BY <2>2, <2>3
<1>7. IdsAreKnown'
  <2>1. \A kind : ~ AboutToNote(kind)
    BY <1>1 DEF AboutToNote, NextIs
  <2> QED BY <1>1, <1>3, <2>1, IdsStay, UsedAreFixed DEF GuideInv
<1> QED BY <1>1, <1>4, <1>5, <1>6, <1>7, DatabaseStays DEF GuideInv

LEMMA SeededHolds ==
  ASSUME NEW run \in Runs, db' = Seeded(run)
  PROVE  DatabaseHolds' /\ db'.run = run /\ db'.used = {} /\ db'.accepted = {}
BY DEF Seeded, DatabaseHolds, Database, RestorationHasItsPlan, Initials, Kinds, Fixed, Runs

LEMMA ResetGoesOn ==
  ASSUME GuideInv, ResetStep
  PROVE  \E n \in 1 .. 5 :
           /\ todo[Server] = AfterReset(n) /\ Head(todo[Server]).do = Head(AfterReset(n)).do
           /\ DOMAIN todo' = DemoProcesses /\ todo'[Proof] = todo[Proof]
           /\ todo'[Server] = IF n = 1 THEN << >> ELSE AfterReset(n - 1)
<1>1. /\ todo[Server] # << >> /\ Then(Server, << >>)
      /\ Head(todo[Server]).do \in {"newRuntime", "dropRequest", "dropProof", "moveIn", "moveAway"}
  BY DEF ResetStep, Resetting, NoCall, NextIs, ResetSteps, Step
<1>2. todo[Server] \notin Seq(CallStep)
  <2>1. ASSUME todo[Server] \in Seq(CallStep) PROVE FALSE
    <3>1. Head(todo[Server]) \in CallStep
      BY <1>1, <2>1, HeadTailProperties
    <3> QED BY <1>1, <3>1 DEF CallStep, CallNames
  <2> QED BY <2>1
<1>3. PICK n \in 1 .. 5 : todo[Server] = AfterReset(n)
  BY <1>2 DEF GuideInv, CallsHold, BeforeMoveIn, AfterMoveIn
<1>4. /\ DOMAIN todo' = DemoProcesses /\ todo'[Proof] = todo[Proof]
      /\ todo'[Server] = << >> \o Tail(AfterReset(n))
  BY <1>1, <1>3, CallerNames DEF Then, GuideInv, CallsHold
<1>5. << >> \o Tail(AfterReset(n)) = IF n = 1 THEN << >> ELSE AfterReset(n - 1)
  <2>1. CASE n = 1
    BY <2>1, ResetsGoOn
  <2>2. CASE n = 2
    BY <2>2, ResetsGoOn DEF AfterReset
  <2>3. CASE n = 3
    BY <2>3, ResetsGoOn DEF AfterReset
  <2>4. CASE n = 4
    BY <2>4, ResetsGoOn DEF AfterReset
  <2>5. CASE n = 5
    BY <2>5, ResetsGoOn DEF AfterReset
  <2> QED BY <2>1, <2>2, <2>3, <2>4, <2>5
<1> QED BY <1>3, <1>4, <1>5

LEMMA ResetKeeps == ASSUME GuideInv, ResetStep PROVE GuideInv'
<1> DEFINE do == Head(todo[Server]).do
<1>1. PICK n \in 1 .. 5 :
        /\ todo[Server] = AfterReset(n) /\ do = Head(AfterReset(n)).do
        /\ DOMAIN todo' = DemoProcesses /\ todo'[Proof] = todo[Proof]
        /\ todo'[Server] = IF n = 1 THEN << >> ELSE AfterReset(n - 1)
  BY ResetGoesOn
<1>2. do = IF n = 1 THEN "newRuntime" ELSE IF n = 2 THEN "dropRequest"
           ELSE IF n = 3 THEN "dropProof" ELSE IF n = 4 THEN "moveIn" ELSE "moveAway"
  <2>1. n = 1 \/ n = 2 \/ n = 3 \/ n = 4 \/ n = 5
    OBVIOUS
  <2> QED BY <1>1, <2>1 DEF AfterReset, Step
<1>3. /\ present' = IF do = "moveAway" THEN FALSE ELSE IF do = "moveIn" THEN TRUE ELSE present
      /\ db' = IF do = "moveIn" THEN Seeded(db.run + 1) ELSE db
      /\ proof' = IF do = "dropProof" THEN "absent" ELSE proof
      /\ request' = IF do = "dropRequest" THEN FALSE ELSE request
      /\ runtime' = IF do = "newRuntime" THEN NoKeys ELSE runtime
      /\ lost' = IF do = "moveIn" THEN FALSE ELSE lost
      /\ UNCHANGED << read, confirmed, trouble >>
  BY DEF ResetStep
<1> HIDE DEF do
<1>4. /\ db.run \in Nat /\ db.run > 0 /\ trouble \in 0 .. MaxTrouble /\ MaxTrouble \in Nat
      /\ n \in {4, 5} => db.run <= trouble
      /\ NoKeys \in GoodKeys
  <2>1. n \in {4, 5} => BeforeMoveIn
    BY <1>1 DEF BeforeMoveIn
  <2> QED BY <2>1, NoKeysAreGood, DemoConstants DEF GuideInv, RunsArePaid
<1>5. /\ DatabaseHolds' /\ Notes \subseteq Notes'
      /\ n = 4 => db'.run = db.run + 1 /\ db'.used = {} /\ db'.accepted = {}
      /\ n # 4 => db' = db
  <2>1. CASE n = 4
    <3>1. db.run + 1 \in Runs /\ db' = Seeded(db.run + 1)
      BY <1>2, <1>3, <1>4, <2>1 DEF Runs
    <3>2. DatabaseHolds' /\ db'.run = db.run + 1 /\ db'.used = {} /\ db'.accepted = {}
      BY <3>1, SeededHolds
    <3> QED BY <1>4, <2>1, <3>2 DEF Notes
  <2>2. CASE n # 4
    <3>1. db' = db
      BY <1>2, <1>3, <2>2
    <3> QED BY <1>3, <2>2, <3>1, DatabaseStays, NotesStay DEF GuideInv
  <2> QED BY <2>1, <2>2
<1>6. GoodKeys \subseteq GoodKeys' /\ Seq(CallStep) \subseteq Seq(CallStep')
  BY <1>5, NotesGrow
<1>7. FilesHold'
  <2>1. /\ present' \in BOOLEAN /\ request' \in BOOLEAN /\ lost' \in BOOLEAN
        /\ proof' \in {"absent", "failed", "passed"}
    BY <1>3 DEF GuideInv, FilesHold
  <2>2. runtime' \in GoodKeys' /\ confirmed' \in Notes'
    BY <1>3, <1>4, <1>5, <1>6 DEF GuideInv, FilesHold
  <2>3. read' \in [DemoProcesses -> [done : BOOLEAN, file : GoodKeys']]
    BY <1>3, <1>6 DEF GuideInv, FilesHold
  <2> QED BY <2>1, <2>2, <2>3 DEF FilesHold
<1>8. /\ n = 5 => BeforeMoveIn'
      /\ n \in 1 .. 4 => ~ BeforeMoveIn'
      /\ n \in 2 .. 4 => AfterMoveIn'
      /\ n = 1 => todo'[Server] \in Seq(CallStep')
      /\ AfterMoveIn' => n \in 2 .. 4
  <2>1. Len(todo'[Server]) = n - 1
    <3>1. CASE n = 1
      BY <1>1, <3>1
    <3>2. CASE n \in 2 .. 5
      <4>1. n - 1 \in 1 .. 5 /\ n # 1
        BY <3>2
      <4>2. Len(AfterReset(n - 1)) = n - 1
        BY <4>1, ResetLength
      <4> QED BY <1>1, <4>1, <4>2
    <3> QED BY <3>1, <3>2
  <2>2. \A m \in 1 .. 5 : todo'[Server] = AfterReset(m) => m = n - 1
    <3>1. \A m \in 1 .. 5 : Len(AfterReset(m)) = m
      BY ResetLength
    <3> QED BY <2>1, <3>1
  <2>3. n = 1 => todo'[Server] = << >>
    BY <1>1
  <2>4. n # 1 => todo'[Server] = AfterReset(n - 1)
    BY <1>1
  <2>5. n = 1 => todo'[Server] \in Seq(CallStep')
    BY <2>3, EmptySeq
  <2>6. n = 5 => BeforeMoveIn'
    BY <2>4 DEF BeforeMoveIn
  <2>7. BeforeMoveIn' => n = 5
    BY <2>2 DEF BeforeMoveIn
  <2>8. n \in 2 .. 4 => AfterMoveIn'
    BY <2>4 DEF AfterMoveIn
  <2>9. AfterMoveIn' => n \in 2 .. 4
    <3>1. ASSUME AfterMoveIn' PROVE n \in 2 .. 4
      <4>1. PICK m \in 1 .. 3 : todo'[Server] = AfterReset(m)
        BY <3>1 DEF AfterMoveIn
      <4> QED BY <2>2, <4>1
    <3> QED BY <3>1
  <2> QED BY <2>5, <2>6, <2>7, <2>8, <2>9
<1>9. CallsHold'
  <2>1. todo'[Proof] \in Seq(CallStep')
    BY <1>1, <1>6 DEF GuideInv, CallsHold
  <2>2. todo'[Server] \in Seq(CallStep') \/ BeforeMoveIn' \/ AfterMoveIn'
    BY <1>8
  <2> QED BY <1>1, <2>1, <2>2 DEF CallsHold
<1>10. RunsArePaid'
  <2>0. /\ n = 4 => do = "moveIn"
        /\ n \in 1 .. 3 => do # "moveIn" /\ do # "moveAway"
    BY <1>2
  <2>1. trouble' = trouble /\ (n = 4 => present') /\ (n \in 1 .. 3 => present' = present)
    BY <1>3, <2>0, Zenon
  <2>2. CASE n = 5
    BY <1>4, <1>5, <2>1, <2>2 DEF RunsArePaid
  <2>3. CASE n = 4
    BY <1>4, <1>5, <1>8, <2>1, <2>3 DEF RunsArePaid
  <2>4. CASE n \in 1 .. 3
    BY <1>4, <1>5, <1>8, <2>1, <2>4 DEF RunsArePaid, GuideInv
  <2> QED BY <2>2, <2>3, <2>4
<1>11. IdsAreKnown'
  <2>1. \A kind : ~ AboutToNote(kind)
    BY <1>2 DEF AboutToNote, NextIs, do
  <2>2. CASE n = 5
    <3>1. ~ AfterMoveIn' /\ db' = db /\ lost' = lost /\ runtime' = runtime
      BY <1>2, <1>3, <1>5, <1>8, <2>2
    <3> QED BY <2>1, <3>1, IdsStay, UsedAreFixed DEF GuideInv
  <2>3. CASE n \in 1 .. 4
    <3>1. db'.used = {} /\ db'.accepted = {}
      <4>1. CASE n = 4
        BY <1>5, <4>1
      <4>2. CASE n \in 1 .. 3
        <5>1. AfterMoveIn
          BY <1>1, <4>2 DEF AfterMoveIn
        <5> QED BY <1>5, <4>2, <5>1 DEF GuideInv, IdsAreKnown
      <4> QED BY <2>3, <4>1, <4>2
    <3> QED BY <3>1 DEF IdsAreKnown
  <2> QED BY <2>2, <2>3
<1> QED BY <1>5, <1>7, <1>9, <1>10, <1>11 DEF GuideInv

-----------------------------------------------------------------------------
(* The invariant.                                                           *)

LEMMA GuideStarts == GuideInit => GuideInv
<1> SUFFICES ASSUME GuideInit PROVE GuideInv
  OBVIOUS
<1>1. db = Seeded(1) /\ 1 \in Runs
  BY DemoConstants DEF GuideInit, Runs
<1>2. DatabaseHolds /\ db.run = 1 /\ db.used = {} /\ db.accepted = {}
  BY <1>1 DEF Seeded, DatabaseHolds, Database, RestorationHasItsPlan, Initials, Kinds, Fixed, Runs
<1>3. 0 \in Notes /\ NoKeys \in GoodKeys
  BY <1>2, NoKeysAreGood
<1>4. FilesHold
  BY <1>3 DEF GuideInit, FilesHold, NotRead
<1>5. CallsHold /\ ~ BeforeMoveIn /\ ~ AfterMoveIn
  <2>1. DOMAIN todo = DemoProcesses /\ todo[Server] = << >> /\ todo[Proof] = << >>
    BY CallerNames DEF GuideInit
  <2>2. todo[Server] \in Seq(CallStep) /\ todo[Proof] \in Seq(CallStep)
    BY <2>1, EmptySeq
  <2> QED BY <2>1, <2>2, CallIsNoReset DEF CallsHold
<1>6. RunsArePaid
  BY <1>2, <1>5, DemoConstants DEF GuideInit, RunsArePaid
<1>7. IdsAreKnown
  BY <1>2 DEF IdsAreKnown
<1> QED BY <1>2, <1>4, <1>5, <1>6, <1>7 DEF GuideInv

LEMMA GuideIdles == ASSUME GuideInv, UNCHANGED guideVars PROVE GuideInv'
<1>1. UNCHANGED << present, db, runtime, request, proof, todo, read, lost, confirmed, trouble >>
  BY DEF guideVars, files, watched
<1>2. FilesHold'
  BY <1>1, FilesStay DEF GuideInv, files, watched
<1>3. CallsHold' /\ (BeforeMoveIn' <=> BeforeMoveIn) /\ (AfterMoveIn' <=> AfterMoveIn)
  <2>1. (BeforeMoveIn' <=> BeforeMoveIn) /\ (AfterMoveIn' <=> AfterMoveIn)
    BY <1>1 DEF BeforeMoveIn, AfterMoveIn
  <2> QED BY <1>1, <2>1, NotesStay DEF GuideInv, CallsHold
<1>4. \A kind : AboutToNote(kind) => AboutToNote(kind)'
  BY <1>1 DEF AboutToNote, NextIs, NoCall
<1>5. IdsAreKnown'
  BY <1>1, <1>3, <1>4, IdsStay, UsedAreFixed DEF GuideInv
<1> QED BY <1>1, <1>2, <1>3, <1>5, DatabaseStays DEF GuideInv, RunsArePaid

LEMMA GuideGoesOn == GuideInv /\ [GuideNext]_guideVars => GuideInv'
<1> SUFFICES ASSUME GuideInv, [GuideNext]_guideVars PROVE GuideInv'
  OBVIOUS
<1>1. CASE ServerStep
  BY <1>1, ReadKeeps, WriteKeeps, SessionKeeps, PlanKeeps, SubmitKeeps, AssessKeeps, ResetKeeps,
     CallerNames DEF ServerStep
<1>2. CASE ProofStep
  BY <1>2, ReadKeeps, WriteKeeps, ProofStepKeeps, CallerNames DEF ProofStep
<1>3. CASE \E p \in DemoProcesses : Stop(p)
  BY <1>3, StopKeeps
<1>4. CASE \E kind \in Kinds, decision \in {"Accepted", "Rejected"} : Review(kind, decision)
  BY <1>4, ReviewKeeps
<1>5. CASE Resume \/ AssessImpact \/ RecordRollback \/ BuildContextPackage
  BY <1>5, BegunKeeps
<1>6. CASE ConfirmTemporalReview
  BY <1>6, ConfirmKeeps
<1>7. CASE Reset
  BY <1>7, ResetBegins
<1>8. CASE RunProof
  BY <1>8, RunProofKeeps
<1>9. CASE UNCHANGED guideVars
  BY <1>9, GuideIdles
<1> QED BY <1>1, <1>2, <1>3, <1>4, <1>5, <1>6, <1>7, <1>8, <1>9 DEF GuideNext

LEMMA GuideIsInductive == GuideSpec => []GuideInv
<1>1. GuideInit => GuideInv
  BY GuideStarts
<1>2. GuideInv /\ [GuideNext]_guideVars => GuideInv'
  BY GuideGoesOn
<1> QED BY <1>1, <1>2, PTL DEF GuideSpec

LEMMA GuideTypes == ASSUME GuideInv PROVE GuideTypeOK
<1>1. db.run \in Runs /\ db.run \in Nat /\ NoKeys \in Keys
  BY NoKeysAreGood DEF GuideInv, DatabaseHolds, Database, GoodKeys
<1>2. Notes \subseteq {0} \union Runs
  <2>1. ASSUME NEW n \in Notes PROVE n \in {0} \union Runs
    BY <1>1, DemoConstants DEF Notes, Runs
  <2> QED BY <2>1
<1>3. /\ runtime \in Keys /\ confirmed \in {0} \union Runs
      /\ read \in [DemoProcesses -> [done : BOOLEAN, file : Keys]]
  BY <1>2 DEF GuideInv, FilesHold, GoodKeys
<1>4. ASSUME NEW p \in DemoProcesses, NEW i \in DOMAIN todo[p] PROVE todo[p][i].keys \in Keys
  <2>1. CASE todo[p] \in Seq(CallStep)
    <3>1. todo[p][i] \in CallStep
      BY <1>4, <2>1, ElementOfSeq, LenProperties
    <3> QED BY <3>1 DEF CallStep, GoodKeys
  <2>2. CASE todo[p] \notin Seq(CallStep)
    <3>1. PICK n \in 1 .. 5 : todo[p] = AfterReset(n)
      BY <2>2, CallerNames DEF GuideInv, CallsHold, BeforeMoveIn, AfterMoveIn
    <3>2. \A j \in DOMAIN AfterReset(n) : AfterReset(n)[j].keys = NoKeys
      BY DEF AfterReset, Step
    <3> QED BY <1>1, <1>4, <3>1, <3>2
  <2> QED BY <2>1, <2>2
<1> QED BY <1>3, <1>4 DEF GuideTypeOK, GuideInv, FilesHold, DatabaseHolds, Database

-----------------------------------------------------------------------------
(* Who follows the guide finds a Proposal with a free id.                   *)

LEMMA BothInitials ==
  ASSUME NEW S, Cardinality(Initials \intersect S) < 2
  PROVE  \E kind \in Initials : kind \notin S
<1> SUFFICES ASSUME Initials \subseteq S PROVE FALSE
  OBVIOUS
<1>1. Initials \intersect S = {"identity", "portal"}
  BY DEF Initials
<1>2. Cardinality({"identity", "portal"}) = 2
  <2>1. Cardinality({"identity"}) = 1 /\ IsFiniteSet({"identity"})
    BY FS_Singleton
  <2>2. {"identity", "portal"} = {"identity"} \union {"portal"} /\ "portal" \notin {"identity"}
    OBVIOUS
  <2> QED BY <2>1, <2>2, FS_AddElement
<1> QED BY <1>1, <1>2

LEMMA StagesAre ==
  ASSUME NEW d
  PROVE  LET stage == DeriveStage(d)
         IN /\ stage = "Prepared" => ~(Initials \subseteq d.accepted)
            /\ stage = "V1Accepted" => Initials \subseteq d.accepted /\ ~ HasDependency(d)
            /\ stage = "DependencyAccepted" => HasDependency(d) /\ Role(d) = "Initial"
            /\ stage = "RollbackRecorded" => d.rollback /\ Role(d) = "Successor"
<1>1. CASE ~(Initials \subseteq d.accepted)
  BY <1>1 DEF DeriveStage
<1>2. CASE Initials \subseteq d.accepted /\ ~ HasDependency(d)
  BY <1>2 DEF DeriveStage
<1>3. CASE Initials \subseteq d.accepted /\ HasDependency(d)
  <2>1. "identity" \in d.accepted
    BY <1>3 DEF Initials
  <2>2. CASE Role(d) = "Initial"
    BY <1>3, <2>2 DEF DeriveStage
  <2>3. CASE Role(d) = "Successor"
    BY <1>3, <2>3 DEF DeriveStage, SuccessorStage
  <2>4. CASE Role(d) = "Restoration"
    BY <1>3, <2>4 DEF DeriveStage
  <2> QED BY <2>1, <2>2, <2>3, <2>4 DEF Role
<1> QED BY <1>1, <1>2, <1>3

LEMMA InterruptedMayGoOn ==
  ASSUME Interrupted
  PROVE  \E kind \in Kinds \ db.inbox : MayPrepare(db, kind)
<1> DEFINE stage == DeriveStage(db)
<1>1. CASE stage = "Prepared"
  <2>1. PICK kind \in Initials : kind \notin db.accepted \union db.inbox
    BY <1>1, BothInitials DEF Interrupted
  <2> QED BY <2>1 DEF MayPrepare, Kinds
<1>2. CASE stage # "Prepared"
  <2>1. ~(Required(stage) \subseteq db.inbox)
    BY <1>2 DEF Interrupted
  <2>2. CASE stage = "V1Accepted"
    BY <2>1, <2>2, StagesAre DEF Required, MayPrepare, Kinds, Fixed
  <2>3. CASE stage = "DependencyAccepted"
    BY <2>1, <2>3, StagesAre DEF Required, MayPrepare, Kinds, Fixed
  <2>4. CASE stage = "RollbackRecorded"
    BY <2>1, <2>4, StagesAre DEF Required, MayPrepare, Kinds, Fixed
  <2>5. CASE stage \notin {"V1Accepted", "DependencyAccepted", "RollbackRecorded"}
    BY <2>1, <2>5 DEF Required
  <2> QED BY <2>2, <2>3, <2>4, <2>5
<1> QED BY <1>1, <1>2

LEMMA RecoveryHolds == ASSUME GuideInv PROVE RecoveryWorks
<1>1. GuideTypeOK /\ RestorationHasItsPlan
  BY GuideTypes DEF GuideInv, DatabaseHolds
<1>2. ASSUME NoCall(Server), Interrupted, ~ lost
      PROVE  NextArtifact(db) # Nothing /\ HasFreeId(db, NextArtifact(db), runtime)
  <2>1. PICK kind : kind = NextArtifact(db)
    OBVIOUS
  <2>2. /\ kind # Nothing
        /\ kind \notin db.inbox /\ kind \notin db.accepted
    BY <1>2, <2>1, InterruptedMayGoOn, NextMayBePrepared, PreparedIsNew
  <2>3. ~ AboutToNote(kind)
    BY <1>2 DEF AboutToNote, NextIs
  <2>4. kind \in db.used => kind \in runtime.rejected
    BY <1>2, <2>2, <2>3 DEF GuideInv, IdsAreKnown, IdIsKnown
  <2> QED BY <2>1, <2>2, <2>4 DEF HasFreeId
<1> QED BY <1>1, <1>2 DEF RecoveryWorks

(* Whatever the person rejects, the guide can go on: when it shows that a   *)
(* Proposal is missing, the next one may be prepared under an id that is    *)
(* free, unless a stop or the other process cost the note of a rejection    *)
(* (coordinator.ts, recoveryId and resumeOne).                              *)
THEOREM TheGuideRecovers == GuideSpec => []RecoveryWorks
<1>1. GuideInv => RecoveryWorks
  BY RecoveryHolds
<1> QED BY <1>1, GuideIsInductive, PTL

(* A complete guide was confirmed in this very run: neither an earlier run  *)
(* nor a stopped reset nor the command left the note it is derived from     *)
(* (coordinator.ts, guidedState and temporalReviewMatches).                 *)
THEOREM CompletionIsOfThisRun == GuideSpec => []CompleteIsReviewed
<1>1. GuideInv => CompleteIsReviewed
  <2> SUFFICES ASSUME GuideInv, Complete PROVE confirmed = db.run
    BY DEF CompleteIsReviewed
  <2>1. runtime.review = db.run
    BY DEF Complete, TemporalReviewComplete, TemporalReviewMatches
  <2>2. runtime.review \in Notes
    BY DEF GuideInv, FilesHold, GoodKeys
  <2> QED BY <2>1, <2>2 DEF Notes
<1> QED BY <1>1, GuideIsInductive, PTL

-----------------------------------------------------------------------------
(* The stages of one run.                                                   *)

(* The rank of the stage of a database, with this verdict beside it.        *)
RankOf(d, verdict) ==
  IF ~(Initials \subseteq d.accepted) THEN 0
  ELSE IF "Relationship" \notin d.accepted THEN 1
  ELSE IF "Restoration" \in d.accepted THEN IF verdict = "passed" THEN 7 ELSE 6
  ELSE IF "Successor" \notin d.accepted THEN 2
  ELSE IF d.rollback THEN 5 ELSE IF "v2" \in d.assessed THEN 4 ELSE 3

StageHasRank ==
  /\ Rank(DeriveStage(db)) = RankOf(db, proof)
  /\ RankOf(db, proof) = 7 => DeriveStage(db) = "Complete"
  /\ RankOf(db, proof) = 6 => DeriveStage(db) = "V3Restored"

LEMMA RankIs == StageHasRank
<1> USE DEF StageHasRank
<1>1. CASE ~(Initials \subseteq db.accepted)
  BY <1>1 DEF DeriveStage, Rank, RankOf
<1>2. CASE Initials \subseteq db.accepted /\ "Relationship" \notin db.accepted
  BY <1>2 DEF DeriveStage, Rank, RankOf, HasDependency
<1>3. CASE Initials \subseteq db.accepted /\ "Relationship" \in db.accepted
  <2>1. "identity" \in db.accepted /\ HasDependency(db)
    BY <1>3 DEF Initials, HasDependency
  <2>2. CASE "Restoration" \in db.accepted
    <3>1. DeriveStage(db) = IF proof = "passed" THEN "Complete" ELSE "V3Restored"
      BY <1>3, <2>1, <2>2 DEF DeriveStage, Role
    <3> QED BY <1>3, <2>2, <3>1 DEF Rank, RankOf
  <2>3. CASE "Restoration" \notin db.accepted /\ "Successor" \in db.accepted
    <3>1. DeriveStage(db) = SuccessorStage(db)
      BY <1>3, <2>1, <2>3 DEF DeriveStage, Role
    <3> QED BY <1>3, <2>3, <3>1 DEF Rank, RankOf, SuccessorStage
  <2>4. CASE "Restoration" \notin db.accepted /\ "Successor" \notin db.accepted
    <3>1. DeriveStage(db) = "DependencyAccepted"
      BY <1>3, <2>1, <2>4 DEF DeriveStage, Role
    <3> QED BY <1>3, <2>4, <3>1 DEF Rank, RankOf
  <2> QED BY <2>2, <2>3, <2>4
<1> QED BY <1>1, <1>2, <1>3

Grows(d, e) ==
  d.accepted \subseteq e.accepted /\ d.assessed \subseteq e.assessed /\ (d.rollback => e.rollback)

(* An action either leaves the database, or adds to it, or begins a run.    *)
LEMMA DatabaseGrows ==
  ASSUME DatabaseHolds, [GuideNext]_guideVars, db'.run = db.run PROVE Grows(db, db')
<1>1. db \in Database /\ db.run \in Nat
  BY NoKeysAreGood DEF DatabaseHolds
<1>2. CASE db' = db
  BY <1>2 DEF Grows
<1>3. CASE CreatePlan
  BY <1>1, <1>3 DEF CreatePlan, Grows, Database
<1>4. CASE SubmitNext
  <2>1. db' = db \/ \E kind, keys : db' = Submitted(db, kind, keys)
    BY <1>4 DEF SubmitNext
  <2> QED BY <1>1, <1>2, <2>1 DEF Submitted, Grows, Database
<1>5. CASE AssessRestoration \/ AssessImpact
  <2>1. db' = db \/ db' = Assessed(db)
    BY <1>5 DEF AssessRestoration, AssessImpact
  <2> QED BY <1>2, <2>1, AssessedChanges DEF Grows
<1>6. CASE \E kind \in Kinds, decision \in {"Accepted", "Rejected"} : Review(kind, decision)
  <2>1. \E kind, decision : db' = Decided(db, kind, decision)
    BY <1>6 DEF Review
  <2> QED BY <1>1, <2>1 DEF Decided, Grows, Database
<1>7. CASE RecordRollback
  BY <1>1, <1>7 DEF RecordRollback, Grows, Database
<1>8. CASE ResetStep
  <2>1. db' = db \/ db' = Seeded(db.run + 1)
    BY <1>8 DEF ResetStep
  <2> QED BY <1>1, <1>2, <2>1 DEF Seeded
<1>9. \/ db' = db \/ CreatePlan \/ SubmitNext \/ AssessRestoration \/ AssessImpact
      \/ \E kind \in Kinds, decision \in {"Accepted", "Rejected"} : Review(kind, decision)
      \/ RecordRollback \/ ResetStep
  BY DEF GuideNext, ServerStep, ProofStep, ReadRuntime, WriteRuntime, WriteRequest, OpenSession,
         BuildDirect, CallMcp, WriteProof, Stop, Resume, ConfirmTemporalReview,
         BuildContextPackage, Reset, RunProof, guideVars
<1> QED BY <1>2, <1>3, <1>4, <1>5, <1>6, <1>7, <1>8, <1>9

LEMMA RankGrows ==
  ASSUME NEW d, NEW e, Grows(d, e), NEW before, NEW after,
         after = before \/ before # "passed" \/ after = "passed"
  PROVE  RankOf(e, after) >= RankOf(d, before)
BY DEF Grows, RankOf

(* The file of the proof is written by the command, and dropped by a reset  *)
(* before anything of the story happened.                                   *)
LEMMA ProofMoves ==
  ASSUME GuideInv, [GuideNext]_guideVars, proof' # proof
  PROVE  /\ db' = db
         /\ \/ proof' = "passed"
            \/ proof' = "failed" /\ NextIs(Proof, "failed")
            \/ proof' = "absent" /\ db.accepted = {}
<1>1. CASE WriteProof
  BY <1>1 DEF WriteProof
<1>2. CASE ResetStep
  <2>1. Head(todo[Server]).do = "dropProof" /\ db' = db /\ proof' = "absent"
    BY <1>2 DEF ResetStep
  <2>2. PICK n \in 1 .. 5 : todo[Server] = AfterReset(n) /\ Head(AfterReset(n)).do = "dropProof"
    BY <1>2, <2>1, ResetGoesOn
  <2>3. n = 3
    <3>1. n = 1 \/ n = 2 \/ n = 3 \/ n = 4 \/ n = 5
      OBVIOUS
    <3> QED BY <2>2, <3>1 DEF AfterReset, Step
  <2>4. AfterMoveIn
    BY <2>2, <2>3 DEF AfterMoveIn
  <2> QED BY <2>1, <2>4 DEF GuideInv, IdsAreKnown
<1>3. WriteProof \/ ResetStep
  BY DEF GuideNext, ServerStep, ProofStep, ReadRuntime, WriteRuntime, WriteRequest, OpenSession,
         CreatePlan, SubmitNext, AssessRestoration, AssessImpact, Review, RecordRollback,
         BuildDirect, CallMcp, Stop, Resume, ConfirmTemporalReview,
         BuildContextPackage, Reset, RunProof, guideVars, files
<1> QED BY <1>1, <1>2, <1>3

(* Within a run the guide never goes back to an earlier stage, in whatever  *)
(* order its calls come, but for one: a proof command that was overtaken    *)
(* writes that it failed, and a complete guide is back at V3Restored        *)
(* (coordinator.ts, deriveStage; mcp-proof-cli.ts).                         *)
THEOREM TheGuideMovesForward == GuideSpec => StageMovesForward
<1>0. StageHasRank /\ StageHasRank'
  BY RankIs, PTL
<1>1. GuideInv /\ [GuideNext]_guideVars
        => [db'.run = db.run => \/ Rank(DeriveStage(db)') >= Rank(DeriveStage(db))
                                \/ ProofIsTakenBack]_guideVars
  <2> SUFFICES ASSUME GuideInv, [GuideNext]_guideVars, db'.run = db.run
               PROVE  \/ Rank(DeriveStage(db)') >= Rank(DeriveStage(db))
                      \/ ProofIsTakenBack
    OBVIOUS
  <2>1. Grows(db, db')
    BY DatabaseGrows DEF GuideInv
  <2>2. CASE proof' = proof \/ proof # "passed" \/ proof' = "passed"
    <3>1. RankOf(db', proof') >= RankOf(db, proof)
      BY <2>1, <2>2, RankGrows
    <3> QED BY <1>0, <3>1 DEF StageHasRank
  <2>3. CASE proof' # proof /\ proof = "passed" /\ proof' # "passed"
    <3>1. db' = db /\ (NextIs(Proof, "failed") \/ db.accepted = {})
      BY <2>3, ProofMoves
    <3>2. CASE RankOf(db, proof) = 7
      <4>1. Initials \subseteq db.accepted /\ RankOf(db, proof') = 6
        BY <2>3, <3>2 DEF RankOf
      <4>2. NextIs(Proof, "failed")
        BY <3>1, <4>1 DEF Initials
      <4> QED BY <1>0, <3>1, <3>2, <4>1, <4>2 DEF StageHasRank, ProofIsTakenBack
    <3>3. CASE RankOf(db, proof) # 7
      <4>1. RankOf(db, proof') = RankOf(db, proof) /\ RankOf(db, proof) \in Nat
        BY <2>3, <3>3 DEF RankOf
      <4> QED BY <1>0, <3>1, <4>1 DEF StageHasRank
    <3> QED BY <3>2, <3>3
  <2> QED BY <2>2, <2>3
<1> QED BY <1>1, GuideIsInductive, PTL DEF GuideSpec, StageMovesForward

=============================================================================
