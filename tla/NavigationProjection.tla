------------------------- MODULE NavigationProjection -------------------------
(***************************************************************************)
(* The navigation projection of one project and scope                      *)
(* (packages/sqlite/src/navigation.ts, navigation-cross-project.ts and     *)
(* packages/core/src/navigation.ts), rebuilt by every write command of the *)
(* CLI (withWrite of packages/cli/src/commands.ts) and read by show map.   *)
(*                                                                         *)
(* A map is built by a series of SELECTs outside any transaction: another  *)
(* process can commit between any two of them, so what is built need not   *)
(* be the state of the database at any moment.  A reader builds the map    *)
(* anew, compares its fingerprints with those of the active generation,    *)
(* and shows the persisted map when its content is fresh, the one it has   *)
(* just built otherwise.                                                   *)
(*                                                                         *)
(* One relationship with another project stands for all, in either         *)
(* direction.  Spaces and Collections, names, previews, evidence counts    *)
(* (immutable), warnings other than a Node without Current, and the audit  *)
(* events of the projection itself, which no fingerprint covers, are left  *)
(* out.                                                                    *)
(***************************************************************************)
EXTENDS Naturals, FiniteSets

CONSTANTS
  Nodes,          (* the Nodes the project may get                          *)
  Local,          (* the Node at this project's end of the relationship     *)
  Plans,          (* plans of other projects that may relate to this one    *)
  Processes,      (* CLI processes and readers                              *)
  MaxWrites       (* bound on the commits to what the projection shows      *)

ASSUME NavigationConstants == Local \in Nodes /\ IsFiniteSet(Plans) /\ MaxWrites \in Nat

VARIABLES
  canon,          (* what the database holds                                *)
  active,         (* the active generation, empty before the first rebuild  *)
  failure,        (* last_failure of the projection state                   *)
  process,        (* what each process is doing                             *)
  writes          (* how many commits there were                            *)

vars == << canon, active, failure, process, writes >>

-----------------------------------------------------------------------------
(* The database.                                                           *)

Plan == [related : BOOLEAN, revision : Nat]

(* `revision` counts the accepted Revisions of a Node in the map's scope,   *)
(* the last of which is its Current; a Node of another scope has none.      *)
(* `other` counts those at the other end of the relationship, `judged` has  *)
(* the assessments: the Revisions at both ends, and which one it was.       *)
Canon ==
  [nodes : SUBSET Nodes, revision : [Nodes -> Nat], plans : [Plans -> Plan],
   other : Nat, judged : SUBSET ((Nat \X Nat) \X Nat), audits : Nat]

(* The project with the accepted relationship, as a map is first built.     *)
Empty ==
  [nodes |-> {Local}, revision |-> [n \in Nodes |-> IF n = Local THEN 1 ELSE 0],
   plans |-> [q \in Plans |-> [related |-> FALSE, revision |-> 0]],
   other |-> 1, judged |-> {}, audits |-> 0]

(* planned_knowledge_effective: the related plans with their latest revision.*)
Related(plans) == [q \in {x \in Plans : plans[x].related} |-> plans[q].revision]

(* The Currents at both ends of the relationship, and the assessments of a  *)
(* pair of Revisions, of which the map shows the last.                      *)
Ends(d) == << d.revision[Local], d.other >>
Judged(d, ends) == {a \in d.judged : a[1] = ends}

(* The commits that change what is shown.  What another project does leaves *)
(* no audit event in this one, except for an assessment.  What a plan is    *)
(* related to may be set anew, or removed.                                  *)
AcceptInitial(n, d) ==
  [d EXCEPT !.nodes = @ \union {n}, !.revision[n] = 1, !.audits = @ + 1]
AcceptElsewhere(n, d) == [d EXCEPT !.nodes = @ \union {n}, !.audits = @ + 1]
AcceptSuccessor(n, d) == [d EXCEPT !.revision[n] = @ + 1, !.audits = @ + 1]
MoveOther(d) == [d EXCEPT !.other = @ + 1]
AssessPair(ends, d) ==
  [d EXCEPT !.judged = @ \union {<< ends, d.audits >>}, !.audits = @ + 1]
RevisePlan(q, related, d) ==
  [d EXCEPT !.plans[q] = [related |-> related, revision |-> @.revision + 1]]

(* An assessment's consumer is Current, its provider may be any Revision.   *)
Assessable(d) ==
  {ends \in (1 .. d.revision[Local]) \X (1 .. d.other) :
     ends[1] = d.revision[Local] \/ ends[2] = d.other}

Commits(d) ==
  {AcceptInitial(n, d) : n \in Nodes \ d.nodes}
    \union {AcceptElsewhere(n, d) : n \in Nodes \ d.nodes}
    \union {AcceptSuccessor(n, d) : n \in {x \in d.nodes : d.revision[x] > 0}}
    \union {MoveOther(d)}
    \union {AssessPair(ends, d) : ends \in Assessable(d)}
    \union {RevisePlan(q, TRUE, d) : q \in Plans}
    \union {RevisePlan(q, FALSE, d) : q \in {x \in Plans : d.plans[x].related}}

-----------------------------------------------------------------------------
(* Building a map.                                                         *)

(* Mutant of Statements: the Nodes are looked up after their Revisions.     *)
RevisionsFirst ==
  << "revision", "nodes", "audits", "plans", "ends", "judged", "count", "last" >>

(* The SELECTs of build, in the code's order; "judged" asks for the pair of *)
(* Currents just read, "count" is the second look at the related plans,     *)
(* "last" the second at the audit events.                                   *)
Statements == << "nodes", "revision", "audits", "plans", "ends", "judged", "count", "last" >>
Names == {"nodes", "revision", "audits", "plans", "ends", "judged", "count", "last"}

Select(name, m) ==
  CASE name = "nodes"    -> canon.nodes
    [] name = "revision" -> canon.revision
    [] name = "audits"   -> canon.audits
    [] name = "plans"    -> Related(canon.plans)
    [] name = "ends"     -> Ends(canon)
    [] name = "judged"   -> Judged(canon, m.ends)
    [] name = "count"    -> Cardinality(DOMAIN Related(canon.plans))
    [] name = "last"     -> canon.audits

Unread == [name \in Names |-> {}]

(* A map that was built while nothing changed.                              *)
MapOf(d) ==
  [nodes |-> d.nodes, revision |-> d.revision, audits |-> d.audits,
   plans |-> Related(d.plans), ends |-> Ends(d), judged |-> Judged(d, Ends(d)),
   count |-> Cardinality(DOMAIN Related(d.plans)), last |-> d.audits]

(* Mutant of Content: the Revisions are left to the activity.               *)
ContentWithoutRevisions(m) == << m.nodes, m.plans, m.ends >>

(* What the content fingerprint covers.                                     *)
Content(m) == << m.nodes, m.revision, m.plans, m.ends >>

(* What the activity fingerprint covers.                                    *)
Activity(m) == << m.audits, m.judged >>

(* SemanticOrphan: a Node on the map without a Current Revision.            *)
Orphans(m) == {n \in m.nodes : m.revision[n] = 0}

-----------------------------------------------------------------------------
Idle == [at |-> "idle"]
NoGeneration == [persisted |-> FALSE]

Init ==
  /\ canon = Empty
  /\ active = NoGeneration
  /\ failure = FALSE
  /\ process = [p \in Processes |-> Idle]
  /\ writes = 0

Goto(p, next) == process' = [process EXCEPT ![p] = next]

Never == "never"

(* `since` is no part of the code: the database as it was when a map that   *)
(* is to be shown was asked for.                                            *)
Build(why, since) ==
  [at |-> "build", why |-> why, done |-> 0, map |-> Unread, since |-> since]

Commit ==
  /\ writes < MaxWrites
  /\ canon' \in Commits(canon)
  /\ writes' = writes + 1

(* A write of the app, or of a CLI command that ends before its rebuild.    *)
WriteElsewhere ==
  /\ Commit
  /\ UNCHANGED << active, failure, process >>

(* withWrite: the command's write, after which the projection is rebuilt.   *)
(* What it wrote may be shown nowhere: a plan's revision that was proposed, *)
(* or the rejection of one.                                                 *)
WriteCommand(p) ==
  /\ process[p] = Idle
  /\ Commit \/ UNCHANGED << canon, writes >>
  /\ Goto(p, Build("rebuild", Never))
  /\ UNCHANGED << active, failure >>

(* getProjectMap.                                                           *)
ShowMap(p) ==
  /\ process[p] = Idle
  /\ Goto(p, Build("read", canon))
  /\ UNCHANGED << canon, active, failure, writes >>

(* One SELECT of build.                                                     *)
SelectNext(p) ==
  LET j == process[p]
      name == Statements[j.done + 1]
  IN
  /\ j.at = "build" /\ j.done < 8
  /\ Goto(p, [j EXCEPT !.done = @ + 1, !.map = [@ EXCEPT ![name] = Select(name, j.map)]])
  /\ UNCHANGED << canon, active, failure, writes >>

Built(p) == process[p].at = "build" /\ process[p].done = 8

(* rebuildNavigationProjection in one transaction: the generation with its  *)
(* entries is written and becomes the active one; the map is then resolved. *)
SwitchGeneration(p) ==
  /\ Built(p) /\ process[p].why = "rebuild"
  /\ active' = [persisted |-> TRUE, map |-> process[p].map]
  /\ failure' = FALSE
  /\ Goto(p, Build("read", canon))
  /\ UNCHANGED << canon, writes >>

(* The transaction fails: the active generation stays and the failure is    *)
(* recorded.                                                                *)
RebuildFails(p) ==
  /\ Built(p) /\ process[p].why = "rebuild"
  /\ failure' = TRUE
  /\ Goto(p, Idle)
  /\ UNCHANGED << canon, active, writes >>

(* Mutant of Shown: the persisted map is shown while its activity is fresh. *)
ShownWhileQuiet(built) ==
  IF active.persisted /\ Activity(active.map) = Activity(built) THEN active.map ELSE built

(* The map shown: the persisted one when its content is fresh, with the     *)
(* last activity of the built one when its activity is stale.               *)
Shown(built) ==
  IF active.persisted /\ Content(active.map) = Content(built)
  THEN [active.map EXCEPT !.last = IF Activity(active.map) = Activity(built)
                                   THEN @ ELSE built.last]
  ELSE built

Fresh(persisted, fingerprintsAgree) ==
  IF ~ persisted THEN "Missing" ELSE IF fingerprintsAgree THEN "Fresh" ELSE "Stale"

(* resolve: the active generation is read after the map was built.          *)
Resolve(p) ==
  LET built == process[p].map IN
  /\ Built(p) /\ process[p].why = "read"
  /\ Goto(p, [at |-> "shown", map |-> Shown(built), since |-> process[p].since,
              activity |-> Fresh(active.persisted,
                                 active.persisted /\ Activity(active.map) = Activity(built))])
  /\ UNCHANGED << canon, active, failure, writes >>

(* The output is printed; or the process is stopped wherever it is.         *)
End(p) ==
  /\ process[p] # Idle
  /\ Goto(p, Idle)
  /\ UNCHANGED << canon, active, failure, writes >>

Next ==
  \/ WriteElsewhere
  \/ \E p \in Processes :
       \/ WriteCommand(p) \/ ShowMap(p) \/ SelectNext(p) \/ SwitchGeneration(p)
       \/ RebuildFails(p) \/ Resolve(p) \/ End(p)

Spec == Init /\ [][Next]_vars

-----------------------------------------------------------------------------
(* Properties.                                                             *)

(* A Node with a Current is a Node of the project, a plan that was never    *)
(* revised is related to nothing, and what processes and the active         *)
(* generation hold are maps.                                                *)
TypeOK ==
  /\ canon \in Canon
  /\ {n \in Nodes : canon.revision[n] > 0} \subseteq canon.nodes
  /\ \A q \in Plans : canon.plans[q].related => canon.plans[q].revision > 0
  /\ active = NoGeneration \/ DOMAIN active.map = Names
  /\ failure \in BOOLEAN
  /\ \A p \in Processes : process[p].at \in {"idle", "build", "shown"}

(* The Nodes accepted in another scope, which the map lists as orphans.     *)
Elsewhere(d) == {n \in d.nodes : d.revision[n] = 0}

(* However torn a build is, no map and no generation announces an orphan    *)
(* that the database does not have: a Node on the map has the Current it    *)
(* was accepted with.                                                       *)
NoPhantomOrphans ==
  /\ TypeOK
  /\ active.persisted => Orphans(active.map) \subseteq Elsewhere(canon)
  /\ \A p \in Processes :
       process[p].at = "shown" => Orphans(process[p].map) \subseteq Elsewhere(canon)

(* Whatever generation is active, old or built in pieces, a map shows at    *)
(* least what was there when it was asked for: every Node, its Revision,    *)
(* the Currents at both ends of the relationship, and the last activity;    *)
(* plans that were related then and are unchanged since are counted, and    *)
(* assessments it does not show are announced by a stale activity.          *)
MapsAreRecent ==
  \A p \in Processes : process[p].at = "shown" =>
    LET m == process[p].map  since == process[p].since IN
    /\ since.nodes \subseteq m.nodes
    /\ \A n \in since.nodes : m.revision[n] >= since.revision[n]
    /\ m.ends[1] >= since.revision[Local] /\ m.ends[2] >= since.other
    /\ m.last >= since.audits
    /\ Cardinality({q \in Plans : since.plans[q].related /\ canon.plans[q] = since.plans[q]})
         <= m.count
    /\ process[p].activity = "Fresh" /\ m.ends = Ends(since)
         => Judged(since, m.ends) \subseteq m.judged

(* However old or torn the generation is that a map is taken from, each of  *)
(* its parts is at least as new as the moment the map was asked for, and it *)
(* reports no orphan that is none.  It may still combine parts of different *)
(* moments.                                                                 *)
MapsAreSound == NoPhantomOrphans /\ MapsAreRecent

(* A map that was asked for and shown while nothing was written shows the   *)
(* database as it is, with two exceptions: assessments may wait for the     *)
(* next rebuild, unless the map is announced as fresh, and the count of     *)
(* plans, which no fingerprint covers, may still include plans that were    *)
(* related once, whatever is announced.                                     *)
QuietMapIsExact ==
  \A p \in Processes : process[p].at = "shown" /\ process[p].since = canon =>
    LET m == process[p].map IN
    /\ [m EXCEPT !.audits = canon.audits, !.judged = Judged(canon, Ends(canon)),
                  !.count = Cardinality(DOMAIN Related(canon.plans))] = MapOf(canon)
    /\ m.count \in Cardinality(DOMAIN Related(canon.plans))
                      .. Cardinality({q \in Plans : canon.plans[q].revision > 0})
    /\ process[p].activity = "Fresh" => [MapOf(canon) EXCEPT !.count = m.count] = m

(* Such a map counts the plans that are related now (ADR-002:87: a stale    *)
(* projection presents nothing superseded as current).  The code does not   *)
(* keep this: NavigationTorn.cfg shows how.                                 *)
QuietCountIsExact ==
  \A p \in Processes : process[p].at = "shown" /\ process[p].since = canon =>
    process[p].map.count = Cardinality(DOMAIN Related(canon.plans))
=============================================================================
