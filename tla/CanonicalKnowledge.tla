------------------------- MODULE CanonicalKnowledge -------------------------
(***************************************************************************)
(* What the knowledge lifecycle promises to its readers, with no Proposal, *)
(* no review and no table in sight (docs/adr/ADR-002, Temporal             *)
(* representation; docs/implementation/MILESTONE-2.md, Lifecycle rules):   *)
(* a Node has canonical knowledge in one scope only; its accepted          *)
(* Revisions form one chain, which only ever grows at its head, one        *)
(* Revision at a time; Current is the head.                                *)
(***************************************************************************)
EXTENDS Naturals

CONSTANTS Nodes, Scopes

VARIABLES
  head,       (* the Current Revision of a Node in a scope, 0 for none      *)
  lineage,    (* the accepted Revisions of a Node in a scope                *)
  succeeds    (* pairs: a Revision and the one it directly succeeds         *)

canonVars == << head, lineage, succeeds >>

CanonInit ==
  /\ head = [n \in Nodes |-> [s \in Scopes |-> 0]]
  /\ lineage = [n \in Nodes |-> [s \in Scopes |-> {}]]
  /\ succeeds = {}

(* Revision r becomes the head of the chain of Node n in scope s; the first *)
(* Revision of a Node settles its scope.                                    *)
Extend(n, s, r) ==
  /\ r # 0 /\ \A m \in Nodes, t \in Scopes : r \notin lineage[m][t]
  /\ head[n][s] = 0 => \A t \in Scopes : head[n][t] = 0
  /\ head' = [head EXCEPT ![n][s] = r]
  /\ lineage' = [lineage EXCEPT ![n][s] = @ \union {r}]
  /\ succeeds' = succeeds \union (IF head[n][s] = 0 THEN {} ELSE {<< r, head[n][s] >>})

(* Any fresh id will do: the one the step puts into head.                   *)
CanonNext == \E n \in Nodes, s \in Scopes : Extend(n, s, head'[n][s])

CanonSpec == CanonInit /\ [][CanonNext]_canonVars
=============================================================================
