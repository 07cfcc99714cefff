----------------------------- MODULE MCLifecycle -----------------------------
(***************************************************************************)
(* The lifecycle and who works beside it, as TLC checks them: alone in its *)
(* full bounds, under a History read in several statements, and under      *)
(* commands that assign Node keys.  A behaviour chooses once; the writers  *)
(* of Lifecycle run in all three, within smaller bounds where somebody     *)
(* reads beside them.                                                      *)
(***************************************************************************)
EXTENDS KnowledgeHistory, NodeKeys, FiniteSets, TLC

VARIABLE beside    (* who works beside the writers of Lifecycle             *)

MCVars == << vars, reader, keyVars, beside >>

MCInit ==
  /\ HistoryInit
  /\ keys = {} /\ job = [a \in Actors |-> Idle]
  /\ beside \in {"nobody", "reader", "commands"}

(* One place and one client under a reader; two Proposals, and no client    *)
(* that revises, under the commands.                                        *)
Places == {[node |-> proposals[p].node, scope |-> proposals[p].scope] : p \in ProposalIds}
Reading == {c \in Clients : seen[c] # 0}

Bounded ==
  CASE beside = "nobody" -> TRUE
    [] beside = "reader" -> Cardinality(Places) <= 1 /\ Cardinality(Reading) <= 1
    [] beside = "commands" ->
         /\ Len(proposals) <= 2 /\ Reading = {} /\ rollbacks = << >>
         /\ Cardinality({place0.scope : place0 \in Places}) <= 1

MCNext ==
  /\ \/ beside = "reader" /\ HistoryRead /\ UNCHANGED keyVars
     \/ beside = "commands" /\ (\E a \in Actors : Command(a)) /\ UNCHANGED reader
     \/ Next /\ UNCHANGED << reader, keyVars >>
  /\ UNCHANGED beside
  /\ Bounded'

MCSpec == MCInit /\ [][MCNext]_MCVars

Symmetry ==
  Permutations(Nodes) \union Permutations(Scopes) \union Permutations(Clients)
    \union Permutations(Keys)
=============================================================================
