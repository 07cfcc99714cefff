-------------------------- MODULE MCPlannedKnowledge --------------------------
(* A small instance of PlannedKnowledge for TLC: a plan is created without  *)
(* links, and a behaviour has links or a second reviewer, never both.       *)
EXTENDS PlannedKnowledge

CONSTANT Second     (* the reviewer who joins where there are no links      *)

Rows(rows) == {rows[i] : i \in DOMAIN rows}

SecondSeen ==
  \/ calls[Second] # Idle
  \/ \E r \in Rows(revisions) \union Rows(proposals) : r.author = Second
  \/ \E d \in decisions : d.reviewer = Second

LinksSeen ==
  \/ \E r \in Rows(revisions) \union Rows(proposals) : r.state.links # {}
  \/ \E a \in Actors :
       calls[a].links \union calls[a].changes.add \union calls[a].changes.remove # {}

Bounded ==
  /\ revisions # << >> => revisions[1].state.links = {}
  /\ ~(SecondSeen /\ LinksSeen)

MCSpec == Init /\ [][Next /\ Bounded']_vars
=============================================================================
