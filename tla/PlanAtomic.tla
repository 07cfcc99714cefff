----------------------------- MODULE PlanAtomic -----------------------------
(***************************************************************************)
(* What callers of PlannedKnowledgeService are promised (docs/adr/ADR-006, *)
(* sections 1 and 2): a change is made from the effective revision, and a  *)
(* review decides on the effective revision, in one indivisible step.      *)
(***************************************************************************)
EXTENDS PlanStore

Revise(actor, changes) ==
  LET next == ApplyChanges(EffectiveState, changes) IN
  /\ revisions # << >>
  /\ DiffStates(EffectiveState, next) # {}
  /\ AppendRevision(actor, Effective, EffectiveState, next)

Review(reviewer, p, decision) ==
  /\ reviewer \in Reviewers
  /\ decision = "Accepted" => StaleFields(p, EffectiveState) = {}
  /\ RecordDecision(reviewer, p, decision, Effective, EffectiveState)

AtomicNext ==
  \E actor \in Actors :
    \/ \E state \in PlanState : InsertPlan(actor, state)
    \/ \E changes \in Changes : Revise(actor, changes)
    \/ \E p \in 1 .. Len(proposals), decision \in {"Accepted", "Rejected"} :
         Review(actor, p, decision)

AtomicSpec == StoreInit /\ [][AtomicNext]_store
=============================================================================
