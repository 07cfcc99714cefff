--------------------------- MODULE MissionAtomic ---------------------------
(***************************************************************************)
(* What callers of MissionService are promised: every operation reads the  *)
(* Mission, decides and records in one indivisible step                    *)
(* (docs/implementation/MISSION-API.md, Operations).                       *)
(***************************************************************************)
EXTENDS MissionStore

Operate(actor, call) ==
  /\ row.state # "absent"
  /\ Allowed(call, actor, row, RequestOf(row))
  /\ ApplyMissionChange(call, actor, row, RequestOf(row))

AtomicNext ==
  \E actor \in Actors :
    InsertMission(actor) \/ \E call \in Calls : Operate(actor, call)

AtomicSpec == StoreInit /\ [][AtomicNext]_store
=============================================================================
