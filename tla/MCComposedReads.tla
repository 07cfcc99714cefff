---------------------------- MODULE MCComposedReads ----------------------------
(***************************************************************************)
(* What is put together from several SELECTs, as TLC checks it: reports of *)
(* a dependency between two projects, and backups.  A behaviour has one of *)
(* the two, since they do not touch.                                       *)
(***************************************************************************)
EXTENDS CrossProjectImpact, MCWorkspaceExport

VARIABLE composed   (* what is read in this behaviour                       *)

MCVars == << vars, exportVars, composed >>

(* What does not take part keeps one of its initial states.                *)
MCInit ==
  /\ Init /\ ExportInit
  /\ \/ composed = "report" /\ schema = Version[new]
     \/ composed = "backup" /\ current = [e \in Endpoints |-> 0]

MCNext ==
  /\ \/ composed = "report" /\ Next /\ UNCHANGED exportVars
     \/ composed = "backup" /\ ExportNext /\ UNCHANGED vars
  /\ UNCHANGED composed

MCSpec == MCInit /\ [][MCNext]_MCVars
=============================================================================
