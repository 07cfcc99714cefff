-------------------------------- MODULE MCSetup --------------------------------
(***************************************************************************)
(* The setup of the app as TLC checks it: Xora's runtime and the first     *)
(* steps.  A behaviour has one of the two, since they share no state; no   *)
(* action that is fair can happen before the runtime is launched.          *)
(***************************************************************************)
EXTENDS XoraRuntime, FirstSteps

VARIABLE part       (* what happens in this behaviour                       *)

MCVars == << vars, stepVars, part >>

MCInit == Init /\ StepsInit /\ part \in {"runtime", "steps"}

MCNext ==
  /\ \/ part = "runtime" /\ Next /\ UNCHANGED stepVars
     \/ part = "steps" /\ StepsNext /\ UNCHANGED vars
  /\ UNCHANGED part

MCSpec == MCInit /\ [][MCNext]_MCVars /\ WF_vars(Starting) /\ WF_vars(Exited)
=============================================================================
