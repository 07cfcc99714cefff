--------------------------- MODULE MCWorkspaceExport ---------------------------
(***************************************************************************)
(* Two installed programs, the older of which does not know plan           *)
(* revisions; a plan with a link of its own and a revision.  The older     *)
(* stands for any program that meets a migration of a later version.       *)
(***************************************************************************)
EXTENDS WorkspaceExport

CONSTANTS old, new

MCPrograms == {old, new}
MCVersion == [p \in MCPrograms |-> IF p = old THEN 1 ELSE 4]
MCRows == {"plan", "link", "revision"}
MCIn == [r \in MCRows |-> CASE r = "plan" -> "plans" [] r = "link" -> "planLinks"
                            [] r = "revision" -> "planRevisions"]
MCNeeds == [r \in MCRows |-> IF r = "plan" THEN {} ELSE {"plan"}]
=============================================================================
