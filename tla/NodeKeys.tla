------------------------------ MODULE NodeKeys ------------------------------
(***************************************************************************)
(* Immutable Node keys (packages/core/src/node-keys.ts over                *)
(* packages/sqlite/src/node-keys.ts), as the CLI commands `propose new     *)
(* --key` and `node key` use them, beside the lifecycle they key.          *)
(*                                                                         *)
(* A command is a process of its own on the shared database: it loads a    *)
(* directory of the workspace, `propose new` submits a Proposal, the       *)
(* service reads what the Node id stands for (nodeKeyTarget) and decides   *)
(* whether the actor may key it, and only then a transaction assigns the   *)
(* key.  Other commands run between any two of these steps, and the        *)
(* process can be killed between them.                                     *)
(*                                                                         *)
(* One Project is modelled: every query filters on it.  A key stands for   *)
(* its normalized (lower-case) form.                                       *)
(***************************************************************************)
EXTENDS Lifecycle

CONSTANTS
  Actors,         (* who runs the commands                                  *)
  Reviewers,      (* the human reviewers of workspace.json                  *)
  Keys            (* normalized keys                                        *)

ASSUME ReviewersAreActors == Reviewers \subseteq Actors

VARIABLES
  keys,           (* knowledge_node_keys                                    *)
  job             (* the command each actor is running                      *)

keyVars == << keys, job >>
allVars == << vars, keyVars >>

NodeKey == [key : Keys, node : Nodes, by : Actors]
Stages == {"idle", "proposing", "submitted", "checked"}
Idle == [at |-> "idle"]

Taken(k) == \E r \in keys : r.key = k
Keyed(n) == \E r \in keys : r.node = n

(* The policy the CLI gives the service: a reviewer, never an agent.        *)
MayDecide(a) == a \in Reviewers

(* nodeKeyTarget: a Node, or the reserved id of a pending Proposal.         *)
NodeKeyTarget(n) ==
  IF n \in nodes THEN "Node"
  ELSE IF \E p \in ProposalIds : proposals[p].node = n /\ proposals[p].status = "Submitted"
       THEN "PendingProposal" ELSE "none"

-----------------------------------------------------------------------------
KeysInit == Init /\ keys = {} /\ job = [a \in Actors |-> Idle]

Goto(a, next) == job' = [job EXCEPT ![a] = next]

(* `propose new --key`: refused when the directory just loaded has the key. *)
ProposeNew(a, k) ==
  /\ job[a] = Idle
  /\ ~ Taken(k)
  /\ Goto(a, [at |-> "proposing", key |-> k])
  /\ UNCHANGED << vars, keys >>

(* Its Proposal, for a freshly reserved Node id.                            *)
SubmitKeyed(a, n, s) ==
  /\ job[a].at = "proposing"
  /\ \A p \in ProposalIds : proposals[p].node # n
  /\ SubmitInitial(n, s)
  /\ Goto(a, [at |-> "submitted", key |-> job[a].key, node |-> n])
  /\ UNCHANGED keys

(* `node key`: the directory resolves accepted Nodes only.                  *)
KeyNode(a, k, n) ==
  /\ job[a] = Idle
  /\ n \in nodes
  /\ Goto(a, [at |-> "submitted", key |-> k, node |-> n])
  /\ UNCHANGED << vars, keys >>

(* The service reads the target and applies the policy; a refusal ends the  *)
(* command, with the Proposal of `propose new` already submitted.           *)
CheckTarget(a) ==
  LET j == job[a]  target == NodeKeyTarget(j.node) IN
  /\ j.at = "submitted"
  /\ Goto(a, IF target = "none" \/ (target = "Node" /\ ~ MayDecide(a)) THEN Idle
             ELSE [at |-> "checked", key |-> j.key, node |-> j.node])
  /\ UNCHANGED << vars, keys >>

(* Mutant of AssignNodeKey: the transaction trusts the earlier look at the  *)
(* keys (INSERT OR REPLACE).                                                *)
ReplaceNodeKey(a) ==
  LET j == job[a] IN
  /\ j.at = "checked"
  /\ Goto(a, Idle)
  /\ keys' = {r \in keys : r.key # j.key /\ r.node # j.node}
                \union {[key |-> j.key, node |-> j.node, by |-> a]}
  /\ UNCHANGED vars

(* Mutant of AssignNodeKey: neither test is repeated in the transaction.    *)
AssignUnchecked(a) ==
  LET j == job[a] IN
  /\ j.at = "checked"
  /\ Goto(a, Idle)
  /\ keys' = keys \union {[key |-> j.key, node |-> j.node, by |-> a]}
  /\ UNCHANGED vars

(* The transaction: both the key and the Node must be free.                 *)
AssignNodeKey(a) ==
  LET j == job[a] IN
  /\ j.at = "checked"
  /\ Goto(a, Idle)
  /\ keys' = IF Taken(j.key) \/ Keyed(j.node) THEN keys
             ELSE keys \union {[key |-> j.key, node |-> j.node, by |-> a]}
  /\ UNCHANGED vars

(* The process ends early: killed, or SQLite refused to answer.             *)
Abort(a) == job[a] # Idle /\ Goto(a, Idle) /\ UNCHANGED << vars, keys >>

Command(a) ==
  \/ \E k \in Keys : ProposeNew(a, k)
  \/ \E n \in Nodes, s \in Scopes : SubmitKeyed(a, n, s)
  \/ \E k \in Keys, n \in Nodes : KeyNode(a, k, n)
  \/ CheckTarget(a)
  \/ AssignNodeKey(a)
  \/ Abort(a)

KeysNext ==
  \/ \E a \in Actors : Command(a)
  \/ Review /\ UNCHANGED keyVars

KeysSpec == KeysInit /\ [][KeysNext]_allVars
-----------------------------------------------------------------------------
(* Properties.                                                             *)

(* Keys and commands have their shapes, and the rows the constraints of     *)
(* migration 006: PRIMARY KEY (project, key), UNIQUE (node_id).             *)
KeysTypeOK ==
  /\ keys \subseteq NodeKey
  /\ \A r, q \in keys : r.key = q.key \/ r.node = q.node => r = q
  /\ \A a \in Actors : job[a].at \in Stages

(* Whatever commands race, a key is assigned for good: it never moves to    *)
(* another Node or actor, and a Node never changes its key or has two.      *)
KeysArePermanent == [][KeysTypeOK' /\ keys \subseteq keys']_allVars
=============================================================================
