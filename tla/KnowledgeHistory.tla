-------------------------- MODULE KnowledgeHistory --------------------------
(***************************************************************************)
(* getKnowledgeHistory of the store (packages/sqlite/src/adapter.ts) while *)
(* other processes write.  The reader takes no transaction: the Current    *)
(* pointer, the list of accepted Revisions and every entry are statements  *)
(* of their own, and the CLI, the app and the MCP server open the same     *)
(* database, so a review can commit between any two of them.               *)
(*                                                                         *)
(* A relationship that leaves a Revision is written with the Revision, so  *)
(* the walk from Current finds what it would find at any later moment and  *)
(* is one step; relationships that reach a Revision come later, so each    *)
(* entry is a step.                                                        *)
(***************************************************************************)
EXTENDS Lifecycle

VARIABLES
  step,           (* where the call is: its next statement                  *)
  place,          (* the Node and scope asked for                           *)
  head,           (* the Current revision the call started from             *)
  listed,         (* the accepted Revisions the call has listed             *)
  entries,        (* entries built so far: a Revision and what it is called *)
  answer          (* how the last call ended                                *)

reader == << step, place, head, listed, entries, answer >>

Answers == {"None", "NotFound", "History", "InvalidLineageError"}
Classifications == {"CurrentCanonical", "Historical", "Superseded", "Reverted",
                    "RestorationSource"}

HistoryInit ==
  /\ Init
  /\ step = "idle"
  /\ place \in [node : Nodes, scope : Scopes]
  /\ head = 0
  /\ listed = {}
  /\ entries = {}
  /\ answer = "None"

(* getCurrentKnowledge of the call; without a Current it answers null.      *)
StartHistory(n, s) ==
  /\ step = "idle"
  /\ place' = [node |-> n, scope |-> s]
  /\ head' = current[n][s]
  /\ listed' = {} /\ entries' = {}
  /\ IF current[n][s] = 0
     THEN step' = "idle" /\ answer' = "NotFound"
     ELSE step' = "list" /\ answer' = "None"
  /\ UNCHANGED vars

(* The query for the accepted Revisions.                                    *)
ListAccepted ==
  /\ step = "list"
  /\ listed' = Accepted(place.node, place.scope)
  /\ step' = "walk"
  /\ UNCHANGED << place, head, entries, answer, vars >>

(* The walk along DirectPredecessor, and the comparison with the list.      *)
Walk ==
  /\ step = "walk"
  /\ IF Lineage(head) = listed
     THEN step' = "entries" /\ answer' = answer
     ELSE step' = "idle" /\ answer' = "InvalidLineageError"
  /\ UNCHANGED << place, head, listed, entries, vars >>

(* Mutant of Classify: the entry is compared with the live Current pointer  *)
(* instead of the one the call started from.                                *)
ClassifyLive(r, types) ==
  {IF r = current[place.node][place.scope] THEN "CurrentCanonical" ELSE "Historical"}
    \union (IF "Supersedes" \in types THEN {"Superseded"} ELSE {})
    \union (IF "Reverts" \in types THEN {"Reverted"} ELSE {})
    \union (IF "RestoredFrom" \in types THEN {"RestorationSource"} ELSE {})

(* What an entry is called, given the relationships that reach it.          *)
Classify(r, types) ==
  {IF r = head THEN "CurrentCanonical" ELSE "Historical"}
    \union (IF "Supersedes" \in types THEN {"Superseded"} ELSE {})
    \union (IF "Reverts" \in types THEN {"Reverted"} ELSE {})
    \union (IF "RestoredFrom" \in types THEN {"RestorationSource"} ELSE {})

(* historyEntry for the oldest Revision that has no entry yet; ids grow     *)
(* along the lineage, so the oldest is the least.                           *)
BuildEntry ==
  LET missing == listed \ {e.revision : e \in entries} IN
  /\ step = "entries"
  /\ \E r \in missing :
       /\ \A q \in missing : r <= q
       /\ entries' = entries \union
            {[revision |-> r,
              called |-> Classify(r, {e.type : e \in {d \in relationships : d.to = r}})]}
       /\ IF missing = {r}
          THEN step' = "idle" /\ answer' = "History"
          ELSE step' = step /\ answer' = answer
  /\ UNCHANGED << place, head, listed, vars >>

HistoryRead ==
  \/ \E n \in Nodes, s \in Scopes : StartHistory(n, s)
  \/ ListAccepted
  \/ Walk
  \/ BuildEntry

HistoryNext == HistoryRead \/ (Next /\ UNCHANGED reader)

HistorySpec == HistoryInit /\ [][HistoryNext]_<< vars, reader >>
-----------------------------------------------------------------------------
(* The reader's local variables; an answer is about what the call listed.   *)
HistoryTypeOK ==
  /\ step \in {"idle", "list", "walk", "entries"}
  /\ place \in [node : Nodes, scope : Scopes]
  /\ head \in RevisionIds \union {0}
  /\ listed \subseteq RevisionIds
  /\ entries \subseteq [revision : listed, called : SUBSET Classifications]
  /\ answer \in Answers

(* However reviews interleave with the call, a History that is answered is  *)
(* one lineage with exactly one entry called CurrentCanonical, its end, and *)
(* every entry before it is called Historical and Superseded; what the call *)
(* holds on its way is about what it listed.                                *)
HistoryHasOneCurrent ==
  /\ HistoryTypeOK
  /\ answer = "History" =>
       /\ {e.revision : e \in entries} = Lineage(head)
       /\ \A e \in entries :
            IF e.revision = head
            THEN "CurrentCanonical" \in e.called
            ELSE {"Historical", "Superseded"} \subseteq e.called
       /\ \A e, f \in entries :
            "CurrentCanonical" \in e.called /\ "CurrentCanonical" \in f.called => e = f

(* docs/implementation/LIFECYCLE-API.md: "`InvalidLineageError`: accepted   *)
(* Revisions do not form one complete acyclic lineage."  The answer is only *)
(* given when that is so of the place asked for.                            *)
RefusedOnlyWhenBroken ==
  answer = "InvalidLineageError" =>
    Lineage(current[place.node][place.scope]) # Accepted(place.node, place.scope)
=============================================================================
