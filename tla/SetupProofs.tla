----------------------------- MODULE SetupProofs -----------------------------
(***************************************************************************)
(* Safety of the app's setup: of Xora's runtime for every time limit and   *)
(* any number of launches, and of the first steps for any number of        *)
(* actions, interruptions and repetitions.  That a start ends (StartEnds)  *)
(* rests on fairness and stays with TLC.                                   *)
(***************************************************************************)
EXTENDS XoraRuntime, FirstSteps, FiniteSetTheorems, SequenceTheorems, TLAPS

-----------------------------------------------------------------------------
(* Xora's runtime.                                                          *)

(* start() waits for a free port only in a session that may start a runtime *)
(* and has none; a runtime that runs is the child of this session, and its  *)
(* start was not given up.                                                  *)
Held ==
  /\ at \in {"start", "port"} => runtime = "none"
  /\ at = "port" => mode = "managed" /\ lastStart \in {"none", "ready"}
  /\ runtime = "running" => up /\ child /\ mode = "managed" /\ lastStart # "timeout"

RuntimeInv == TypeOK /\ Held

LEMMA TypesStay == ASSUME TypeOK, [Next]_vars PROVE TypeOK'
<1> USE RuntimeConstants DEF TypeOK, Modes, States, Results, Reasons, Places, session, status,
        process, Set, ScriptMode, Record, Finish, StopChild
<1>1. CASE Launch
  <2>1. polls' \in 0 .. MaxPolls
    BY <1>1 DEF Launch
  <2> QED  BY <1>1, <2>1 DEF Launch
<1>2. CASE EditSettings  BY <1>2 DEF EditSettings
<1>3. CASE Start  BY <1>3 DEF Start
<1>4. CASE Spawn \/ PortFails \/ SpawnThrows  BY <1>4 DEF Spawn, PortFails, SpawnThrows
<1>5. CASE Ask \/ Ready \/ RecordThrows  BY <1>5 DEF Ask, Ready, RecordThrows
<1>6. CASE TimedOut \/ NotYet \/ Wake
  <2>1. polls' \in 0 .. MaxPolls
    BY <1>6 DEF TimedOut, NotYet, Wake
  <2>2. CASE TimedOut  BY <2>1, <2>2 DEF TimedOut
  <2>3. CASE NotYet \/ Wake  BY <2>1, <2>3 DEF NotYet, Wake
  <2> QED  BY <1>6, <2>2, <2>3
<1>7. CASE RuntimeDies \/ Exited \/ ExitedThrows  BY <1>7 DEF RuntimeDies, Exited, ExitedThrows
<1>8. CASE AnswerFails \/ Quit  BY <1>8 DEF AnswerFails, Quit
<1>9. CASE UNCHANGED vars  BY <1>9 DEF vars
<1> QED  BY <1>1, <1>2, <1>3, <1>4, <1>5, <1>6, <1>7, <1>8, <1>9 DEF Next, Starting

LEMMA HeldStays == ASSUME TypeOK, Held, [Next]_vars PROVE Held'
<1> USE DEF TypeOK, Held, session, status, process
<1>1. CASE Launch  BY <1>1 DEF Launch
<1>2. CASE EditSettings  BY <1>2 DEF EditSettings
<1>3. CASE Start  BY <1>3 DEF Start, Finish, FailedBefore, Record
<1>4. CASE Spawn \/ PortFails \/ SpawnThrows  BY <1>4 DEF Spawn, PortFails, SpawnThrows
<1>5. CASE Ask \/ Ready \/ RecordThrows  BY <1>5 DEF Ask, Ready, RecordThrows, Record
<1>6. CASE TimedOut  BY <1>6 DEF TimedOut, StopChild, Finish, Record
<1>7. CASE NotYet \/ Wake  BY <1>7 DEF NotYet, Wake
<1>8. CASE RuntimeDies  BY <1>8 DEF RuntimeDies
<1>9. CASE Exited \/ ExitedThrows  BY <1>9 DEF Exited, ExitedThrows, Record
<1>10. CASE AnswerFails  BY <1>10 DEF AnswerFails
<1>11. CASE Quit  BY <1>11 DEF Quit, StopChild
<1>12. CASE UNCHANGED vars  BY <1>12 DEF vars
<1> QED  BY <1>1, <1>2, <1>3, <1>4, <1>5, <1>6, <1>7, <1>8, <1>9, <1>10, <1>11, <1>12
         DEF Next, Starting

LEMMA RuntimeInvHolds == Spec => []RuntimeInv
<1>1. Init => RuntimeInv
  <2> SUFFICES ASSUME Init PROVE RuntimeInv
    OBVIOUS
  <2>1. polls \in 0 .. MaxPolls
    BY RuntimeConstants DEF Init
  <2>2. TypeOK
    BY <2>1, Zenon DEF Init, TypeOK, Modes, States, Results, Reasons, Places
  <2> QED  BY <2>2 DEF Init, RuntimeInv, Held
<1>2. RuntimeInv /\ [Next]_vars => RuntimeInv'
  BY TypesStay, HeldStays DEF RuntimeInv
<1> QED  BY <1>1, <1>2, PTL DEF Spec

(* The llama-server the app started never runs on after the session ended   *)
(* or start() gave up on it, in whatever order the poll, the time limit,    *)
(* its exit and a signal come; but while the session goes on, giving up     *)
(* counts when it could be recorded.                                        *)
THEOREM RuntimesAreNotLost == Spec => []NoRuntimeIsLost
<1>1. RuntimeInv => NoRuntimeIsLost
  BY DEF RuntimeInv, Held, NoRuntimeIsLost
<1> QED  BY <1>1, RuntimeInvHolds, PTL

(* A start whose failure is on record is not repeated until the person      *)
(* edits the settings, in any number of launches.                           *)
THEOREM FailuresAreNotRetried == Spec => NoRetryAfterFailure
<1>1. ASSUME RuntimeInv, [Next]_vars, up, mode \in {"managed", "attached"},
             lastStart \notin {"none", "ready"}, state' = "starting"
      PROVE  state = "starting"
  <2> USE <1>1 DEF RuntimeInv, Held, Set, ScriptMode, Finish, status
  <2>1. CASE Launch \/ EditSettings  BY <2>1 DEF Launch, EditSettings
  <2>2. CASE Start  BY <2>2 DEF Start, FailedBefore
  <2>3. CASE Spawn \/ PortFails \/ SpawnThrows  BY <2>3 DEF Spawn, PortFails, SpawnThrows
  <2>4. CASE Ask \/ Ready \/ RecordThrows  BY <2>4 DEF Ask, Ready, RecordThrows
  <2>5. CASE TimedOut \/ NotYet \/ Wake  BY <2>5 DEF TimedOut, NotYet, Wake
  <2>6. CASE RuntimeDies \/ Exited \/ ExitedThrows  BY <2>6 DEF RuntimeDies, Exited, ExitedThrows
  <2>7. CASE AnswerFails \/ Quit  BY <2>7 DEF AnswerFails, Quit
  <2>8. CASE UNCHANGED vars  BY <2>8 DEF vars
  <2> QED  BY <2>1, <2>2, <2>3, <2>4, <2>5, <2>6, <2>7, <2>8 DEF Next, Starting
<1>2. RuntimeInv /\ [Next]_vars =>
        [(up /\ mode \in {"managed", "attached"} /\ lastStart \notin {"none", "ready"})
           => (state' = "starting" => state = "starting")]_vars
  BY <1>1
<1> QED  BY <1>2, RuntimeInvHolds, PTL DEF Spec, NoRetryAfterFailure

-----------------------------------------------------------------------------
(* The first steps.  The invariant counts the rows whose id neither the     *)
(* settings file nor the run knows: a step that creates a row adds none, as *)
(* the run knows its id until it is saved, and only a run that stops        *)
(* between the two adds one.                                                *)

FirstMission == [state : MissionStates, answered : BOOLEAN, outcome : Nat]
GoalProposal == [evidence : Nat, status : {"Submitted", "Accepted", "Rejected"}]
RunRecord ==
  [at : DOMAIN After, unsaved : Nat, mission : Nat, state : MissionStates \union {"none"},
   loaded : [completed : BOOLEAN, dismissed : BOOLEAN]]

StepTables ==
  /\ StepsTypeOK
  /\ rows \in [Plain -> Nat]
  /\ missions \in Seq(FirstMission) /\ evidence \in Seq(Nat) /\ proposals \in Seq(GoalProposal)
  /\ queue \in Seq(Kinds) /\ tears \in Nat

(* The rows of a kind, and those of them the setup still has a use for: all *)
(* but the Missions that were cancelled.                                    *)
Made(i) ==
  CASE i \in Plain     -> rows[i]
    [] i = "mission"   -> Len(missions)
    [] i = "evidence"  -> Len(evidence)
    [] i = "proposal"  -> Len(proposals)

IsUsed(i, id) == i = "mission" => missions[id].state # "cancelled"
Used(i) == {id \in 1 .. Made(i) : IsUsed(i, id)}

(* What the run under way may rely on.                                      *)
RunHolds(r) ==
  /\ r \in RunRecord
  /\ r.mission <= Len(missions)
  /\ r.unsaved # 0 => /\ r.at \in Items /\ r.unsaved = Made(r.at)
                      /\ r.at = "mission" => r.mission = r.unsaved
                      /\ r.at # "mission" => settings[r.at] = 0
  /\ r.at = "mission" /\ (r.mission = 0 \/ r.unsaved # 0) => CurrentMission = 0
  /\ r.at \notin {"project", "collection", "mission"} \union Spaces => r.mission # 0
  /\ r.at \in {"resume", "proposal"} => settings["evidence"] # 0
  /\ r.at = "complete" => settings["proposal"] # 0

(* The ids known of a step, in the settings file or to the run; the rows    *)
(* whose id nobody knows.                                                   *)
Known(i) == {settings[i]} \union (IF run.at = i THEN {run.unsaved} ELSE {})
LostRows == [i \in Items |-> Used(i) \ Known(i)]

CountAll(l) ==
  Cardinality(l["project"]) + Cardinality(l["collection"]) + Cardinality(l["source"])
    + Cardinality(l["space1"]) + Cardinality(l["space2"]) + Cardinality(l["space3"])
    + Cardinality(l["mission"]) + Cardinality(l["evidence"]) + Cardinality(l["proposal"])

RunIsSound == run = Idle \/ RunHolds(run)

StepsInv == StepTables /\ RunIsSound /\ CountAll(LostRows) <= tears

-----------------------------------------------------------------------------
(* The order of the steps.                                                  *)
AllSteps == Items \union {"start", "wait", "resume", "complete", "review"}

LEMMA StepsAreOrdered ==
  /\ DOMAIN After = AllSteps
  /\ \A s \in AllSteps : After[s] \in AllSteps \union {"idle"}
  /\ \A s \in AllSteps : After[s] # "mission" /\ After[s] # "source"
  /\ \A s \in AllSteps : After[s] \in {"resume", "proposal"} => s \in {"evidence", "resume"}
  /\ \A s \in AllSteps : After[s] = "complete" => s = "proposal"
  /\ \A s \in AllSteps :
       After[s] \in AllSteps \ ({"project", "collection"} \union Spaces) =>
         s \notin {"project", "collection"} \union Spaces
  /\ "idle" \notin AllSteps
BY DEF AllSteps, After, Items, Plain, Spaces

LEMMA RecordMoves ==
  ASSUME NEW r \in RunRecord, After[r.at] # "idle"
  PROVE  /\ [r EXCEPT !.at = After[r.at], !.unsaved = 0] \in RunRecord
         /\ [r EXCEPT !.at = After[r.at], !.unsaved = 0].at = After[r.at]
         /\ [r EXCEPT !.at = After[r.at], !.unsaved = 0].unsaved = 0
         /\ [r EXCEPT !.at = After[r.at], !.unsaved = 0].mission = r.mission
<1>1. r.at \in DOMAIN After /\ After[r.at] \in DOMAIN After
  BY StepsAreOrdered DEF RunRecord
<1> QED BY <1>1 DEF RunRecord

(* GoOn keeps the run sound when what its next steps rely on is there.      *)
LEMMA RunGoesOn ==
  ASSUME RunHolds(run), NEW r \in RunRecord, GoOn(r), r.at = run.at, r.mission <= Len(missions'),
         Len(missions') \in Nat,
         run.at \notin {"project", "collection"} \union Spaces => r.mission # 0,
         \A i \in Items : settings[i] # 0 => settings'[i] # 0,
         run.at = "evidence" => settings'["evidence"] # 0,
         run.at = "proposal" => settings'["proposal"] # 0
  PROVE  RunIsSound'
<1>0. r.at \in AllSteps
  BY StepsAreOrdered DEF RunRecord
<1>1. CASE After[r.at] = "idle"
  BY <1>1 DEF GoOn, RunIsSound
<1>2. CASE After[r.at] # "idle"
  <2> DEFINE q == [r EXCEPT !.at = After[r.at], !.unsaved = 0]
  <2>1. q \in RunRecord /\ q.at = After[r.at] /\ q.unsaved = 0 /\ q.mission = r.mission
    BY <1>2, RecordMoves
  <2>2. run' = q
    BY <1>2 DEF GoOn
  <2> HIDE DEF q
  <2>3. q.at \in AllSteps /\ q.at # "mission" /\ q.at # "source"
    BY <1>0, <1>2, <2>1, StepsAreOrdered
  <2>4. q.at \in {"resume", "proposal"} => settings'["evidence"] # 0
    <3>1. "evidence" \in Items
      BY DEF Items
    <3> QED BY <1>0, <2>1, <3>1, StepsAreOrdered DEF RunHolds
  <2>5. q.at = "complete" => settings'["proposal"] # 0
    BY <1>0, <2>1, StepsAreOrdered
  <2>6. q.at \notin {"project", "collection", "mission"} \union Spaces => q.mission # 0
    BY <1>0, <2>1, <2>3, StepsAreOrdered
  <2>7. RunHolds(q)'
    BY <2>1, <2>3, <2>4, <2>5, <2>6 DEF RunHolds
  <2> QED BY <2>2, <2>7 DEF RunIsSound
<1> QED BY <1>1, <1>2

-----------------------------------------------------------------------------
(* Counting the rows whose id is lost.                                      *)

LEMMA SmallerSet ==
  ASSUME NEW S, IsFiniteSet(S), NEW T, T \subseteq S
  PROVE  IsFiniteSet(T) /\ Cardinality(T) \in Nat /\ Cardinality(S) \in Nat
         /\ Cardinality(T) <= Cardinality(S)
BY FS_Subset, FS_CardinalityType

LEMMA OneMore ==
  ASSUME NEW S, IsFiniteSet(S), NEW x, NEW T, T \subseteq S \union {x}
  PROVE  IsFiniteSet(T) /\ Cardinality(T) \in Nat /\ Cardinality(S) \in Nat
         /\ Cardinality(T) <= Cardinality(S) + 1
<1>1. IsFiniteSet(S \union {x}) /\ Cardinality(S \union {x}) <= Cardinality(S) + 1
      /\ Cardinality(S) \in Nat
  BY FS_AddElement, FS_CardinalityType
<1>2. IsFiniteSet(T) /\ Cardinality(T) \in Nat /\ Cardinality(S \union {x}) \in Nat
      /\ Cardinality(T) <= Cardinality(S \union {x})
  BY <1>1, SmallerSet
<1> QED BY <1>1, <1>2

LEMMA CountsStay ==
  ASSUME NEW l, \A i \in Items : IsFiniteSet(l[i]),
         NEW m, \A i \in Items : m[i] \subseteq l[i]
  PROVE  CountAll(m) \in Nat /\ CountAll(m) <= CountAll(l)
<1>1. \A i \in Items : Cardinality(m[i]) \in Nat /\ Cardinality(l[i]) \in Nat
                       /\ Cardinality(m[i]) <= Cardinality(l[i])
  BY SmallerSet
<1>2. {"project", "collection", "source", "space1", "space2", "space3", "mission",
       "evidence", "proposal"} \subseteq Items
  BY DEF Items, Plain, Spaces
<1> QED BY <1>1, <1>2 DEF CountAll

LEMMA OneIsLost ==
  ASSUME NEW l, \A i \in Items : IsFiniteSet(l[i]),
         NEW k \in Items, NEW x,
         NEW m, \A i \in Items \ {k} : m[i] \subseteq l[i], m[k] \subseteq l[k] \union {x}
  PROVE  CountAll(m) <= CountAll(l) + 1
<1>1. \A i \in Items \ {k} :
        /\ Cardinality(m[i]) \in Nat /\ Cardinality(l[i]) \in Nat
        /\ Cardinality(m[i]) <= Cardinality(l[i])
  BY SmallerSet
<1>2. /\ Cardinality(m[k]) \in Nat /\ Cardinality(l[k]) \in Nat
      /\ Cardinality(m[k]) <= Cardinality(l[k]) + 1
  BY OneMore
<1>3. Items = {"project", "collection", "source", "space1", "space2", "space3", "mission",
               "evidence", "proposal"}
  BY DEF Items, Plain, Spaces
<1> QED BY <1>1, <1>2, <1>3 DEF CountAll

LEMMA MadeIsNat == ASSUME StepTables, NEW i \in Items PROVE Made(i) \in Nat
<1>1. /\ Len(missions) \in Nat /\ Len(evidence) \in Nat /\ Len(proposals) \in Nat
  BY LenProperties DEF StepTables
<1> QED BY <1>1 DEF Made, Items, StepTables

LEMMA LostAreFinite == ASSUME StepTables PROVE \A i \in Items : IsFiniteSet(LostRows[i])
<1> SUFFICES ASSUME NEW i \in Items PROVE IsFiniteSet(LostRows[i])
  OBVIOUS
<1>1. IsFiniteSet(1 .. Made(i))
  BY MadeIsNat, FS_Interval
<1>2. LostRows[i] \subseteq 1 .. Made(i)
  BY DEF LostRows, Used
<1> QED BY <1>1, <1>2, FS_Subset

(* The rows of a kind that are of use are the lost ones and at most one     *)
(* more: of a kind nobody keeps two ids, and of two first Missions the      *)
(* saved one was cancelled.                                                 *)
LEMMA OneIsKnown ==
  ASSUME StepsInv, NEW i \in Items
  PROVE  \E x : Used(i) \subseteq LostRows[i] \union {x}
<1>1. LostRows[i] = Used(i) \ Known(i)
  BY DEF LostRows
<1>2. CASE run.at # i
  BY <1>1, <1>2 DEF Known
<1>3. CASE run.at = i
  <2>0. run # Idle
    BY <1>3, StepsAreOrdered DEF AllSteps, Idle
  <2>1. RunHolds(run)
    BY <2>0 DEF StepsInv, RunIsSound
  <2>2. Known(i) = {settings[i], run.unsaved}
    BY <1>3 DEF Known
  <2>3. CASE run.unsaved = 0
    <3>1. 0 \notin Used(i)
      BY MadeIsNat DEF StepsInv, Used
    <3> QED BY <1>1, <2>2, <2>3, <3>1
  <2>4. CASE run.unsaved # 0 /\ i # "mission"
    <3>1. settings[i] = 0
      BY <1>3, <2>1, <2>4 DEF RunHolds
    <3>2. 0 \notin Used(i)
      BY MadeIsNat DEF StepsInv, Used
    <3> QED BY <1>1, <2>2, <3>1, <3>2
  <2>5. CASE run.unsaved # 0 /\ i = "mission"
    <3>1. CurrentMission = 0
      BY <1>3, <2>1, <2>5 DEF RunHolds
    <3>2. settings[i] \notin Used(i)
      BY <2>5, <3>1, MadeIsNat DEF StepsInv, CurrentMission, Used, IsUsed
    <3> QED BY <1>1, <2>2, <3>2
  <2> QED BY <2>3, <2>4, <2>5
<1> QED BY <1>2, <1>3

LEMMA ExtraAreLost ==
  ASSUME StepsInv, NEW i \in Items, NEW n \in Nat, n = Cardinality(Used(i))
  PROVE  /\ Cardinality(LostRows[i]) \in Nat
         /\ (IF n = 0 THEN 0 ELSE n - 1) \in Nat
         /\ (IF n = 0 THEN 0 ELSE n - 1) <= Cardinality(LostRows[i])
<1>1. PICK x : Used(i) \subseteq LostRows[i] \union {x}
  BY OneIsKnown
<1>2. IsFiniteSet(LostRows[i])
  BY LostAreFinite DEF StepsInv
<1>3. Cardinality(Used(i)) <= Cardinality(LostRows[i]) + 1 /\ Cardinality(LostRows[i]) \in Nat
  BY <1>1, <1>2, OneMore
<1> QED BY <1>3

LEMMA DuplicatesAreLost == ASSUME StepsInv PROVE Duplicates <= tears
<1> DEFINE E(n) == IF n = 0 THEN 0 ELSE n - 1
           e == [i \in Items |-> E(Cardinality(Used(i)))]
<1>1. \A i \in Items : Made(i) \in Nat
  BY MadeIsNat DEF StepsInv
<1>2. \A i \in Items : Cardinality(Used(i)) \in Nat
  <2> SUFFICES ASSUME NEW i \in Items PROVE Cardinality(Used(i)) \in Nat
    OBVIOUS
  <2>1. IsFiniteSet(1 .. Made(i)) /\ Used(i) \subseteq 1 .. Made(i)
    BY <1>1, FS_Interval DEF Used
  <2> QED BY <2>1, SmallerSet
<1>3. \A i \in Items : /\ Cardinality(LostRows[i]) \in Nat /\ e[i] \in Nat
                       /\ e[i] <= Cardinality(LostRows[i])
  BY <1>2, ExtraAreLost
<1>4. \A i \in Items \ {"mission"} : e[i] = E(Made(i))
  <2> SUFFICES ASSUME NEW i \in Items \ {"mission"} PROVE Cardinality(Used(i)) = Made(i)
    OBVIOUS
  <2>1. Used(i) = 1 .. Made(i)
    BY DEF Used, IsUsed
  <2>2. Cardinality(1 .. Made(i)) = Made(i)
    BY <1>1, FS_Interval
  <2> QED BY <2>1, <2>2
<1>5. Used("mission") = {m \in DOMAIN missions : missions[m].state # "cancelled"}
  <2>1. Made("mission") = Len(missions)
    BY DEF Made, Plain, Spaces
  <2>2. DOMAIN missions = 1 .. Len(missions)
    BY LenProperties DEF StepsInv, StepTables
  <2> QED BY <2>1, <2>2 DEF Used, IsUsed
<1>6. {"project", "collection", "source", "space1", "space2", "space3", "mission",
       "evidence", "proposal"} = Items
  BY DEF Items, Plain, Spaces
<1>7. /\ e["project"] = E(rows["project"]) /\ e["collection"] = E(rows["collection"])
      /\ e["source"] = E(rows["source"]) /\ e["space1"] = E(rows["space1"])
      /\ e["space2"] = E(rows["space2"]) /\ e["space3"] = E(rows["space3"])
      /\ e["evidence"] = E(Len(evidence)) /\ e["proposal"] = E(Len(proposals))
  <2>1. \A i \in Plain : i \in Items \ {"mission"} /\ Made(i) = rows[i]
    BY DEF Made, Plain, Spaces, Items
  <2>2. Made("evidence") = Len(evidence) /\ Made("proposal") = Len(proposals)
    BY DEF Made, Plain, Spaces
  <2>3. {"project", "collection", "source", "space1", "space2", "space3"} = Plain
    BY DEF Plain, Spaces
  <2> HIDE DEF e, E
  <2> QED BY <1>4, <1>6, <2>1, <2>2, <2>3
<1>8. e["mission"] = E(Cardinality({m \in DOMAIN missions : missions[m].state # "cancelled"}))
  BY <1>5, <1>6
<1>9. Duplicates = e["project"] + e["collection"] + e["source"] + e["space1"] + e["space2"]
                   + e["space3"] + e["evidence"] + e["proposal"] + e["mission"]
  BY <1>7, <1>8 DEF Duplicates
<1> HIDE DEF e
<1>10. Duplicates <= CountAll(LostRows) /\ Duplicates \in Nat /\ CountAll(LostRows) \in Nat
  BY <1>3, <1>6, <1>9 DEF CountAll
<1> QED BY <1>10 DEF StepsInv, StepTables

-----------------------------------------------------------------------------
(* What a step leaves as it is.                                             *)

(* A Mission that was cancelled stays so.                                   *)
CancelledStay ==
  \A m \in DOMAIN missions :
    m \in DOMAIN missions' /\ (missions[m].state = "cancelled" => missions'[m].state = "cancelled")

LEMMA IdsAreRows ==
  ASSUME StepTables
  PROVE  /\ DOMAIN missions = 1 .. Len(missions) /\ DOMAIN evidence = 1 .. Len(evidence)
         /\ DOMAIN proposals = 1 .. Len(proposals)
         /\ Len(missions) \in Nat /\ Len(evidence) \in Nat /\ Len(proposals) \in Nat
         /\ \A m \in DOMAIN missions : missions[m] \in FirstMission
         /\ \A p \in DOMAIN proposals : proposals[p] \in GoalProposal
         /\ \A i \in Items : 0 \notin Used(i)
BY LenProperties, ElementOfSeq DEF StepTables, Used

LEMMA CurrentStays ==
  ASSUME StepTables, CurrentMission = 0, settings' = settings, CancelledStay
  PROVE  CurrentMission' = 0
<1> DEFINE m == settings["mission"]
<1>1. m \in 0 .. Len(missions) /\ DOMAIN missions = 1 .. Len(missions) /\ Len(missions) \in Nat
  BY IdsAreRows DEF StepTables, StepsTypeOK
<1>2. \/ m = 0
      \/ m \in DOMAIN missions /\ missions[m].state = "cancelled"
  BY <1>1 DEF CurrentMission
<1> QED BY <1>2 DEF CurrentMission, CancelledStay

LEMMA NothingIsLost ==
  ASSUME StepTables, \A i \in Items : Made(i)' = Made(i), CancelledStay,
         \A i \in Items : Known(i) \subseteq Known(i)' \union {0}
  PROVE  \A i \in Items : LostRows'[i] \subseteq LostRows[i]
<1> SUFFICES ASSUME NEW i \in Items PROVE LostRows'[i] \subseteq LostRows[i]
  OBVIOUS
<1>1. LostRows[i] = Used(i) \ Known(i) /\ LostRows'[i] = Used(i)' \ Known(i)'
  BY DEF LostRows
<1>2. Used(i)' \subseteq Used(i)
  <2>1. i = "mission" => Made(i) = Len(missions)
    BY DEF Made, Plain, Spaces
  <2> QED BY <2>1, IdsAreRows DEF Used, IsUsed, CancelledStay
<1>3. 0 \notin Used(i)
  BY IdsAreRows
<1> QED BY <1>1, <1>2, <1>3

LEMMA CountStays ==
  ASSUME StepsInv, \A i \in Items : LostRows'[i] \subseteq LostRows[i],
         tears' \in Nat, tears <= tears'
  PROVE  CountAll(LostRows') <= tears'
<1>1. CountAll(LostRows') \in Nat /\ CountAll(LostRows') <= CountAll(LostRows)
  BY LostAreFinite, CountsStay DEF StepsInv
<1>2. CountAll(LostRows) \in Nat
  BY LostAreFinite, CountsStay DEF StepsInv
<1> QED BY <1>1, <1>2 DEF StepsInv, StepTables

(* A step beside the run, which makes no row and changes no setting.        *)
LEMMA BesideTheRun ==
  ASSUME StepsInv, \A i \in Items : Made(i)' = Made(i), CancelledStay, settings' = settings,
         Len(missions') = Len(missions), run' = run, tears' = tears
  PROVE  RunIsSound' /\ CountAll(LostRows') <= tears'
<1>1. \A i \in Items : Known(i) \subseteq Known(i)' \union {0}
  BY DEF Known
<1>2. CountAll(LostRows') <= tears'
  BY <1>1, NothingIsLost, CountStays DEF StepsInv, StepTables
<1>3. ASSUME RunHolds(run) PROVE RunHolds(run)'
  <2>1. run.at \in Items => Made(run.at)' = Made(run.at)
    OBVIOUS
  <2>2. CurrentMission = 0 => CurrentMission' = 0
    BY CurrentStays DEF StepsInv
  <2> QED BY <1>3, <2>1, <2>2 DEF RunHolds
<1> QED BY <1>2, <1>3 DEF StepsInv, RunIsSound

(* A run that is over, with nothing unsaved.                                *)
LEMMA RunEnds ==
  ASSUME StepsInv, \A i \in Items : Made(i)' = Made(i), CancelledStay, settings' = settings,
         run = Idle \/ run.unsaved = 0, run' = Idle, tears' \in Nat, tears <= tears'
  PROVE  RunIsSound' /\ CountAll(LostRows') <= tears'
<1>0. "idle" \notin Items
  BY DEF Items, Plain, Spaces
<1>1. \A i \in Items : Known(i) \subseteq Known(i)' \union {0}
  BY <1>0 DEF Known, Idle
<1>2. CountAll(LostRows') <= tears'
  BY <1>1, NothingIsLost, CountStays DEF StepsInv
<1> QED BY <1>2 DEF RunIsSound

(* The id of the row the run has made is lost.                              *)
LEMMA IdIsLost ==
  ASSUME StepsInv, \A i \in Items : Made(i)' = Made(i), CancelledStay, settings' = settings,
         run # Idle, run.unsaved # 0, run' = Idle, tears' = tears + 1
  PROVE  RunIsSound' /\ CountAll(LostRows') <= tears'
<1>0. run.at \in Items /\ "idle" \notin Items
  BY DEF StepsInv, RunIsSound, RunHolds, Items, Plain, Spaces
<1>1. \A i \in Items : Used(i)' \subseteq Used(i)
  <2>1. Made("mission") = Len(missions)
    BY DEF Made, Plain, Spaces
  <2> QED BY <2>1, IdsAreRows DEF StepsInv, Used, IsUsed, CancelledStay
<1>2. \A i \in Items : LostRows'[i] = Used(i)' \ Known(i)' /\ LostRows[i] = Used(i) \ Known(i)
  BY DEF LostRows
<1>3. \A i \in Items : Known(i)' = {settings[i]}
  BY <1>0 DEF Known, Idle
<1>4. Known(run.at) = {settings[run.at], run.unsaved}
      /\ \A i \in Items \ {run.at} : Known(i) = {settings[i]}
  BY DEF Known
<1>5. /\ \A i \in Items \ {run.at} : LostRows'[i] \subseteq LostRows[i]
      /\ LostRows'[run.at] \subseteq LostRows[run.at] \union {run.unsaved}
  BY <1>0, <1>1, <1>2, <1>3, <1>4
<1>6. CountAll(LostRows') <= CountAll(LostRows) + 1 /\ CountAll(LostRows) \in Nat
  BY <1>0, <1>5, LostAreFinite, OneIsLost, CountsStay DEF StepsInv
<1>7. \A i \in Items : IsFiniteSet(LostRows[i] \union {run.unsaved})
                       /\ LostRows'[i] \subseteq LostRows[i] \union {run.unsaved}
  BY <1>5, LostAreFinite, FS_AddElement DEF StepsInv
<1>8. CountAll(LostRows') \in Nat
  <2> DEFINE l == [i \in Items |-> LostRows[i] \union {run.unsaved}]
  <2>1. \A i \in Items : IsFiniteSet(l[i]) /\ LostRows'[i] \subseteq l[i]
    BY <1>7
  <2> HIDE DEF l
  <2> QED BY <2>1, CountsStay
<1> QED BY <1>6, <1>8 DEF RunIsSound, StepsInv, StepTables

-----------------------------------------------------------------------------
(* The steps.                                                               *)

LEMMA MadeStays ==
  ASSUME rows' = rows, Len(missions') = Len(missions), Len(evidence') = Len(evidence),
         Len(proposals') = Len(proposals)
  PROVE  \A i \in Items : Made(i)' = Made(i)
BY DEF Made

LEMMA MissionsMove ==
  ASSUME StepTables, NEW m \in DOMAIN missions, NEW x \in FirstMission,
         missions' = [missions EXCEPT ![m] = x],
         missions[m].state = "cancelled" => x.state = "cancelled",
         x.outcome \in (IF x.state = "completed" THEN 1 .. Len(proposals) ELSE {0}),
         UNCHANGED << files, rows, evidence, proposals >>, queue' = queue, tears' = tears
  PROVE  /\ StepTables' /\ CancelledStay /\ Len(missions') = Len(missions)
         /\ \A i \in Items : Made(i)' = Made(i)
<1>1. missions' \in Seq(FirstMission) /\ Len(missions') = Len(missions)
      /\ DOMAIN missions' = DOMAIN missions
      /\ \A n \in DOMAIN missions : missions'[n] = IF n = m THEN x ELSE missions[n]
  BY IdsAreRows, ExceptSeq DEF StepTables
<1>2. CancelledStay
  BY <1>1 DEF CancelledStay
<1>3. \A i \in Items : Made(i)' = Made(i)
  BY <1>1, MadeStays
<1>4. StepTables'
  <2>1. \A n \in DOMAIN missions' :
          /\ missions'[n].state \in MissionStates
          /\ missions'[n].outcome \in
               (IF missions'[n].state = "completed" THEN 1 .. Len(proposals) ELSE {0})
    BY <1>1 DEF StepTables, StepsTypeOK, FirstMission
  <2>2. StepsTypeOK'
    BY <1>1, <2>1 DEF StepTables, StepsTypeOK, files
  <2> QED BY <1>1, <2>2 DEF StepTables, files
<1> QED BY <1>1, <1>2, <1>3, <1>4

LEMMA MissionsStay ==
  ASSUME StepTables, missions' = missions
  PROVE  CancelledStay /\ Len(missions') = Len(missions)
BY DEF CancelledStay

LEMMA TablesStay ==
  ASSUME StepTables, UNCHANGED << settings, rows, missions, evidence, proposals >>,
         closed' \in [completed : BOOLEAN, dismissed : BOOLEAN],
         queue' \in Seq(Kinds), tears' \in Nat
  PROVE  StepTables' /\ CancelledStay /\ \A i \in Items : Made(i)' = Made(i)
<1>1. StepTables'
  BY DEF StepTables, StepsTypeOK
<1> QED BY <1>1, MissionsStay, MadeStays

LEMMA ProposalIsDecided ==
  ASSUME StepTables, NEW p \in DOMAIN proposals, NEW d \in {"Accepted", "Rejected"},
         proposals' = [proposals EXCEPT ![p].status = d],
         UNCHANGED << settings, closed, rows, missions, evidence, queue, tears >>
  PROVE  StepTables' /\ Len(proposals') = Len(proposals)
<1>1. [proposals[p] EXCEPT !.status = d] \in GoalProposal
      /\ [proposals[p] EXCEPT !.status = d].evidence = proposals[p].evidence
  BY IdsAreRows DEF GoalProposal
<1>2. proposals' \in Seq(GoalProposal) /\ Len(proposals') = Len(proposals)
      /\ DOMAIN proposals' = DOMAIN proposals
      /\ \A q \in DOMAIN proposals : proposals'[q].evidence = proposals[q].evidence
  BY <1>1, IdsAreRows, ExceptSeq DEF StepTables
<1>3. StepsTypeOK'
  BY <1>2 DEF StepTables, StepsTypeOK
<1> QED BY <1>2, <1>3 DEF StepTables

(* The assistant, the page and the captain.                                 *)
LEMMA RequestsKeep ==
  ASSUME StepsInv, NEW k \in Kinds, Propose(k) \/ Take(k)
  PROVE  StepsInv'
<1>0. queue' \in Seq(Kinds) /\ closed' = closed /\ tears' = tears /\ run' = run
      /\ UNCHANGED << settings, rows, missions, evidence, proposals >>
  <2>1. CASE Propose(k)
    <3>1. UNCHANGED << files, store, queue, run, counters >>
      BY <2>1, Zenon DEF Propose
    <3> QED BY <3>1, Zenon DEF files, store, counters, StepsInv, StepTables
  <2>2. CASE Take(k)
    <3>1. queue \in Seq(Kinds)
      BY DEF StepsInv, StepTables
    <3>2. Append(queue, k) \in Seq(Kinds)
      BY <3>1, AppendProperties
    <3> QED BY <2>2, <3>1, <3>2 DEF Take, files, store, counters
  <2> QED BY <2>1, <2>2
<1>1. StepTables' /\ CancelledStay /\ \A i \in Items : Made(i)' = Made(i)
  BY <1>0, TablesStay DEF StepsInv, StepTables, StepsTypeOK
<1> QED BY <1>0, <1>1, BesideTheRun DEF StepsInv

LEMMA CaptainKeeps == ASSUME StepsInv, Captain PROVE StepsInv'
<1>1. ASSUME NEW m \in DOMAIN missions, Answer(m) \/ Pause(m) \/ Resume(m) \/ Cancel(m)
      PROVE  StepsInv'
  <2> DEFINE x == missions'[m]
  <2>1. missions[m] \in FirstMission
    BY IdsAreRows DEF StepsInv
  <2>2. missions[m].outcome \in (IF missions[m].state = "completed" THEN 1 .. Len(proposals) ELSE {0})
    BY DEF StepsInv, StepTables, StepsTypeOK
  <2>3. UNCHANGED << files, rows, evidence, proposals >> /\ queue' = queue /\ tears' = tears
        /\ run' = run
    BY <1>1 DEF Answer, Pause, Resume, Cancel, Move, memory, counters
  <2>4. PICK y \in FirstMission :
          /\ missions' = [missions EXCEPT ![m] = y]
          /\ missions[m].state # "cancelled" /\ missions[m].state # "completed"
          /\ y.outcome = missions[m].outcome /\ y.state # "completed"
    <3>1. CASE Answer(m)
      <4>1. [missions[m] EXCEPT !.answered = TRUE] \in FirstMission
        BY <2>1 DEF FirstMission
      <4> QED BY <2>1, <3>1, <4>1 DEF Answer, FirstMission
    <3>2. ASSUME NEW from \in SUBSET {"queued", "running", "waiting", "paused"},
                 NEW to \in {"paused", "running", "cancelled"}, Move(m, from, to)
          PROVE \E y \in FirstMission :
          /\ missions' = [missions EXCEPT ![m] = y]
          /\ missions[m].state # "cancelled" /\ missions[m].state # "completed"
          /\ y.outcome = missions[m].outcome /\ y.state # "completed"
      <4>1. /\ [missions[m] EXCEPT !.state = to] \in FirstMission
            /\ [missions[m] EXCEPT !.state = to].outcome = missions[m].outcome
            /\ [missions[m] EXCEPT !.state = to].state = to
        BY <2>1 DEF FirstMission, MissionStates
      <4> QED BY <3>2, <4>1 DEF Move
    <3> QED BY <1>1, <3>1, <3>2 DEF Pause, Resume, Cancel
  <2>5. StepTables' /\ CancelledStay /\ Len(missions') = Len(missions)
        /\ \A i \in Items : Made(i)' = Made(i)
    BY <2>2, <2>3, <2>4, MissionsMove DEF StepsInv
  <2> QED BY <2>3, <2>5, BesideTheRun DEF StepsInv, files
<1>2. ASSUME NEW p \in DOMAIN proposals, ReviewElsewhere(p) PROVE StepsInv'
  <2>1. PICK d \in {"Accepted", "Rejected"} : proposals' = [proposals EXCEPT ![p].status = d]
    BY <1>2 DEF ReviewElsewhere
  <2>2. UNCHANGED << settings, closed, rows, missions, evidence, queue, run, tears >>
    BY <1>2 DEF ReviewElsewhere, files, memory, counters
  <2>3. StepTables' /\ Len(proposals') = Len(proposals)
    BY <2>1, <2>2, ProposalIsDecided DEF StepsInv
  <2>4. CancelledStay /\ \A i \in Items : Made(i)' = Made(i)
    BY <2>2, <2>3, MissionsStay, MadeStays DEF StepsInv
  <2> QED BY <2>2, <2>3, <2>4, BesideTheRun DEF StepsInv
<1>3. ASSUME NEW skipped \in BOOLEAN, FinishSetup(skipped) PROVE StepsInv'
  <2>1. /\ UNCHANGED << settings, rows, missions, evidence, proposals, queue, run, tears >>
        /\ closed' \in [completed : BOOLEAN, dismissed : BOOLEAN]
    BY <1>3 DEF FinishSetup, store, memory, counters, StepsInv, StepTables, StepsTypeOK
  <2>2. StepTables' /\ CancelledStay /\ \A i \in Items : Made(i)' = Made(i)
    BY <2>1, TablesStay DEF StepsInv, StepTables
  <2> QED BY <2>1, <2>2, BesideTheRun DEF StepsInv
<1> QED BY <1>1, <1>2, <1>3 DEF Captain

(* The run.                                                                 *)
LEMMA BeginKeeps == ASSUME StepsInv, Begin PROVE StepsInv'
<1> DEFINE k == Head(queue)
<1>1. run = Idle /\ UNCHANGED << settings, closed, rows, missions, evidence, proposals, tears >>
      /\ queue # <<>> /\ queue' = Tail(queue)
  BY DEF Begin, files, store, counters
<1>2. queue \in Seq(Kinds)
  BY DEF StepsInv, StepTables
<1>3. k \in Kinds /\ queue' \in Seq(Kinds)
  BY <1>1, <1>2, HeadTailProperties
<1>4. StepTables' /\ CancelledStay /\ \A i \in Items : Made(i)' = Made(i)
  BY <1>1, <1>3, TablesStay DEF StepsInv, StepTables, StepsTypeOK
<1>5. CASE run' = Idle
  <2>1. RunIsSound' /\ CountAll(LostRows') <= tears'
    BY <1>1, <1>4, <1>5, RunEnds DEF StepsInv, StepTables
  <2> QED BY <1>4, <2>1 DEF StepsInv
<1>6. CASE run' # Idle
  <2>1. CurrentMission \in 0 .. Len(missions) /\ Len(missions) \in Nat
        /\ DOMAIN missions = 1 .. Len(missions)
    BY IdsAreRows DEF StepsInv, StepTables, StepsTypeOK, CurrentMission
  <2>2. Stage = ActionStage[k]
        /\ run' = [at |-> FirstOf[k], unsaved |-> 0, mission |-> CurrentMission,
                   state |-> IF CurrentMission = 0 THEN "none"
                             ELSE missions[CurrentMission].state,
                   loaded |-> closed]
    BY <1>6 DEF Begin
  <2>3. run' \in RunRecord
    <3>1. FirstOf[k] \in DOMAIN After
      BY <1>3, StepsAreOrdered DEF FirstOf, Kinds, AllSteps, Items, Plain
    <3>2. (IF CurrentMission = 0 THEN "none" ELSE missions[CurrentMission].state)
            \in MissionStates \union {"none"}
      <4>1. CurrentMission # 0 => CurrentMission \in DOMAIN missions
        BY <2>1
      <4>2. \A m \in DOMAIN missions : missions[m].state \in MissionStates
        BY DEF StepsInv, StepTables, StepsTypeOK
      <4> QED BY <4>1, <4>2
    <3>3. closed \in [completed : BOOLEAN, dismissed : BOOLEAN]
      BY DEF StepsInv, StepTables, StepsTypeOK
    <3>4. CurrentMission \in Nat
      BY <2>1
    <3> QED BY <2>2, <3>1, <3>2, <3>3, <3>4 DEF RunRecord
  <2>4. k = "recordGoal" => CurrentMission # 0
    BY <2>2 DEF Stage, ActionStage
  <2>5. /\ run'.at = FirstOf[k] /\ run'.unsaved = 0 /\ run'.mission = CurrentMission
        /\ run'.at \in {"project", "mission", "source"}
        /\ run'.at = "source" => k = "recordGoal"
    BY <1>3, <2>2 DEF FirstOf, Kinds
  <2>6. CurrentMission' = CurrentMission
    BY <1>1 DEF CurrentMission
  <2>7. RunHolds(run)'
    BY <1>1, <2>1, <2>3, <2>4, <2>5, <2>6 DEF RunHolds, Spaces
  <2>8. CountAll(LostRows') <= tears'
    <3>1. \A i \in Items : Known(i) = {settings[i]}
      <4>1. "idle" \notin Items /\ run.at = "idle"
        BY <1>1 DEF Items, Plain, Spaces, Idle
      <4> QED BY <4>1 DEF Known
    <3>2. \A i \in Items : Known(i) \subseteq Known(i)' \union {0}
      BY <1>1, <3>1 DEF Known
    <3> QED BY <1>1, <1>4, <3>2, NothingIsLost, CountStays DEF StepsInv, StepTables
  <2> QED BY <1>4, <2>7, <2>8 DEF StepsInv, RunIsSound
<1> QED BY <1>5, <1>6

(* A run in the middle of a step is sound.                                  *)
LEMMA RunIsThere ==
  ASSUME StepsInv, run.at \in AllSteps
  PROVE  run # Idle /\ RunHolds(run) /\ run \in RunRecord
BY StepsAreOrdered DEF StepsInv, RunIsSound, Idle, RunHolds

LEMMA ItemsAreSteps == Items \subseteq AllSteps /\ DOMAIN MissionSteps \subseteq AllSteps
                       /\ "review" \in AllSteps
BY DEF AllSteps, MissionSteps

LEMMA SkipKeeps == ASSUME StepsInv, SkipRow PROVE StepsInv'
<1>1. /\ run.at \in Items /\ run.unsaved = 0 /\ HasRow(run.at) /\ GoOn(run)
      /\ UNCHANGED << settings, closed, rows, missions, evidence, proposals, queue, tears >>
  BY DEF SkipRow, files, store, counters
<1>2. RunHolds(run) /\ run \in RunRecord
  BY <1>1, RunIsThere, ItemsAreSteps
<1>3. StepTables' /\ CancelledStay /\ \A i \in Items : Made(i)' = Made(i)
  BY <1>1, TablesStay DEF StepsInv, StepTables, StepsTypeOK
<1>4. RunIsSound'
  <2>1. run.at \notin {"project", "collection"} \union Spaces => run.mission # 0
    BY <1>1, <1>2 DEF RunHolds, HasRow
  <2>2. /\ run.at = "evidence" => settings["evidence"] # 0
        /\ run.at = "proposal" => settings["proposal"] # 0
    BY <1>1 DEF HasRow
  <2>3. run.mission <= Len(missions') /\ Len(missions') \in Nat
    BY <1>1, <1>2, IdsAreRows DEF RunHolds, StepsInv
  <2> QED BY <1>1, <1>2, <2>1, <2>2, <2>3, RunGoesOn
<1>5. CountAll(LostRows') <= tears'
  <2>1. \A i \in Items : Known(i) \subseteq Known(i)' \union {0}
    BY <1>1 DEF Known
  <2> QED BY <1>1, <1>3, <2>1, NothingIsLost, CountStays DEF StepsInv, StepTables
<1> QED BY <1>3, <1>4, <1>5 DEF StepsInv

LEMMA StopsKeep == ASSUME StepsInv, OperationFails \/ SaveFails \/ Restart PROVE StepsInv'
<1>1. UNCHANGED << settings, closed, rows, missions, evidence, proposals >> /\ run' = Idle
      /\ queue' \in Seq(Kinds)
  BY EmptySeq DEF OperationFails, SaveFails, Restart, files, store, EndRun, StepsInv, StepTables
<1>2. \/ tears' = tears /\ (run = Idle \/ run.unsaved = 0)
      \/ tears' = tears + 1 /\ run # Idle /\ run.unsaved # 0
  BY DEF OperationFails, SaveFails, Restart, Torn, counters
<1>3. tears' \in Nat /\ tears \in Nat
  BY <1>2 DEF StepsInv, StepTables
<1>4. StepTables' /\ CancelledStay /\ \A i \in Items : Made(i)' = Made(i)
  BY <1>1, <1>3, TablesStay DEF StepsInv, StepTables, StepsTypeOK
<1>5. RunIsSound' /\ CountAll(LostRows') <= tears'
  BY <1>1, <1>2, <1>3, <1>4, RunEnds, IdIsLost
<1> QED BY <1>4, <1>5 DEF StepsInv

(* A row whose id the run has not saved yet is the only one it knows of.    *)
LEMMA SavedIsUnused ==
  ASSUME StepsInv, RunHolds(run), run.at \in Items, run.unsaved # 0 \/ ~ HasRow(run.at)
  PROVE  settings[run.at] \notin Used(run.at)
<1>1. CASE run.at # "mission"
  <2>1. settings[run.at] = 0
    BY <1>1 DEF RunHolds, HasRow
  <2> QED BY <2>1, IdsAreRows DEF StepsInv
<1>2. CASE run.at = "mission"
  <2>1. CurrentMission = 0
    BY <1>2 DEF RunHolds, HasRow
  <2> QED BY <1>2, <2>1, IdsAreRows DEF StepsInv, CurrentMission, Used, IsUsed
<1> QED BY <1>1, <1>2

LEMMA SaveKeeps == ASSUME StepsInv, SaveId PROVE StepsInv'
<1>1. /\ run.at \in Items /\ run.unsaved # 0 /\ GoOn(run)
      /\ settings' = [settings EXCEPT ![run.at] = run.unsaved]
      /\ UNCHANGED << closed, rows, missions, evidence, proposals, queue, tears >>
  BY DEF SaveId, store, counters
<1>2. RunHolds(run) /\ run \in RunRecord
  BY <1>1, RunIsThere, ItemsAreSteps
<1>3. settings \in [Items -> Nat] /\ run.unsaved \in Nat /\ run.unsaved = Made(run.at)
  BY <1>1, <1>2 DEF StepsInv, StepTables, StepsTypeOK, RunHolds, RunRecord
<1>4. settings' \in [Items -> Nat] /\ settings'[run.at] = run.unsaved
      /\ \A i \in Items \ {run.at} : settings'[i] = settings[i]
  BY <1>1, <1>3
<1>5. StepTables'
  <2>1. /\ \A i \in Plain : i \in Items /\ Made(i) = rows[i]
        /\ Made("mission") = Len(missions) /\ Made("evidence") = Len(evidence)
        /\ Made("proposal") = Len(proposals)
        /\ {"mission", "evidence", "proposal"} \subseteq Items
    BY DEF Made, Items, Plain, Spaces
  <2>2. \A i \in Items : settings[i] \in 0 .. Made(i)
    BY <2>1 DEF StepsInv, StepTables, StepsTypeOK, Items
  <2>3. \A i \in Items : settings'[i] \in 0 .. Made(i)
    BY <1>3, <1>4, <2>2
  <2>4. StepsTypeOK'
    BY <1>1, <1>4, <2>1, <2>3 DEF StepsInv, StepTables, StepsTypeOK
  <2> QED BY <1>1, <2>4 DEF StepsInv, StepTables
<1>6. CancelledStay /\ \A i \in Items : Made(i)' = Made(i)
  BY <1>1, MissionsStay, MadeStays DEF StepsInv
<1>7. RunIsSound'
  <2>1. run.at \notin {"project", "collection"} \union Spaces => run.mission # 0
    BY <1>1, <1>2 DEF RunHolds
  <2>2. \A i \in Items : settings[i] # 0 => settings'[i] # 0
    BY <1>1, <1>4
  <2>3. run.mission <= Len(missions') /\ Len(missions') \in Nat
    BY <1>1, <1>2, IdsAreRows DEF RunHolds, StepsInv
  <2>4. /\ run.at = "evidence" => settings'["evidence"] # 0
        /\ run.at = "proposal" => settings'["proposal"] # 0
    BY <1>1, <1>4
  <2> QED BY <1>1, <1>2, <2>1, <2>2, <2>3, <2>4, RunGoesOn
<1>8. \A i \in Items : LostRows'[i] \subseteq LostRows[i]
  <2> SUFFICES ASSUME NEW i \in Items PROVE LostRows'[i] \subseteq LostRows[i]
    OBVIOUS
  <2>1. LostRows[i] = Used(i) \ Known(i) /\ LostRows'[i] = Used(i)' \ Known(i)'
    BY DEF LostRows
  <2>2. Used(i)' = Used(i)
    BY <1>1, <1>6 DEF Used, IsUsed
  <2>3. settings'[i] \in Known(i)'
    BY DEF Known
  <2>4. CASE i = run.at
    <3>1. Known(i) = {settings[i], run.unsaved}
      BY <2>4 DEF Known
    <3> QED BY <1>1, <1>2, <1>4, <2>1, <2>2, <2>3, <2>4, <3>1, SavedIsUnused
  <2>5. CASE i # run.at
    <3>1. Known(i) = {settings[i]}
      BY <2>5 DEF Known
    <3> QED BY <1>4, <2>1, <2>2, <2>3, <2>5, <3>1
  <2> QED BY <2>4, <2>5
<1> QED BY <1>1, <1>5, <1>7, <1>8, CountStays DEF StepsInv, StepTables

(* A row is made: it is the only one of use that is new, and the run knows  *)
(* its id.                                                                  *)
LEMMA RowIsMade ==
  ASSUME StepsInv, RunHolds(run), run.at \in Items, run.unsaved = 0, ~ HasRow(run.at),
         settings' = settings, tears' = tears, CancelledStay,
         run' \in RunRecord, run'.at = run.at, run'.unsaved = Made(run.at) + 1,
         \A i \in Items : Made(i)' = IF i = run.at THEN Made(i) + 1 ELSE Made(i),
         Len(missions') = IF run.at = "mission" THEN Len(missions) + 1 ELSE Len(missions),
         run'.mission = IF run.at = "mission" THEN Made(run.at) + 1 ELSE run.mission
  PROVE  RunIsSound' /\ CountAll(LostRows') <= tears'
<1>0. Made(run.at) \in Nat /\ run.mission <= Len(missions) /\ run.mission \in Nat
      /\ Made("mission") = Len(missions) /\ Len(missions) \in Nat
  BY MadeIsNat, IdsAreRows DEF StepsInv, RunHolds, RunRecord, Made, Plain, Spaces
<1>1. RunIsSound'
  <2>1. run.at # "mission" => settings[run.at] = 0
    BY DEF HasRow
  <2>2. run.at = "mission" => CurrentMission' = 0
    <3>1. run.at = "mission" => CurrentMission = 0
      BY DEF HasRow, RunHolds
    <3> QED BY <3>1, CurrentStays DEF StepsInv
  <2>3. run'.at \notin {"project", "collection", "mission"} \union Spaces => run'.mission # 0
    BY DEF RunHolds
  <2>4. /\ run'.at \in {"resume", "proposal"} => settings'["evidence"] # 0
        /\ run'.at = "complete" => settings'["proposal"] # 0
    BY DEF RunHolds
  <2>5. run'.mission <= Len(missions')
    BY <1>0
  <2>6. RunHolds(run)'
    BY <1>0, <2>1, <2>2, <2>3, <2>4, <2>5 DEF RunHolds
  <2> QED BY <2>6 DEF RunIsSound
<1>2. \A i \in Items : LostRows'[i] \subseteq LostRows[i]
  <2> SUFFICES ASSUME NEW i \in Items PROVE LostRows'[i] \subseteq LostRows[i]
    OBVIOUS
  <2>1. LostRows[i] = Used(i) \ Known(i) /\ LostRows'[i] = Used(i)' \ Known(i)'
    BY DEF LostRows
  <2>2. Used(i)' \subseteq Used(i) \union (IF i = run.at THEN {Made(i) + 1} ELSE {})
    <3>1. i = "mission" => Made(i) = Len(missions)
      BY <1>0
    <3>2. Made(i) \in Nat
      BY MadeIsNat DEF StepsInv
    <3>3. \A id \in 1 .. Made(i) : IsUsed(i, id)' => IsUsed(i, id)
      <4>1. i = "mission" => 1 .. Made(i) = DOMAIN missions
        BY <3>1, IdsAreRows DEF StepsInv
      <4> QED BY <4>1 DEF IsUsed, CancelledStay
    <3>4. \A id \in 1 .. Made(i)' : id \in 1 .. Made(i) \/ (i = run.at /\ id = Made(i) + 1)
      BY <3>2
    <3> QED BY <3>3, <3>4 DEF Used
  <2>3. Known(i) \subseteq Known(i)' \union {0}
    BY DEF Known
  <2>4. i = run.at => Made(i) + 1 \in Known(i)'
    BY DEF Known
  <2>5. 0 \notin Used(i)
    BY IdsAreRows DEF StepsInv
  <2> QED BY <2>1, <2>2, <2>3, <2>4, <2>5
<1> QED BY <1>1, <1>2, CountStays DEF StepsInv, StepTables

LEMMA CreateKeeps == ASSUME StepsInv, CreateRow PROVE StepsInv'
<1>1. /\ run.at \in Items /\ run.unsaved = 0 /\ ~ HasRow(run.at)
      /\ UNCHANGED << settings, closed, queue, tears >>
  BY DEF CreateRow, files, counters
<1>2. RunHolds(run) /\ run \in RunRecord
  BY <1>1, RunIsThere, ItemsAreSteps
<1>3. Made(run.at) \in Nat
  BY <1>1, MadeIsNat DEF StepsInv
<1>4. ASSUME NEW id \in Nat PROVE [run EXCEPT !.unsaved = id] \in RunRecord
                                  /\ [run EXCEPT !.unsaved = id].at = run.at
                                  /\ [run EXCEPT !.unsaved = id].unsaved = id
                                  /\ [run EXCEPT !.unsaved = id].mission = run.mission
  BY <1>2 DEF RunRecord
<1>5. \A i \in Items : Made(i) = IF i \in Plain THEN rows[i]
                                 ELSE IF i = "mission" THEN Len(missions)
                                 ELSE IF i = "evidence" THEN Len(evidence) ELSE Len(proposals)
  BY DEF Made, Items, Plain, Spaces
<1>6. \A i \in Items : Made(i)' = IF i \in Plain THEN rows'[i]
                                  ELSE IF i = "mission" THEN Len(missions')
                                  ELSE IF i = "evidence" THEN Len(evidence') ELSE Len(proposals')
  BY DEF Made, Items, Plain, Spaces
<1>7. {"mission", "evidence", "proposal"} \intersect Plain = {}
  BY DEF Plain, Spaces
<1>8. CASE run.at \in Plain
  <2>1. /\ rows' = [rows EXCEPT ![run.at] = @ + 1]
        /\ run' = [run EXCEPT !.unsaved = rows[run.at] + 1]
        /\ UNCHANGED << missions, evidence, proposals >>
    BY <1>7, <1>8 DEF CreateRow
  <2>2. rows \in [Plain -> Nat]
    BY DEF StepsInv, StepTables
  <2>3. /\ rows' \in [Plain -> Nat] /\ rows'[run.at] = rows[run.at] + 1
        /\ \A i \in Plain \ {run.at} : rows'[i] = rows[i]
    BY <1>8, <2>1, <2>2
  <2>4. StepTables'
    <3>1. \A i \in Plain : settings[i] \in 0 .. rows'[i]
      <4>1. \A i \in Plain : settings[i] \in 0 .. rows[i]
        BY DEF StepsInv, StepTables, StepsTypeOK
      <4>2. \A i \in Plain : rows[i] \in Nat /\ rows'[i] \in Nat /\ rows[i] <= rows'[i]
        BY <2>2, <2>3
      <4> QED BY <4>1, <4>2
    <3>2. StepsTypeOK'
      BY <1>1, <2>1, <3>1 DEF StepsInv, StepTables, StepsTypeOK
    <3> QED BY <1>1, <2>1, <2>3, <3>2 DEF StepsInv, StepTables
  <2>5. Made(run.at) = rows[run.at]
    BY <1>1, <1>5, <1>8
  <2>6. \A i \in Items : Made(i)' = IF i = run.at THEN Made(i) + 1 ELSE Made(i)
    BY <1>5, <1>6, <1>8, <2>1, <2>3
  <2>7. run' \in RunRecord /\ run'.at = run.at /\ run'.unsaved = Made(run.at) + 1
        /\ run'.mission = run.mission
    BY <1>3, <1>4, <2>1, <2>5
  <2>8. CancelledStay /\ run.at # "mission" /\ Len(missions') = Len(missions)
    BY <1>7, <1>8, <2>1, MissionsStay DEF StepsInv
  <2> QED BY <1>1, <1>2, <2>3, <2>4, <2>5, <2>6, <2>7, <2>8, RowIsMade DEF StepsInv
<1>9. CASE run.at = "mission"
  <2> DEFINE new == [state |-> "queued", answered |-> FALSE, outcome |-> 0]
  <2>1. /\ missions' = Append(missions, new)
        /\ run' = [run EXCEPT !.unsaved = Len(missions) + 1,
                              !.mission = Len(missions) + 1, !.state = "queued"]
        /\ UNCHANGED << rows, evidence, proposals >>
    BY <1>7, <1>9 DEF CreateRow
  <2>2. new \in FirstMission /\ new.state = "queued" /\ new.outcome = 0
    BY DEF FirstMission, MissionStates
  <2> HIDE DEF new
  <2>3. /\ missions' \in Seq(FirstMission) /\ Len(missions') = Len(missions) + 1
        /\ DOMAIN missions' = DOMAIN missions \union {Len(missions) + 1}
        /\ missions'[Len(missions) + 1] = new
        /\ \A m \in DOMAIN missions : missions'[m] = missions[m]
    <3>1. missions \in Seq(FirstMission) /\ DOMAIN missions = 1 .. Len(missions)
          /\ Len(missions) \in Nat
      BY IdsAreRows DEF StepsInv, StepTables
    <3>2. /\ missions' \in Seq(FirstMission) /\ Len(missions') = Len(missions) + 1
          /\ \A m \in 1 .. Len(missions) : missions'[m] = missions[m]
          /\ missions'[Len(missions) + 1] = new
      BY <2>1, <2>2, <3>1, AppendProperties
    <3>3. DOMAIN missions' = 1 .. Len(missions')
      BY <3>2, LenProperties
    <3> QED BY <3>1, <3>2, <3>3
  <2>4. StepTables'
    <3>1. \A m \in DOMAIN missions' :
            /\ missions'[m].state \in MissionStates
            /\ missions'[m].outcome \in
                 (IF missions'[m].state = "completed" THEN 1 .. Len(proposals) ELSE {0})
      BY <2>2, <2>3 DEF StepsInv, StepTables, StepsTypeOK, FirstMission
    <3>2. settings["mission"] \in 0 .. Len(missions')
      BY <2>3, IdsAreRows DEF StepsInv, StepTables, StepsTypeOK
    <3>3. StepsTypeOK'
      BY <1>1, <2>1, <3>1, <3>2 DEF StepsInv, StepTables, StepsTypeOK
    <3> QED BY <1>1, <2>1, <2>3, <3>3 DEF StepsInv, StepTables
  <2>5. CancelledStay
    BY <2>3 DEF CancelledStay
  <2>6. Made(run.at) = Len(missions)
        /\ \A i \in Items : Made(i)' = IF i = run.at THEN Made(i) + 1 ELSE Made(i)
    BY <1>1, <1>5, <1>6, <1>7, <1>9, <2>1, <2>3
  <2>7. run' \in RunRecord /\ run'.at = run.at /\ run'.unsaved = Len(missions) + 1
        /\ run'.mission = Len(missions) + 1
    <3>1. Len(missions) + 1 \in Nat
      BY <1>3, <2>6
    <3> QED BY <1>2, <2>1, <3>1 DEF RunRecord, MissionStates
  <2> QED BY <1>1, <1>2, <1>9, <2>3, <2>4, <2>5, <2>6, <2>7, RowIsMade DEF StepsInv
<1>10. CASE run.at = "evidence"
  <2>1. /\ evidence' = Append(evidence, run.mission)
        /\ run' = [run EXCEPT !.unsaved = Len(evidence) + 1]
        /\ UNCHANGED << rows, missions, proposals >>
    BY <1>7, <1>10 DEF CreateRow
  <2>2. evidence \in Seq(Nat) /\ run.mission \in Nat /\ Len(evidence) \in Nat
    BY <1>2, IdsAreRows DEF StepsInv, StepTables, RunRecord
  <2>3. evidence' \in Seq(Nat) /\ Len(evidence') = Len(evidence) + 1
        /\ DOMAIN evidence \subseteq DOMAIN evidence'
    <3>1. evidence' \in Seq(Nat) /\ Len(evidence') = Len(evidence) + 1
      BY <2>1, <2>2, AppendProperties
    <3>2. DOMAIN evidence = 1 .. Len(evidence) /\ DOMAIN evidence' = 1 .. Len(evidence')
      BY <2>2, <3>1, LenProperties
    <3> QED BY <2>2, <3>1, <3>2
  <2>4. StepTables'
    <3>1. settings["evidence"] \in 0 .. Len(evidence')
      BY <2>2, <2>3 DEF StepsInv, StepTables, StepsTypeOK
    <3>2. StepsTypeOK'
      BY <1>1, <2>1, <2>3, <3>1 DEF StepsInv, StepTables, StepsTypeOK
    <3> QED BY <1>1, <2>1, <2>3, <3>2 DEF StepsInv, StepTables
  <2>5. Made(run.at) = Len(evidence)
        /\ \A i \in Items : Made(i)' = IF i = run.at THEN Made(i) + 1 ELSE Made(i)
    BY <1>1, <1>5, <1>6, <1>7, <1>10, <2>1, <2>3
  <2>6. run' \in RunRecord /\ run'.at = run.at /\ run'.unsaved = Made(run.at) + 1
        /\ run'.mission = run.mission
    BY <1>3, <1>4, <2>1, <2>5
  <2>7. CancelledStay /\ Len(missions') = Len(missions)
    BY <2>1, MissionsStay DEF StepsInv
  <2> QED BY <1>1, <1>2, <1>10, <2>3, <2>4, <2>5, <2>6, <2>7, RowIsMade DEF StepsInv
<1>11. CASE run.at = "proposal"
  <2> DEFINE new == [evidence |-> settings["evidence"], status |-> "Submitted"]
  <2>1. /\ proposals' = Append(proposals, new)
        /\ run' = [run EXCEPT !.unsaved = Len(proposals) + 1]
        /\ UNCHANGED << rows, missions, evidence >>
    BY <1>7, <1>11 DEF CreateRow
  <2>2. settings["evidence"] \in DOMAIN evidence /\ settings["evidence"] \in Nat
    <3>1. settings["evidence"] # 0 /\ settings["evidence"] \in 0 .. Len(evidence)
      BY <1>2, <1>11 DEF RunHolds, StepsInv, StepTables, StepsTypeOK
    <3> QED BY <3>1, IdsAreRows DEF StepsInv
  <2>3. new \in GoalProposal /\ new.evidence \in DOMAIN evidence
    BY <2>2 DEF GoalProposal
  <2> HIDE DEF new
  <2>4. /\ proposals' \in Seq(GoalProposal) /\ Len(proposals') = Len(proposals) + 1
        /\ \A p \in DOMAIN proposals' : proposals'[p].evidence \in DOMAIN evidence
        /\ Len(proposals) \in Nat
    <3>1. proposals \in Seq(GoalProposal) /\ DOMAIN proposals = 1 .. Len(proposals)
          /\ Len(proposals) \in Nat
          /\ \A p \in DOMAIN proposals : proposals[p].evidence \in DOMAIN evidence
      BY IdsAreRows DEF StepsInv, StepTables, StepsTypeOK
    <3>2. /\ proposals' \in Seq(GoalProposal) /\ Len(proposals') = Len(proposals) + 1
          /\ \A p \in 1 .. Len(proposals) : proposals'[p] = proposals[p]
          /\ proposals'[Len(proposals) + 1] = new
      BY <2>1, <2>3, <3>1, AppendProperties
    <3>3. DOMAIN proposals' = 1 .. Len(proposals')
      BY <3>2, LenProperties
    <3>4. \A p \in DOMAIN proposals' : p \in 1 .. Len(proposals) \/ p = Len(proposals) + 1
      BY <3>1, <3>2, <3>3
    <3> QED BY <2>3, <3>1, <3>2, <3>4
  <2>5. StepTables'
    <3>1. settings["proposal"] \in 0 .. Len(proposals')
      BY <2>4 DEF StepsInv, StepTables, StepsTypeOK
    <3>2. \A m \in DOMAIN missions :
            missions[m].outcome \in
              (IF missions[m].state = "completed" THEN 1 .. Len(proposals') ELSE {0})
      BY <2>4 DEF StepsInv, StepTables, StepsTypeOK
    <3>3. StepsTypeOK'
      BY <1>1, <2>1, <2>4, <3>1, <3>2 DEF StepsInv, StepTables, StepsTypeOK
    <3> QED BY <1>1, <2>1, <2>4, <3>3 DEF StepsInv, StepTables
  <2>6. Made(run.at) = Len(proposals)
        /\ \A i \in Items : Made(i)' = IF i = run.at THEN Made(i) + 1 ELSE Made(i)
    <3>1. \A i \in Items \ {"proposal"} : i \in Plain \/ i = "mission" \/ i = "evidence"
      BY DEF Items
    <3> QED BY <1>1, <1>5, <1>6, <1>7, <1>11, <2>1, <2>4, <3>1
  <2>7. run' \in RunRecord /\ run'.at = run.at /\ run'.unsaved = Made(run.at) + 1
        /\ run'.mission = run.mission
    BY <1>3, <1>4, <2>1, <2>6
  <2>8. CancelledStay /\ Len(missions') = Len(missions)
    BY <2>1, MissionsStay DEF StepsInv
  <2> QED BY <1>1, <1>2, <1>11, <2>4, <2>5, <2>6, <2>7, <2>8, RowIsMade DEF StepsInv
<1> QED BY <1>1, <1>8, <1>9, <1>10, <1>11 DEF Items

LEMMA MissionStepsAreTyped ==
  \A s \in DOMAIN MissionSteps :
    /\ MissionSteps[s].from \in {"queued", "running", "waiting"}
    /\ MissionSteps[s].to \in {"running", "waiting", "completed"}
    /\ MissionSteps[s].to = "completed" <=> s = "complete"
    /\ s \notin {"project", "collection", "mission", "evidence", "proposal"} \union Spaces
BY DEF MissionSteps, Spaces

LEMMA OperationKeeps == ASSUME StepsInv, MissionOperation PROVE StepsInv'
<1> DEFINE step == MissionSteps[run.at]  m == run.mission
<1>1. run.at \in DOMAIN MissionSteps
      /\ UNCHANGED << settings, closed, rows, evidence, proposals, queue, tears >>
  BY DEF MissionOperation, files, counters
<1>2. run # Idle /\ RunHolds(run) /\ run \in RunRecord
  BY <1>1, RunIsThere, ItemsAreSteps
<1>3. run.unsaved = 0 /\ run.at \notin {"evidence", "proposal"}
  <2>1. run.at \notin Items
    BY <1>1 DEF MissionSteps, Items, Plain, Spaces
  <2> QED BY <1>2, <2>1 DEF RunHolds, Items
<1>4. m \in DOMAIN missions /\ m # 0
  <2>1. m # 0
    BY <1>1, <1>2, MissionStepsAreTyped DEF RunHolds
  <2>2. m \in Nat /\ m <= Len(missions) /\ Len(missions) \in Nat /\ DOMAIN missions = 1 .. Len(missions)
    BY <1>2, IdsAreRows DEF RunHolds, RunRecord, StepsInv
  <2> QED BY <2>1, <2>2
<1>5. StepTables' /\ CancelledStay /\ Len(missions') = Len(missions)
      /\ \A i \in Items : Made(i)' = Made(i)
  <2>1. CASE missions' = missions
    BY <1>1, <2>1, TablesStay DEF StepsInv, StepTables, StepsTypeOK
  <2>2. CASE missions' # missions
    <3> DEFINE x == missions'[m]
    <3>1. /\ missions[m].state = step.from
          /\ missions' = [missions EXCEPT
                ![m].state = step.to,
                ![m].outcome = IF run.at = "complete" THEN settings["proposal"] ELSE @]
      BY <2>2 DEF MissionOperation
    <3>2. missions[m] \in FirstMission
      BY <1>4, IdsAreRows DEF StepsInv
    <3>3. PICK y : y = [missions[m] EXCEPT
                !.state = step.to,
                !.outcome = IF run.at = "complete" THEN settings["proposal"] ELSE @]
      OBVIOUS
    <3>4. missions' = [missions EXCEPT ![m] = y]
      BY <1>4, <3>1, <3>3
    <3>5. settings["proposal"] \in 0 .. Len(proposals) /\ Len(proposals) \in Nat
      BY IdsAreRows DEF StepsInv, StepTables, StepsTypeOK
    <3>6. /\ y.state = step.to
          /\ y.outcome = IF run.at = "complete" THEN settings["proposal"] ELSE missions[m].outcome
          /\ y \in FirstMission
      <4>1. step.to \in MissionStates
        BY <1>1, MissionStepsAreTyped DEF MissionStates
      <4>2. settings["proposal"] \in Nat
        BY <3>5
      <4> HIDE DEF step
      <4> QED BY <3>2, <3>3, <4>1, <4>2 DEF FirstMission
    <3>7. y.outcome \in (IF y.state = "completed" THEN 1 .. Len(proposals) ELSE {0})
      <4>1. missions[m].state # "completed" => missions[m].outcome = 0
        BY <1>4 DEF StepsInv, StepTables, StepsTypeOK
      <4>2. missions[m].state # "completed"
        BY <1>1, <3>1, MissionStepsAreTyped
      <4>3. run.at = "complete" => settings["proposal"] # 0
        BY <1>2 DEF RunHolds
      <4>4. step.to = "completed" <=> run.at = "complete"
        BY <1>1, MissionStepsAreTyped
      <4> HIDE DEF step
      <4> QED BY <3>5, <3>6, <4>1, <4>2, <4>3, <4>4
    <3>8. missions[m].state # "cancelled"
      BY <1>1, <3>1, MissionStepsAreTyped
    <3> QED BY <1>1, <1>4, <3>4, <3>6, <3>7, <3>8, MissionsMove DEF StepsInv, files
  <2> QED BY <2>1, <2>2
<1>6. CASE run' = Idle
  <2>1. RunIsSound' /\ CountAll(LostRows') <= tears'
    BY <1>1, <1>3, <1>5, <1>6, RunEnds DEF StepsInv, StepTables
  <2> QED BY <1>5, <2>1 DEF StepsInv
<1>7. CASE run' # Idle
  <2>1. PICK r \in RunRecord : r.at = run.at /\ r.mission = run.mission /\ GoOn(r)
    <3>1. CASE GoOn(run)
      BY <1>2, <3>1
    <3>2. CASE ~ GoOn(run)
      <4>1. GoOn([run EXCEPT !.state = step.to])
        BY <1>7, <3>2 DEF MissionOperation, EndRun
      <4>2. step.to \in MissionStates
        BY <1>1, MissionStepsAreTyped DEF MissionStates
      <4>3. /\ [run EXCEPT !.state = step.to] \in RunRecord
            /\ [run EXCEPT !.state = step.to].at = run.at
            /\ [run EXCEPT !.state = step.to].mission = run.mission
        BY <1>2, <4>2 DEF RunRecord
      <4> HIDE DEF step
      <4> QED BY <4>1, <4>3
    <3> QED BY <3>1, <3>2
  <2>2. r.mission <= Len(missions') /\ Len(missions') \in Nat
    BY <1>2, <1>5, <2>1, IdsAreRows DEF RunHolds, StepsInv
  <2>3. RunIsSound'
    BY <1>1, <1>2, <1>3, <1>4, <2>1, <2>2, RunGoesOn
  <2>4. \A i \in Items : Known(i) \subseteq Known(i)' \union {0}
    BY <1>1, <1>3 DEF Known
  <2>5. CountAll(LostRows') <= tears'
    BY <1>1, <1>5, <2>4, NothingIsLost, CountStays DEF StepsInv, StepTables
  <2> QED BY <1>5, <2>3, <2>5 DEF StepsInv
<1> QED BY <1>6, <1>7

LEMMA ReviewKeeps == ASSUME StepsInv, ReviewOutcome PROVE StepsInv'
<1> DEFINE p == missions[run.mission].outcome
<1>1. run.at = "review" /\ run' = Idle
      /\ UNCHANGED << settings, closed, rows, missions, evidence, queue, tears >>
  BY DEF ReviewOutcome, EndRun, files, counters
<1>2. RunHolds(run) /\ run \in RunRecord
  BY <1>1, RunIsThere, ItemsAreSteps
<1>3. run.unsaved = 0
  <2>1. run.at \notin Items
    BY <1>1 DEF Items, Plain, Spaces
  <2> QED BY <1>2, <2>1 DEF RunHolds
<1>4. run.mission \in DOMAIN missions
  <2>1. run.mission # 0
    BY <1>1, <1>2 DEF RunHolds, Spaces
  <2>2. /\ run.mission \in Nat /\ run.mission <= Len(missions) /\ Len(missions) \in Nat
        /\ DOMAIN missions = 1 .. Len(missions)
    BY <1>2, IdsAreRows DEF RunHolds, RunRecord, StepsInv
  <2> QED BY <2>1, <2>2
<1>5. StepTables' /\ Len(proposals') = Len(proposals)
  <2>1. CASE proposals' = proposals
    BY <1>1, <2>1, TablesStay DEF StepsInv, StepTables, StepsTypeOK
  <2>2. CASE proposals' # proposals
    <3>1. p # 0 /\ proposals' = [proposals EXCEPT ![p].status = "Accepted"]
      BY <2>2 DEF ReviewOutcome
    <3>2. p \in DOMAIN proposals
      BY <1>4, <3>1, IdsAreRows DEF StepsInv, StepTables, StepsTypeOK
    <3> HIDE DEF p
    <3> QED BY <1>1, <3>1, <3>2, ProposalIsDecided DEF StepsInv
  <2> QED BY <2>1, <2>2
<1>6. CancelledStay /\ \A i \in Items : Made(i)' = Made(i)
  BY <1>1, <1>5, MissionsStay, MadeStays DEF StepsInv
<1>7. RunIsSound' /\ CountAll(LostRows') <= tears'
  BY <1>1, <1>3, <1>6, RunEnds DEF StepsInv, StepTables
<1> QED BY <1>5, <1>7 DEF StepsInv

LEMMA StepsInvInit == StepsInit => StepsInv
<1> SUFFICES ASSUME StepsInit PROVE StepsInv
  OBVIOUS
<1>1. missions = <<>> /\ evidence = <<>> /\ proposals = <<>> /\ queue = <<>> /\ run = Idle
      /\ tears = 0
  BY DEF StepsInit
<1>2. Len(missions) = 0 /\ DOMAIN missions = {} /\ Len(evidence) = 0 /\ Len(proposals) = 0
      /\ DOMAIN proposals = {}
  BY <1>1
<1>3. /\ missions \in Seq(FirstMission) /\ evidence \in Seq(Nat) /\ proposals \in Seq(GoalProposal)
      /\ queue \in Seq(Kinds)
  BY <1>1, EmptySeq
<1>4. {"mission", "evidence", "proposal"} \union Plain = Items
  BY DEF Items
<1>5. /\ settings = [i \in Items |-> 0] /\ rows = [i \in Plain |-> 0]
      /\ closed \in [completed : BOOLEAN, dismissed : BOOLEAN]
  BY DEF StepsInit
<1>6. StepsTypeOK
  BY <1>2, <1>4, <1>5 DEF StepsTypeOK
<1>7. StepTables
  BY <1>1, <1>3, <1>5, <1>6 DEF StepTables
<1>8. CountAll(LostRows) <= tears
  <2>1. \A i \in Items : Made(i) = 0
    BY <1>2, <1>4, <1>5 DEF Made
  <2>2. \A i \in Items : LostRows[i] = {}
    BY <2>1 DEF LostRows, Used
  <2>3. Cardinality({}) = 0
    BY FS_EmptySet
  <2>4. {"project", "collection", "source", "space1", "space2", "space3", "mission",
         "evidence", "proposal"} = Items
    BY DEF Items, Plain, Spaces
  <2>5. \A i \in Items : Cardinality(LostRows[i]) = 0
    BY <2>2, <2>3
  <2>6. CountAll(LostRows) = 0 + 0 + 0 + 0 + 0 + 0 + 0 + 0 + 0
    BY <2>4, <2>5 DEF CountAll
  <2> QED BY <1>1, <2>6
<1> QED BY <1>1, <1>7, <1>8 DEF StepsInv, RunIsSound

LEMMA StepsInvInductive == StepsInv /\ [StepsNext]_stepVars => StepsInv'
<1> SUFFICES ASSUME StepsInv, [StepsNext]_stepVars PROVE StepsInv'
  OBVIOUS
<1>1. CASE UNCHANGED stepVars
  <2>1. UNCHANGED << settings, closed, rows, missions, evidence, proposals, queue, run, tears >>
    BY <1>1 DEF stepVars
  <2>2. StepTables' /\ CancelledStay /\ \A i \in Items : Made(i)' = Made(i)
    BY <2>1, TablesStay DEF StepsInv, StepTables, StepsTypeOK
  <2> QED BY <2>1, <2>2, BesideTheRun DEF StepsInv
<1>2. CASE StepsNext
  <2>1. CASE \E k \in Kinds : Propose(k) \/ Take(k)
    BY <2>1, RequestsKeep
  <2>2. CASE Run
    BY <2>2, BeginKeeps, SkipKeeps, CreateKeeps, SaveKeeps, OperationKeeps, ReviewKeeps, StopsKeep
    DEF Run
  <2>3. CASE Restart
    BY <2>3, StopsKeep
  <2>4. CASE Captain
    BY <2>4, CaptainKeeps
  <2> QED BY <1>2, <2>1, <2>2, <2>3, <2>4 DEF StepsNext
<1> QED BY <1>1, <1>2

LEMMA StepsInvHolds == StepsSpec => []StepsInv
<1> QED BY StepsInvInit, StepsInvInductive, PTL DEF StepsSpec

(* In any order of proposals, clicks, failures and restarts, a step of the  *)
(* setup makes a second row only for an id that was lost between the row    *)
(* and the settings file, one for each (executeAction, save).               *)
THEOREM NoStepIsRepeated == StepsSpec => []DuplicatesAreTorn
<1>1. StepsInv => DuplicatesAreTorn
  BY DuplicatesAreLost DEF DuplicatesAreTorn, StepsInv, StepTables
<1> QED BY <1>1, StepsInvHolds, PTL

(* A saved id is only replaced for a Mission that was cancelled, and what   *)
(* the captain closed stays closed, whatever run saves afterwards (save).   *)
THEOREM SettingsSurviveRuns == StepsSpec => SettingsAreKept
<1> DEFINE Kept ==
      /\ closed.completed => closed'.completed
      /\ closed.dismissed => closed'.dismissed
      /\ \A i \in Items :
           settings'[i] # settings[i] /\ settings[i] # 0 =>
             i = "mission" /\ missions[settings[i]].state = "cancelled"
<1>1. ASSUME StepsInv, [StepsNext]_stepVars PROVE Kept
  <2>1. CASE SaveId
    <3>1. run.at \in Items /\ run.unsaved # 0 /\ closed' = closed
          /\ settings' = [settings EXCEPT ![run.at] = run.unsaved]
      BY <2>1 DEF SaveId
    <3>2. RunHolds(run)
      BY <1>1, <3>1, RunIsThere, ItemsAreSteps
    <3>3. run.at # "mission" => settings[run.at] = 0
      BY <3>1, <3>2 DEF RunHolds
    <3>4. run.at = "mission" /\ settings["mission"] # 0
            => missions[settings["mission"]].state = "cancelled"
      BY <3>1, <3>2 DEF RunHolds, CurrentMission
    <3>5. \A i \in Items \ {run.at} : settings'[i] = settings[i]
      BY <1>1, <3>1 DEF StepsInv, StepTables, StepsTypeOK
    <3> QED BY <3>1, <3>3, <3>4, <3>5
  <2>2. ASSUME NEW skipped \in BOOLEAN, FinishSetup(skipped) PROVE Kept
    BY <2>2 DEF FinishSetup
  <2>3. CASE UNCHANGED << settings, closed >>
    BY <2>3
  <2>4. CASE UNCHANGED stepVars
    BY <2>3, <2>4 DEF stepVars
  <2>5. CASE \E k \in Kinds : Propose(k) \/ Take(k)
    <3>1. ASSUME NEW k \in Kinds, Propose(k) PROVE UNCHANGED << settings, closed >>
      <4>1. UNCHANGED << files, store, queue, run, counters >>
        BY <3>1, Zenon DEF Propose
      <4> QED BY <4>1, Zenon DEF files
    <3>2. ASSUME NEW k \in Kinds, Take(k) PROVE UNCHANGED << settings, closed >>
      BY <3>2 DEF Take, files
    <3> QED BY <2>3, <2>5, <3>1, <3>2
  <2>6. CASE Begin \/ SkipRow \/ CreateRow \/ MissionOperation \/ ReviewOutcome
             \/ OperationFails \/ SaveFails \/ Restart
    BY <2>3, <2>6 DEF Begin, SkipRow, CreateRow, MissionOperation, ReviewOutcome,
                      OperationFails, SaveFails, Restart, files
  <2>7. CASE \E m \in DOMAIN missions : Answer(m) \/ Pause(m) \/ Resume(m) \/ Cancel(m)
    BY <2>3, <2>7 DEF Answer, Pause, Resume, Cancel, Move, files
  <2>8. CASE \E p \in DOMAIN proposals : ReviewElsewhere(p)
    BY <2>3, <2>8 DEF ReviewElsewhere, files
  <2> QED BY <1>1, <2>1, <2>2, <2>4, <2>5, <2>6, <2>7, <2>8 DEF StepsNext, Run, Captain
<1>2. StepsInv /\ [StepsNext]_stepVars => [Kept]_stepVars
  BY <1>1
<1> QED BY <1>2, StepsInvHolds, PTL DEF StepsSpec, SettingsAreKept
=============================================================================
