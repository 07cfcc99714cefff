------------------------------- MODULE DemoGuide -------------------------------
(***************************************************************************)
(* The guided demo: DemoCoordinator                                        *)
(* (packages/demo/src/orchestration/coordinator.ts) behind its server, and *)
(* the command that proves MCP parity (mcp-proof-cli.ts).  The guide's     *)
(* stage is never stored: it is derived from the database, from            *)
(* runtime.json and from two more files beside it, which the two processes *)
(* share without a lock.                                                   *)
(*                                                                         *)
(* The server runs one handler at a time (its database is synchronous);    *)
(* the command runs between the handler's file operations, and either may  *)
(* stop there.  An update of runtime.json is a read of the whole file and  *)
(* a later write of the whole file.                                        *)
(*                                                                         *)
(* The model is of the demo as Windows runs it, where a database that is   *)
(* open cannot be moved away: Reset and the command exclude each other.    *)
(* Where files are moved while they are open (as in the Linux jobs of CI)  *)
(* they do not, and that is not modelled.  A reset seeds the stage         *)
(* Prepared, as the server does.                                           *)
(*                                                                         *)
(* A person may call any handler at any time, as a page left open or a     *)
(* direct request does.  Reasons, evidence, receipts shown to the person   *)
(* and the navigation projection are left out.                             *)
(***************************************************************************)
EXTENDS Naturals, Sequences, FiniteSets

CONSTANTS
  MaxTrouble      (* bound on the Proposals rejected, the calls that stop   *)
                  (* in the middle and the resets, all together             *)

ASSUME DemoConstants == MaxTrouble \in Nat

Server == "server"
Proof == "proof"
DemoProcesses == {Server, Proof}

(* The Proposals of the story; the manifest fixes the first id of three.    *)
Initials == {"identity", "portal"}
Fixed == {"Relationship", "Successor", "Restoration"}
Kinds == Initials \union Fixed
Nothing == "nothing"

VARIABLES
  present,        (* the database file is in its place                      *)
  db,             (* what the database holds                                *)
  runtime,        (* runtime.json                                           *)
  request,        (* last-context-request.json exists                       *)
  proof,          (* mcp-proof.json: absent, or with its verdict            *)
  todo,           (* what the call of each process still has to do          *)
  read,           (* the runtime.json a process read and will write back    *)
  direct,         (* the package the proof command built without MCP        *)
  lost,           (* a rejection is missing from runtime.json               *)
  confirmed,      (* the demo run whose temporal views were confirmed       *)
  trouble         (* how much there was                                     *)

files == << runtime, request, proof >>
watched == << lost, confirmed >>
guideVars == << present, db, files, todo, read, direct, watched, trouble >>

Runs == 1 .. (1 + MaxTrouble)

(* seedPrepared: two Initial Proposals, open for review.                    *)
Seeded(run) ==
  [run |-> run, inbox |-> Initials, accepted |-> {}, used |-> {},
   assessed |-> {}, rollback |-> FALSE, plan |-> FALSE]

NoKeys == [rejected |-> {}, fingerprint |-> FALSE, review |-> 0]

(* An artifactIds that is replaced, where mergeArtifacts merges.            *)
Replaced(file, keys) ==
  IF keys = NoKeys THEN file ELSE [keys EXCEPT !.review = file.review]

Merged(file, keys) ==
  [rejected |-> file.rejected \union keys.rejected,
   fingerprint |-> file.fingerprint \/ keys.fingerprint,
   review |-> IF keys.review = 0 THEN file.review ELSE keys.review]

NotRead == [done |-> FALSE, file |-> NoKeys]
Step(do) == [do |-> do, keys |-> NoKeys]
Update(keys) == [do |-> "update", keys |-> keys]
Receipt == Update(NoKeys)

GuideInit ==
  /\ present = TRUE /\ db = Seeded(1)
  /\ runtime = NoKeys /\ request = FALSE /\ proof = "absent"
  /\ todo = [p \in DemoProcesses |-> << >>]
  /\ read = [p \in DemoProcesses |-> NotRead]
  /\ direct = << >>
  /\ lost = FALSE /\ confirmed = 0
  /\ trouble = 0

-----------------------------------------------------------------------------
(* What the guide derives from the database and the files.                 *)

Role(d) ==
  IF "Restoration" \in d.accepted THEN "Restoration"
  ELSE IF "Successor" \in d.accepted THEN "Successor"
  ELSE IF "identity" \in d.accepted THEN "Initial" ELSE "none"

HasDependency(d) == "Relationship" \in d.accepted

(* A deriveStage that asks for the assessment before the Rollback.          *)
SuccessorStageByAssessment(d) ==
  IF "v2" \in d.assessed THEN "ImpactAssessed"
  ELSE IF d.rollback THEN "RollbackRecorded" ELSE "V2Accepted"

SuccessorStage(d) ==
  IF d.rollback THEN "RollbackRecorded"
  ELSE IF "v2" \in d.assessed THEN "ImpactAssessed" ELSE "V2Accepted"

DeriveStage(d) ==
  IF ~(Initials \subseteq d.accepted) THEN "Prepared"
  ELSE IF ~HasDependency(d) THEN "V1Accepted"
  ELSE CASE Role(d) = "Initial" -> "DependencyAccepted"
         [] Role(d) = "Successor" -> SuccessorStage(d)
         [] Role(d) = "Restoration" ->
              IF proof = "passed" THEN "Complete" ELSE "V3Restored"

(* The Proposal a stage waits for.                                          *)
Required(stage) ==
  CASE stage = "V1Accepted" -> {"Relationship"}
    [] stage = "DependencyAccepted" -> {"Successor"}
    [] stage = "RollbackRecorded" -> {"Restoration"}
    [] OTHER -> {}

Interrupted ==
  LET stage == DeriveStage(db)
  IN IF stage = "Prepared"
     THEN Cardinality(Initials \intersect (db.accepted \union db.inbox)) < 2
     ELSE ~(Required(stage) \subseteq db.inbox)

ContextReady == request /\ runtime.fingerprint
Parity == proof = "passed"

(* A temporalReviewMatches that forgets to compare the revisions.           *)
MatchesAnyRevisions(review) == review # 0

(* The three revisions that a receipt names are those of one run: ids are   *)
(* random after a reset to Prepared.  (demo:reset --stage seeds a later     *)
(* stage with ids that are the same in every run; it is not modelled.)      *)
TemporalReviewMatches(review) == review = db.run

CanConfirm == Role(db) = "Restoration" /\ db.plan
TemporalReviewComplete == CanConfirm /\ TemporalReviewMatches(runtime.review)

Complete == present /\ Parity /\ ContextReady /\ TemporalReviewComplete

-----------------------------------------------------------------------------
(* The steps of a call.                                                    *)

NoCall(p) == todo[p] = << >>
NextIs(p, do) == ~NoCall(p) /\ Head(todo[p]).do = do
Then(p, steps) == todo' = [todo EXCEPT ![p] = steps \o Tail(@)]
Begin(p, steps) == NoCall(p) /\ present /\ todo' = [todo EXCEPT ![p] = steps]
Meet(n) == trouble + n <= MaxTrouble /\ trouble' = trouble + n

GiveUp(p) == todo' = [todo EXCEPT ![p] = << >>]

ResetSteps ==
  << Step("moveAway"), Step("moveIn"), Step("dropProof"), Step("dropRequest"),
     Step("newRuntime") >>
Resetting == ~NoCall(Server) /\ \E i \in DOMAIN ResetSteps : NextIs(Server, ResetSteps[i].do)

ReadRuntime(p) ==
  /\ NextIs(p, "update") /\ ~read[p].done
  /\ read' = [read EXCEPT ![p] = [done |-> TRUE, file |-> runtime]]
  /\ UNCHANGED << present, db, files, todo, direct, watched, trouble >>

WriteRuntime(p) ==
  /\ NextIs(p, "update") /\ read[p].done
  /\ runtime' = Merged(read[p].file, Head(todo[p]).keys)
  /\ lost' = (lost \/ ~(runtime.rejected \subseteq read[p].file.rejected))
  /\ read' = [read EXCEPT ![p] = NotRead]
  /\ Then(p, << >>)
  /\ UNCHANGED << present, db, request, proof, direct, confirmed, trouble >>

(* A process stops: what its call still had to do is never done.            *)
Stop(p) ==
  /\ ~NoCall(p) /\ Meet(1)
  /\ GiveUp(p)
  /\ read' = [read EXCEPT ![p] = NotRead]
  /\ lost' = (lost \/ \E i \in DOMAIN todo[p] : todo[p][i].do = "update"
                        /\ ~(todo[p][i].keys.rejected \subseteq runtime.rejected))
  /\ UNCHANGED << present, db, files, direct, confirmed >>

-----------------------------------------------------------------------------
(* Preparing the next Proposal (resumeOne).                                *)

NextArtifact(d) ==
  LET missing == { kind \in Kinds \ d.inbox :
        CASE kind \in Initials -> kind \notin d.accepted
          [] kind = "Relationship" -> Initials \subseteq d.accepted /\ ~HasDependency(d)
          [] kind = "Successor" -> HasDependency(d) /\ Role(d) = "Initial"
          [] kind = "Restoration" -> d.rollback /\ Role(d) = "Successor" }
  IN IF missing = {} THEN Nothing
     ELSE IF "identity" \in missing THEN "identity"
     ELSE IF "portal" \in missing THEN "portal" ELSE CHOOSE k \in missing : TRUE

(* A recoveryId that always takes the id of the manifest.                   *)
HasManifestId(d, kind, keys) == kind \in Fixed => kind \notin d.used

(* recoveryId: the id of the manifest, unless a rejection is on record.     *)
HasFreeId(d, kind, keys) ==
  kind \in Fixed => kind \in keys.rejected \/ kind \notin d.used

(* A resumeOne that leaves the plan for after the Restoration.              *)
PlanIsDueLater(d) ==
  d.rollback /\ ~d.plan /\ NextArtifact(d) = Nothing

PlanIsDue(d) ==
  d.rollback /\ ~d.plan /\ NextArtifact(d) \in {"Restoration", Nothing}

Submitted(d, kind, keys) ==
  [d EXCEPT !.inbox = @ \union {kind},
            !.used = IF kind \in Fixed /\ kind \notin keys.rejected
                     THEN @ \union {kind} ELSE @]

(* prepareNextArtifact: the session copies the artifact ids of the file.    *)
OpenSession ==
  /\ \E do \in {"prepare", "resume"} :
       /\ NextIs(Server, do)
       /\ Then(Server, << [do |-> IF do = "prepare" THEN "submit" ELSE "resubmit",
                           keys |-> [runtime EXCEPT !.review = 0]] >>)
  /\ UNCHANGED << present, db, files, read, direct, watched, trouble >>

AtSubmit == NextIs(Server, "submit") \/ NextIs(Server, "resubmit")

CreatePlan ==
  /\ AtSubmit /\ PlanIsDue(db)
  /\ db' = [db EXCEPT !.plan = TRUE]
  /\ UNCHANGED << present, files, todo, read, direct, watched, trouble >>

SubmitNext ==
  /\ AtSubmit /\ ~PlanIsDue(db)
  /\ LET kind == NextArtifact(db)
         keys == Head(todo[Server]).keys
     IN \/ /\ kind = Nothing
           /\ Then(Server, << Update(keys) >>) /\ UNCHANGED db
        \/ /\ kind # Nothing /\ HasFreeId(db, kind, keys)
           /\ db' = Submitted(db, kind, keys)
           /\ Then(Server, << Update(keys) >>)
        \/ /\ kind # Nothing /\ ~HasFreeId(db, kind, keys)
           /\ UNCHANGED db
           /\ IF NextIs(Server, "submit") THEN Then(Server, << >>) ELSE GiveUp(Server)
  /\ UNCHANGED << present, files, read, direct, watched, trouble >>

(* POST /api/demo/resume                                                    *)
Resume ==
  /\ Begin(Server, << Step("resume"), Receipt >>)
  /\ UNCHANGED << present, db, files, read, direct, watched, trouble >>

-----------------------------------------------------------------------------
(* The calls of the server.                                                *)

(* The keys a Decision leaves in runtime.json.                              *)
DecisionKeys(kind, decision) ==
  [NoKeys EXCEPT !.rejected =
     IF decision = "Rejected" THEN {kind} \intersect Fixed ELSE {}]

Decided(d, kind, decision) ==
  [d EXCEPT !.inbox = @ \ {kind},
            !.accepted = IF decision = "Accepted" THEN @ \union {kind} ELSE @]

(* What follows a Decision once it is committed.                            *)
AfterDecision(kind, decision) ==
  << Update(DecisionKeys(kind, decision)) >>
  \o (IF decision = "Accepted" THEN << Step("prepare") >> ELSE << >>)
  \o (IF decision = "Accepted" /\ kind = "Restoration" THEN << Step("assess") >> ELSE << >>)
  \o << Receipt >>

(* reviewKnowledge and reviewRelationship                                   *)
Review(kind, decision) ==
  /\ kind \in db.inbox
  /\ Begin(Server, AfterDecision(kind, decision))
  /\ db' = Decided(db, kind, decision)
  /\ Meet(IF decision = "Rejected" THEN 1 ELSE 0)
  /\ UNCHANGED << present, files, read, direct, watched >>

Assessment(d) == IF Role(d) = "Restoration" THEN "v3" ELSE "v2"
CanAssess(d) == HasDependency(d) /\ Assessment(d) \notin d.assessed
Assessed(d) == [d EXCEPT !.assessed = @ \union {Assessment(d)}]

(* POST /api/demo/assess-impact                                             *)
AssessImpact ==
  /\ CanAssess(db)
  /\ Begin(Server, << Receipt, Receipt >>)
  /\ db' = Assessed(db)
  /\ UNCHANGED << present, files, read, direct, watched, trouble >>

(* The assessment that follows the acceptance of the Restoration.           *)
AssessRestoration ==
  /\ NextIs(Server, "assess")
  /\ IF CanAssess(db)
     THEN db' = Assessed(db) /\ Then(Server, << Receipt >>)
     ELSE UNCHANGED db /\ GiveUp(Server)
  /\ UNCHANGED << present, files, read, direct, watched, trouble >>

(* POST /api/demo/rollback                                                  *)
RecordRollback ==
  /\ Role(db) = "Successor" /\ ~db.rollback
  /\ Begin(Server, << Receipt, Step("prepare"), Receipt >>)
  /\ db' = [db EXCEPT !.rollback = TRUE]
  /\ UNCHANGED << present, files, read, direct, watched, trouble >>

(* POST /api/demo/temporal-reviewed                                         *)
ConfirmTemporalReview ==
  /\ CanConfirm
  /\ Begin(Server, << Update([NoKeys EXCEPT !.review = db.run]) >>)
  /\ confirmed' = db.run
  /\ UNCHANGED << present, db, files, read, direct, lost, trouble >>

(* buildContextPackage: the request file, then the fingerprint.             *)
ContextSteps ==
  << Step("request"), Update([NoKeys EXCEPT !.fingerprint = TRUE]), Receipt >>
CanBuildContext(d) == "portal" \in d.accepted

BuildContextPackage ==
  /\ CanBuildContext(db)
  /\ Begin(Server, ContextSteps)
  /\ UNCHANGED << present, db, files, read, direct, watched, trouble >>

WriteRequest(p) ==
  /\ NextIs(p, "request")
  /\ request' = TRUE
  /\ Then(p, << >>)
  /\ UNCHANGED << present, db, runtime, proof, read, direct, watched, trouble >>

-----------------------------------------------------------------------------
(* Reset.  A database that is missing can only be reset.  While the proof  *)
(* command has the database open it cannot be moved away (on Windows).     *)

Reset ==
  /\ NoCall(Server) /\ NoCall(Proof)
  /\ Meet(IF present THEN 1 ELSE 0)
  /\ todo' = [todo EXCEPT ![Server] = IF present THEN ResetSteps ELSE Tail(ResetSteps)]
  /\ UNCHANGED << present, db, files, read, direct, watched >>

ResetStep ==
  /\ Resetting
  /\ LET do == Head(todo[Server]).do
     IN /\ present' = IF do = "moveAway" THEN FALSE ELSE IF do = "moveIn" THEN TRUE ELSE present
        /\ db' = IF do = "moveIn" THEN Seeded(db.run + 1) ELSE db
        /\ proof' = IF do = "dropProof" THEN "absent" ELSE proof
        /\ request' = IF do = "dropRequest" THEN FALSE ELSE request
        /\ runtime' = IF do = "newRuntime" THEN NoKeys ELSE runtime
        /\ lost' = IF do = "moveIn" THEN FALSE ELSE lost
  /\ Then(Server, << >>)
  /\ UNCHANGED << read, direct, confirmed, trouble >>

-----------------------------------------------------------------------------
(* The command: npm run demo:mcp:proof.                                    *)

(* What a Current package of the portal shows of the database.              *)
Package(d) == << d.run, d.accepted, d.assessed >>

RunProof ==
  /\ ~Resetting
  /\ request \/ CanBuildContext(db)
  /\ Begin(Proof, (IF request THEN << >> ELSE ContextSteps)
                  \o << Step("direct"), Step("mcp") >>)
  /\ UNCHANGED << present, db, files, read, direct, watched, trouble >>

BuildDirect ==
  /\ NextIs(Proof, "direct")
  /\ IF CanBuildContext(db)
     THEN direct' = Package(db) /\ Then(Proof, << >>)
     ELSE UNCHANGED direct /\ GiveUp(Proof)
  /\ UNCHANGED << present, db, files, read, watched, trouble >>

CallMcp ==
  /\ NextIs(Proof, "mcp")
  /\ Then(Proof, << Step(IF Package(db) = direct THEN "passed" ELSE "failed") >>)
  /\ direct' = << >>
  /\ UNCHANGED << present, db, files, read, watched, trouble >>

WriteProof ==
  /\ \E verdict \in {"passed", "failed"} : NextIs(Proof, verdict) /\ proof' = verdict
  /\ Then(Proof, << >>)
  /\ UNCHANGED << present, db, runtime, request, read, direct, watched, trouble >>

-----------------------------------------------------------------------------

ServerStep ==
  \/ ReadRuntime(Server) \/ WriteRuntime(Server) \/ WriteRequest(Server)
  \/ OpenSession \/ CreatePlan \/ SubmitNext \/ AssessRestoration \/ ResetStep

ProofStep ==
  \/ ReadRuntime(Proof) \/ WriteRuntime(Proof) \/ WriteRequest(Proof)
  \/ BuildDirect \/ CallMcp \/ WriteProof

GuideNext ==
  \/ ServerStep
  \/ ProofStep
  \/ \E p \in DemoProcesses : Stop(p)
  \/ \E kind \in Kinds, decision \in {"Accepted", "Rejected"} : Review(kind, decision)
  \/ Resume \/ AssessImpact \/ RecordRollback \/ ConfirmTemporalReview
  \/ BuildContextPackage \/ Reset \/ RunProof

(* The primary action of guidedState and guidedConfiguration.               *)
FollowGuide ==
  LET stage == DeriveStage(db)
      last == stage \in {"V3Restored", "Complete"}
  IN /\ present /\ ~Resetting
     /\ \/ Interrupted /\ Resume
        \/ /\ ~Interrupted
           /\ \/ stage = "Prepared" /\ \E k \in Initials : Review(k, "Accepted")
              \/ \E k \in Required(stage) : Review(k, "Accepted")
              \/ stage = "V2Accepted" /\ AssessImpact
              \/ stage = "ImpactAssessed" /\ RecordRollback
              \/ stage = "V3Restored" /\ ContextReady /\ RunProof
              \/ stage = "V3Restored" /\ ~ContextReady /\ TemporalReviewComplete
                   /\ BuildContextPackage
              \/ stage = "V3Restored" /\ ~ContextReady /\ ~TemporalReviewComplete
                   /\ ConfirmTemporalReview
              \/ stage = "Complete" /\ ~TemporalReviewComplete /\ ConfirmTemporalReview
              \/ stage = "Complete" /\ TemporalReviewComplete /\ ~ContextReady
                   /\ BuildContextPackage

GuideSpec == GuideInit /\ [][GuideNext]_guideVars

(* A call goes on; the person follows the guide, and resets a demo whose    *)
(* database is missing.                                                     *)
FairGuideSpec ==
  /\ GuideSpec
  /\ WF_guideVars(ServerStep) /\ WF_guideVars(ProofStep)
  /\ SF_guideVars(FollowGuide) /\ WF_guideVars(~present /\ Reset)

-----------------------------------------------------------------------------

Keys == [rejected : SUBSET Fixed, fingerprint : BOOLEAN, review : {0} \union Runs]

(* The files and the database stay within what their readers understand,    *)
(* and what was accepted is no longer open.                                 *)
GuideTypeOK ==
  /\ present \in BOOLEAN /\ request \in BOOLEAN /\ lost \in BOOLEAN
  /\ proof \in {"absent", "failed", "passed"}
  /\ runtime \in Keys /\ confirmed \in {0} \union Runs
  /\ db \in [run : Runs, inbox : SUBSET Kinds, accepted : SUBSET Kinds,
             used : SUBSET Fixed, assessed : SUBSET {"v2", "v3"},
             rollback : BOOLEAN, plan : BOOLEAN]
  /\ db.inbox \intersect db.accepted = {}
  /\ read \in [DemoProcesses -> [done : BOOLEAN, file : Keys]]
  /\ \A p \in DemoProcesses : \A i \in DOMAIN todo[p] : todo[p][i].keys \in Keys

(* The Restoration of the old format is never up for review, or accepted,   *)
(* without the plan that keeps the new format for later (resumeOne).        *)
RestorationHasItsPlan == "Restoration" \in db.inbox \union db.accepted => db.plan

(* Whatever the person rejects, the guide can go on: when it shows that a   *)
(* Proposal is missing, "Prepare a new Proposal" finds an id that is free,  *)
(* unless a stop or the other process cost the note of the rejection        *)
(* (recoveryId, resumeOne, mergeArtifacts).                                 *)
RecoveryWorks ==
  /\ GuideTypeOK /\ RestorationHasItsPlan
  /\ NoCall(Server) /\ present /\ Interrupted /\ ~lost =>
       /\ NextArtifact(db) # Nothing
       /\ HasFreeId(db, NextArtifact(db), runtime)

(* The guide is only complete when the temporal views of this very run of   *)
(* the demo were confirmed, whatever files an earlier run, a stopped reset  *)
(* or the proof command left (guidedState, temporalReviewMatches).  This is *)
(* of runs that begin at Prepared; see TemporalReviewMatches.               *)
CompleteIsReviewed == Complete => confirmed = db.run

(* The order of DEMO_STAGES.                                                *)
Rank(stage) ==
  CASE stage = "Prepared" -> 0 [] stage = "V1Accepted" -> 1
    [] stage = "DependencyAccepted" -> 2 [] stage = "V2Accepted" -> 3
    [] stage = "ImpactAssessed" -> 4 [] stage = "RollbackRecorded" -> 5
    [] stage = "V3Restored" -> 6 [] stage = "Complete" -> 7

(* A later run of the proof command found, or seemed to find, a difference.  *)
ProofIsTakenBack ==
  /\ DeriveStage(db) = "Complete" /\ DeriveStage(db)' = "V3Restored"
  /\ NextIs(Proof, "failed")

(* Within one run the guide never goes back to an earlier stage, in         *)
(* whatever order the calls come, stopped resets and left-over files        *)
(* included, with one exception: a proof command that was overtaken by an   *)
(* acceptance or an assessment between its two readings writes that it      *)
(* failed, and a complete guide is back at V3Restored (deriveStage).        *)
StageMovesForward ==
  [][db'.run = db.run =>
       \/ Rank(DeriveStage(db)') >= Rank(DeriveStage(db))
       \/ ProofIsTakenBack]_guideVars

(* Who follows the guide completes it, through rejections, stops, resets    *)
(* and runs of the proof command, unless the note of a rejection was lost   *)
(* (guidedState, guidedConfiguration, resumeAfterCanonicalTransition).      *)
GuideCompletes == []<>(Complete \/ lost)

=============================================================================
