----------------------------- MODULE PatchReview -----------------------------
(***************************************************************************)
(* From a generated patch to its pull request: the critic service that     *)
(* validates a patch in a disposable sandbox and decides it, the delivery  *)
(* service that publishes an approved one, the pipeline stage that drives  *)
(* both for a scan, and other orchestration code calling either.  One step *)
(* is the code between two awaits; all calls run in one process and share  *)
(* the database.                                                           *)
(***************************************************************************)
EXTENDS Naturals, FiniteSets

CONSTANTS Patches,    \* patches the engineer has generated
          Pipelines,  \* critic stages, one per scan
          Clients,    \* other callers of critic.run() and deliver()
          ScanOf,     \* the pipeline whose scan a patch belongs to
          FaultKinds, \* subset of {"crash", "store"}
          MaxFaults   \* bound on the number of such faults

VARIABLES status,    \* Patch.status
          row,       \* the CriticRun row patchId#1, or None
          metadata,  \* patches whose row holds the pull request's number and url
          prError,   \* patches whose row holds a delivery error
          remote,    \* patches with a pull request on the host of the repository
          token,     \* a GitHub token is configured
          inFlight,  \* RemediationDeliveryService.inFlightByPatchId: who delivers, or None
          pc, on,    \* per caller: where its call awaits, and its patch
          verdict,   \* per caller: what its run found, in the end what it answers
          cause,     \* per caller: whose fault a rejection is
          box,       \* per caller: its run has a sandbox to tear down
          todo,      \* per pipeline: patches of its list still to be taken
          faults     \* faults so far

rows == <<status, row, metadata, prError>>
call == <<pc, on, verdict, cause, box>>
vars == <<rows, remote, token, inFlight, call, todo, faults>>

Callers == Pipelines \cup Clients
None == "none"

ASSUME ConstantsAssumption ==
  /\ Pipelines \cap Clients = {} /\ None \notin Callers
  /\ ScanOf \in [Patches -> Pipelines]
  /\ MaxFaults \in Nat

Open == {"GENERATED", "UNDER_REVIEW"}
Sealed == {"APPROVED", "REJECTED"}

(* The awaits of validate(), in order; the security gate is evaluated at   *)
(* once when the retest is over.                                           *)
Stages == {"provision", "baseline", "apply", "health", "build", "tests", "retest", "advisory"}
After ==
  [provision |-> "baseline", baseline |-> "apply", apply |-> "health", health |-> "build",
   build |-> "tests", tests |-> "retest", retest |-> "advisory", advisory |-> "approve"]
Reviewing == {"get", "mark"} \cup Stages \cup {"approve", "reject", "record", "insert", "ending"}
Delivering == {"load", "push", "lookup", "create", "store", "flag"}
PC == Reviewing \cup Delivering \cup {"joined", "idle", "list", "next", "answered", "over"}

Init ==
  /\ status = [p \in Patches |-> "GENERATED"]
  /\ row = [p \in Patches |-> None]
  /\ metadata = {} /\ prError = {} /\ remote = {} /\ token \in BOOLEAN
  /\ inFlight = [p \in Patches |-> None]
  /\ pc = [c \in Callers |-> IF c \in Pipelines THEN "list" ELSE "idle"]
  /\ on = [c \in Callers |-> None]
  /\ verdict = [c \in Callers |-> None] /\ cause = [c \in Callers |-> None]
  /\ box = [c \in Callers |-> FALSE]
  /\ todo = [s \in Pipelines |-> {}]
  /\ faults = 0

Goto(c, l) == pc' = [pc EXCEPT ![c] = l]
From(c, l, m) == pc[c] = l /\ Goto(c, m)
FaultOf(kind) == kind \in FaultKinds /\ faults < MaxFaults /\ faults' = faults + 1
Finds(c, v, why) == verdict' = [verdict EXCEPT ![c] = v] /\ cause' = [cause EXCEPT ![c] = why]

-----------------------------------------------------------------------------
(* critic.run(): the gate *)

(* getPatch and resolveForPatch: only GENERATED patches of a confirmed     *)
(* finding are taken, anything else is an error of the call.               *)
GetPatch(c) ==
  /\ pc[c] = "get"
  /\ \/ status[on[c]] = "GENERATED" /\ Goto(c, "mark") /\ UNCHANGED verdict
     \/ Goto(c, "answered") /\ verdict' = [verdict EXCEPT ![c] = "error"]
  /\ UNCHANGED <<rows, remote, token, inFlight, on, cause, box, todo, faults>>

(* updateMany WHERE status IN (GENERATED, UNDER_REVIEW).                   *)
MarkUnderReview(c) ==
  LET p == on[c]
  IN /\ \/ /\ From(c, "mark", "provision")
           /\ status' = [status EXCEPT ![p] = IF @ \in Open THEN "UNDER_REVIEW" ELSE @]
           /\ UNCHANGED <<verdict, faults>>
        \/ /\ From(c, "mark", "answered") /\ FaultOf("store")
           /\ verdict' = [verdict EXCEPT ![c] = "error"] /\ UNCHANGED status
     /\ UNCHANGED <<row, metadata, prError, remote, token, inFlight, on, cause, box, todo>>

-----------------------------------------------------------------------------
(* critic.run(): the validation *)

(* How a stage can fail, and whose fault that is: the class classifyFailure *)
(* gives to the error the stage throws.  A base file that cannot be read   *)
(* and a test command that cannot be run are thrown as PatchConflictError. *)
Failing ==
  [provision |-> {<<"FAILED", None>>},
   baseline  |-> {<<"FAILED", None>>},
   apply     |-> {<<"REJECTED", "patch">>, <<"REJECTED", "infra">>, <<"FAILED", None>>},
   health    |-> {<<"FAILED", None>>},
   build     |-> {<<"FAILED", None>>},
   tests     |-> {<<"REJECTED", "patch">>, <<"REJECTED", "infra">>},
   retest    |-> {<<"REJECTED", "patch">>, <<"FAILED", None>>},
   advisory  |-> {}]

Check(c) ==
  /\ pc[c] \in Stages
  /\ \/ /\ Goto(c, After[pc[c]])
        /\ box' = [box EXCEPT ![c] = TRUE] /\ UNCHANGED <<verdict, cause>>
     \/ /\ \E f \in Failing[pc[c]] :
             /\ Finds(c, f[1], f[2])
             /\ Goto(c, IF f[1] = "REJECTED" THEN "reject" ELSE "record")
        /\ UNCHANGED box
  /\ UNCHANGED <<rows, remote, token, inFlight, on, todo, faults>>

(* setVerdict: updateMany WHERE status IN (GENERATED, UNDER_REVIEW).       *)
SealAnyway(p, v) == [status EXCEPT ![p] = v]  \* slip: the WHERE names the id only
SealValidated(p, v) ==                        \* slip: another status of the schema
  [status EXCEPT ![p] = IF @ \in Open THEN "VALIDATED" ELSE @]
Seal(p, v) == [status EXCEPT ![p] = IF @ \in Open THEN v ELSE @]

(* An error of the first setVerdict is caught and becomes a FAILED run.    *)
Approve(c) ==
  /\ From(c, "approve", "record")
  /\ \/ /\ status' = Seal(on[c], "APPROVED")
        /\ Finds(c, "APPROVED", None) /\ UNCHANGED faults
     \/ FaultOf("store") /\ Finds(c, "FAILED", None) /\ UNCHANGED status
  /\ UNCHANGED <<row, metadata, prError, remote, token, inFlight, on, box, todo>>

(* An error of the second one, in failed(), is the answer of the call.     *)
RecordsAnyway == "record"  \* slip: the error is swallowed and the run recorded
LostVerdict == "ending"
Reject(c) ==
  /\ cause' = [cause EXCEPT ![c] = None]
  /\ \/ /\ From(c, "reject", "record")
        /\ status' = Seal(on[c], "REJECTED")
        /\ UNCHANGED <<verdict, faults>>
     \/ /\ From(c, "reject", LostVerdict) /\ FaultOf("store")
        /\ verdict' = [verdict EXCEPT ![c] = IF LostVerdict = "ending" THEN "error" ELSE @]
        /\ UNCHANGED status
  /\ UNCHANGED <<row, metadata, prError, remote, token, inFlight, on, box, todo>>

(* executions.record(), then findUnique of patchId#attempt: a row that     *)
(* exists is the answer, whatever this run found.                          *)
Record(c) ==
  /\ \/ /\ From(c, "record", "insert") /\ row[on[c]] = None /\ UNCHANGED <<verdict, faults>>
     \/ /\ From(c, "record", "ending") /\ row[on[c]] # None
        /\ verdict' = [verdict EXCEPT ![c] = row[on[c]]] /\ UNCHANGED faults
     \/ /\ From(c, "record", "ending") /\ FaultOf("store")
        /\ verdict' = [verdict EXCEPT ![c] = "error"]
  /\ UNCHANGED <<rows, remote, token, inFlight, on, cause, box, todo>>

(* create() of the row, which another run may have made since, and reading  *)
(* it back.                                                                *)
Insert(c) ==
  LET p == on[c]
  IN /\ From(c, "insert", "ending")
     /\ \/ /\ row[p] = None /\ row' = [row EXCEPT ![p] = verdict[c]]
           /\ UNCHANGED <<verdict, faults>>
        \/ /\ row[p] # None /\ verdict' = [verdict EXCEPT ![c] = "error"]
           /\ UNCHANGED <<row, faults>>
        \/ /\ FaultOf("store") /\ verdict' = [verdict EXCEPT ![c] = "error"]
           /\ \/ row[p] = None /\ row' = [row EXCEPT ![p] = verdict[c]]
              \/ UNCHANGED row
     /\ UNCHANGED <<status, metadata, prError, remote, token, inFlight, on, cause, box, todo>>

(* finally: the outcome is returned without being awaited, so the sandbox  *)
(* goes while the outcome is being persisted, and run() answers when both  *)
(* are over.  teardown() never throws.                                     *)
TearsDownApproved(c) == verdict[c] = "APPROVED"  \* slip: at the end of the try block
TearsDown(c) == pc[c] \in {"reject", "record", "insert", "ending"}
Teardown(c) ==
  /\ box[c] /\ TearsDown(c)
  /\ box' = [box EXCEPT ![c] = FALSE]
  /\ UNCHANGED <<rows, remote, token, inFlight, pc, on, verdict, cause, todo, faults>>

Answer(c) ==
  /\ ~box[c] /\ From(c, "ending", "answered")
  /\ UNCHANGED <<rows, remote, token, inFlight, on, verdict, cause, box, todo, faults>>

Review(c) ==
  \/ GetPatch(c) \/ MarkUnderReview(c) \/ Check(c) \/ Approve(c) \/ Reject(c)
  \/ Record(c) \/ Insert(c) \/ Teardown(c) \/ Answer(c)

-----------------------------------------------------------------------------
(* deliver() *)

NeverJoins(p) == FALSE  \* slip: deliveries of a patch are not coalesced
Joins(p) == inFlight[p] # None

(* deliver() of patch p by caller c: one that is under way is awaited.      *)
Deliver(c, p) ==
  IF Joins(p)
  THEN Goto(c, "joined") /\ UNCHANGED inFlight
  ELSE Goto(c, "load") /\ inFlight' = [inFlight EXCEPT ![p] = c]

(* The callers in who are done with their patch.                            *)
Free(who) ==
  /\ pc' = [c \in Callers |-> IF c \notin who THEN pc[c] ELSE IF c \in Pipelines THEN "next" ELSE "idle"]
  /\ on' = [c \in Callers |-> IF c \in who THEN None ELSE on[c]]
  /\ verdict' = [c \in Callers |-> IF c \in who THEN None ELSE verdict[c]]

(* finally: the delivery leaves the map before anyone who awaits it goes    *)
(* on; the stage takes its next patch, whatever came of this one.           *)
KeptOnFailure(p, ok) == IF ok THEN None ELSE inFlight[p]  \* slip: then() for finally()
Released(p, ok) == None
Resolve(c, ok) ==
  /\ Free({c} \cup {d \in Callers : pc[d] = "joined" /\ on[d] = on[c]})
  /\ inFlight' = [inFlight EXCEPT ![on[c]] = Released(on[c], ok)]

(* The gate on the stored status, then the one on the stored pull request.  *)
Load(c) ==
  /\ pc[c] = "load"
  /\ \/ /\ status[on[c]] = "APPROVED" /\ on[c] \notin metadata
        /\ Goto(c, "push") /\ UNCHANGED <<inFlight, on, verdict>>
     \/ status[on[c]] = "APPROVED" /\ on[c] \in metadata /\ Resolve(c, TRUE)
     \/ Resolve(c, FALSE)
  /\ UNCHANGED <<rows, remote, token, cause, box, todo, faults>>

(* Clone, apply, commit, and push unless there is no token: a dry run makes *)
(* the numbers up.                                                          *)
Push(c) ==
  /\ pc[c] = "push"
  /\ Goto(c, IF token THEN "lookup" ELSE "store") \/ Goto(c, "flag")
  /\ UNCHANGED <<rows, remote, token, inFlight, on, verdict, cause, box, todo, faults>>

(* findExistingPR: an error of the host is "not found".                     *)
Lookup(c) ==
  /\ pc[c] = "lookup"
  /\ (on[c] \in remote /\ Goto(c, "store")) \/ Goto(c, "create")
  /\ UNCHANGED <<rows, remote, token, inFlight, on, verdict, cause, box, todo, faults>>

(* POST /pulls: it opens the pull request, and the answer may be lost; the  *)
(* host refuses a second one for the branch, which is then looked up again. *)
TakesAnyAnswer == "store"  \* slip: response.ok is not looked at
Refused == "flag"
Create(c) ==
  LET p == on[c]
  IN /\ pc[c] = "create"
     /\ \/ remote' = remote \cup {p} /\ Goto(c, "store")
        \/ remote' = remote \cup {p} /\ Goto(c, "flag")
        \/ UNCHANGED remote /\ Goto(c, Refused)
     /\ UNCHANGED <<rows, token, inFlight, on, verdict, cause, box, todo, faults>>

Store(c) ==
  /\ pc[c] = "store"
  /\ \/ /\ metadata' = metadata \cup {on[c]} /\ prError' = prError \ {on[c]}
        /\ Resolve(c, TRUE) /\ UNCHANGED faults
     \/ Goto(c, "flag") /\ FaultOf("store") /\ UNCHANGED <<metadata, prError, inFlight, on, verdict>>
  /\ UNCHANGED <<status, row, remote, token, cause, box, todo>>

(* The error is stored; an error of that is swallowed.                      *)
Flag(c) ==
  /\ pc[c] = "flag" /\ Resolve(c, FALSE)
  /\ \/ prError' = prError \cup {on[c]} /\ UNCHANGED faults
     \/ FaultOf("store") /\ UNCHANGED prError
  /\ UNCHANGED <<status, row, metadata, remote, token, cause, box, todo>>

Delivery(c) == Load(c) \/ Push(c) \/ Lookup(c) \/ Create(c) \/ Store(c) \/ Flag(c)

-----------------------------------------------------------------------------
(* Who calls them *)

(* runCriticStage: the generated patches of the scan; an error of the query *)
(* ends the stage.                                                          *)
List(s) ==
  LET found == {p \in Patches : ScanOf[p] = s /\ status[p] = "GENERATED"}
  IN /\ pc[s] = "list"
     /\ \/ found # {} /\ Goto(s, "next") /\ todo' = [todo EXCEPT ![s] = found]
        \/ Goto(s, "over") /\ UNCHANGED todo
     /\ UNCHANGED <<rows, remote, token, inFlight, on, verdict, cause, box, faults>>

TakeNext(s) ==
  /\ pc[s] = "next"
  /\ \/ todo[s] = {} /\ Goto(s, "over") /\ UNCHANGED <<on, todo>>
     \/ \E p \in todo[s] :
          Goto(s, "get") /\ on' = [on EXCEPT ![s] = p] /\ todo' = [todo EXCEPT ![s] = @ \ {p}]
  /\ UNCHANGED <<rows, remote, token, inFlight, verdict, cause, box, faults>>

(* The stage delivers an approved patch at once; any other answer or error  *)
(* is the end of it, as every answer is for another caller.                 *)
Follow(c) ==
  /\ pc[c] = "answered"
  /\ IF c \in Pipelines /\ verdict[c] = "APPROVED"
     THEN Deliver(c, on[c]) /\ UNCHANGED <<on, verdict>>
     ELSE Free({c}) /\ UNCHANGED inFlight
  /\ UNCHANGED <<rows, remote, token, cause, box, todo, faults>>

BeginReview(c, p) ==
  /\ From(c, "idle", "get") /\ on' = [on EXCEPT ![c] = p]
  /\ UNCHANGED <<rows, remote, token, inFlight, verdict, cause, box, todo, faults>>

BeginDelivery(c, p) ==
  /\ pc[c] = "idle" /\ Deliver(c, p) /\ on' = [on EXCEPT ![c] = p]
  /\ UNCHANGED <<rows, remote, token, verdict, cause, box, todo, faults>>

(* A restart: nothing resumes a stage or a delivery.                        *)
Crash ==
  /\ FaultOf("crash")
  /\ inFlight' = [p \in Patches |-> None]
  /\ pc' = [c \in Callers |-> IF c \in Pipelines THEN "over" ELSE "idle"]
  /\ on' = [c \in Callers |-> None]
  /\ verdict' = [c \in Callers |-> None] /\ cause' = [c \in Callers |-> None]
  /\ box' = [c \in Callers |-> FALSE] /\ todo' = [s \in Pipelines |-> {}]
  /\ UNCHANGED <<rows, remote, token>>

Stage(s) == List(s) \/ TakeNext(s)
Step(c) == Review(c) \/ Delivery(c) \/ Follow(c) \/ (c \in Pipelines /\ Stage(c))
Begin(c) == \E p \in Patches : BeginReview(c, p) \/ BeginDelivery(c, p)
Next == (\E c \in Callers : Step(c)) \/ (\E c \in Clients : Begin(c)) \/ Crash
Spec == Init /\ [][Next]_vars

(* Every call of the database, the sandbox and the host ends, in a result   *)
(* or an error: each has a timeout.  What is awaited goes on when it ends.  *)
FairSpec == Spec /\ \A c \in Callers : WF_vars(Step(c))

-----------------------------------------------------------------------------
(* Properties *)

Decisions == {"APPROVED", "REJECTED", "FAILED"}
TypeOK ==
  /\ status \in [Patches -> Open \cup Sealed]
  /\ row \in [Patches -> Decisions \cup {None}]
  /\ metadata \subseteq Patches /\ prError \subseteq Patches /\ remote \subseteq Patches
  /\ token \in BOOLEAN
  /\ inFlight \in [Patches -> Callers \cup {None}]
  /\ pc \in [Callers -> PC] /\ on \in [Callers -> Patches \cup {None}]
  /\ verdict \in [Callers -> Decisions \cup {None, "error"}]
  /\ cause \in [Callers -> {None, "patch", "infra"}]
  /\ box \in [Callers -> BOOLEAN] /\ todo \in [Pipelines -> SUBSET Patches]
  /\ faults \in 0..MaxFaults

(* For the owner of the repository a patch is decided once and for good,    *)
(* and only an approved one is ever published, whatever runs and deliveries *)
(* overlap, fail or die half way.                                           *)
Decided == [p \in Patches |-> IF status[p] \in Open THEN "open" ELSE status[p]]
Published == metadata \cup remote
Lifecycle == INSTANCE PatchLifecycle WITH verdict <- Decided, published <- Published
LifecycleSpec == Lifecycle!Spec

(* A run recorded as approving or rejecting leaves the patch decided, though *)
(* the verdict and the row are written by separate statements, overlapping   *)
(* runs share the row, and either statement may fail.                        *)
DecidedRowsAreSealed == \A p \in Patches : row[p] \in Sealed => status[p] \in Sealed

(* The map of deliveries under way holds exactly those that are: an entry    *)
(* left behind would answer every later delivery of the patch.               *)
InFlightIsLive ==
  \A p \in Patches, c \in Callers : inFlight[p] = c <=> (pc[c] \in Delivering /\ on[c] = p)

(* Two deliveries of one patch are never between their first read of the     *)
(* patch and the pull request, however their triggers fall.                  *)
PushesAreExclusive ==
  \A c, d \in Callers :
    c # d /\ on[c] = on[d] /\ on[c] # None => ~(pc[c] \in Delivering /\ pc[d] \in Delivering)

(* With a token, a pull request in the database exists on the host, although *)
(* its answer may be lost, refused or recovered from an earlier attempt.     *)
RecordedIsReal == token => metadata \subseteq remote

(* A run's sandbox is torn down, whatever the run comes to.                  *)
BoxIsTornDown == \A c \in Callers : box[c] ~> ~box[c]

(* A critic stage comes to its end, through errors of any of its patches and *)
(* whoever else reviews or delivers them.                                    *)
StageEnds == \A s \in Pipelines : <>(pc[s] = "over")

(* A stage ends, and no run's sandbox outlives it.                           *)
StageEndsClean == BoxIsTornDown /\ StageEnds

(* critic.service.ts:12: "infrastructure problems surface as FAILED, never   *)
(* REJECTED".  It is false: a base file that cannot be read and a test       *)
(* command that cannot be run are classified as faults of the patch.         *)
InfraNeverRejects ==
  [][\A p \in Patches : status[p] # "REJECTED" /\ status'[p] = "REJECTED" =>
       \E c \in Callers : on[c] = p /\ cause[c] = "patch"]_vars

(* PROGRESS.md:1396-1397: "infra failures leave the patch UNDER_REVIEW and   *)
(* are rerunnable".  The gate of run() refuses it although no run is on it.  *)
RerunIsAdmitted ==
  \A c \in Callers :
    /\ pc[c] = "get" /\ status[on[c]] = "UNDER_REVIEW" /\ row[on[c]] = "FAILED"
    /\ \A d \in Callers \ {c} : on[d] # on[c]
    => ENABLED (GetPatch(c) /\ pc'[c] = "mark")
=============================================================================
