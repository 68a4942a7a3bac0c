---------------------------- MODULE ScanPipeline ----------------------------
(***************************************************************************)
(* A scan from its row to its end: SandboxedScanOrchestrator around        *)
(* runScannerFlow around AutonomousPipelineService.  Every scan is one     *)
(* background task; one step is the code between two awaits.  Tasks share  *)
(* the database and the runtime sandboxes, which the sweep of another      *)
(* scan's create() may expire under a running task.                        *)
(***************************************************************************)
EXTENDS Naturals, Sequences, FiniteSets

CONSTANTS Scans,     \* scans that may be requested
          Vulns,     \* vulnerabilities a scan may confirm
          MaxFaults  \* bound on failing writes, failing reads that are swallowed and failing removals

ASSUME FaultsAssumption == MaxFaults \in Nat

VARIABLES pc,        \* per scan: what its task awaits
          row,       \* Scan.status
          stats,     \* scans whose row holds the statistics of their scanners
          stream,    \* the scan's SYSTEM events and SANDBOX_DESTROYED, in order
          analysis,  \* the analysis sandbox of the task
          runtime,   \* the runtime sandbox of the task
          confirmed, \* vulnerabilities with a CONFIRMED exploit
          todo,      \* loop variable of the engineer stage, then of the critic stage
          patches,   \* vulnerabilities with a GENERATED patch
          counted,   \* scans whose engineer stage counted a patch
          reviewed,  \* vulnerabilities whose patch was handed to the critic
          faults     \* failures so far

boxes == <<analysis, runtime>>
work == <<confirmed, todo, patches, counted, reviewed>>
vars == <<pc, row, stats, stream, boxes, work, faults>>

(* The awaits that only lead to the next one: waitUntilReady, git clone,   *)
(* analyzeTarget, runAll, and the writes of runScannerFlow.                *)
Then == [ready |-> "clone", clone |-> "analyze", analyze |-> "scanners", scanners |-> "repository",
         repository |-> "link", link |-> "findings", findings |-> "complete"]

InPipeline == {"provision", "scout", "planner", "sniper", "list", "engineer", "patches", "critic"}
PC == {"idle", "created", "mark", "create"} \cup DOMAIN Then \cup {"complete"} \cup InPipeline
      \cup {"conclude", "cleanup", "failPipeline", "unwind", "failScan", "destroy", "over"}
Status == {"none", "PENDING", "RUNNING", "COMPLETED", "FAILED"}
Box == {"none", "up", "down", "leaked"}  \* leaked: its removal was attempted and failed
EventTypes == {"SCAN_STARTED", "SCAN_COMPLETED", "SCAN_FAILED", "SANDBOX_DESTROYED"}

Init ==
  /\ pc = [s \in Scans |-> "idle"] /\ row = [s \in Scans |-> "none"]
  /\ stats = {} /\ counted = {}
  /\ stream = [s \in Scans |-> <<>>]
  /\ analysis = [s \in Scans |-> "none"] /\ runtime = [s \in Scans |-> "none"]
  /\ confirmed = [s \in Scans |-> {}] /\ todo = [s \in Scans |-> {}]
  /\ patches = [s \in Scans |-> {}] /\ reviewed = [s \in Scans |-> {}]
  /\ faults = 0

Goto(s, l) == pc' = [pc EXCEPT ![s] = l]
Emit(s, e) == stream' = [stream EXCEPT ![s] = Append(@, e)]
Emitted(s, e) == \E i \in DOMAIN stream[s] : stream[s][i] = e
Fault == faults < MaxFaults /\ faults' = faults + 1

(* update() of the row: written, or the error is swallowed by .catch().    *)
Saves(s, v) ==
  \/ row' = [row EXCEPT ![s] = v] /\ UNCHANGED faults
  \/ Fault /\ UNCHANGED row

(* The catch of the orchestrator and the catch of the pipeline, up to the  *)
(* await of the row's update.                                              *)
CaughtSilently(s) == Goto(s, "failScan") /\ UNCHANGED stream  \* slip: left to the pipeline to tell
Caught(s) == Goto(s, "failScan") /\ Emit(s, "SCAN_FAILED")
PipelineThrows(s) == Goto(s, "failPipeline") /\ Emit(s, "SCAN_FAILED")

-----------------------------------------------------------------------------
(* SandboxedScanOrchestrator, up to the pipeline *)

(* startScan: the row; an error of the link to the repository is ignored.  *)
CreateScan(s) ==
  /\ pc[s] = "idle" /\ Goto(s, "created")
  /\ row' = [row EXCEPT ![s] = "PENDING"]
  /\ UNCHANGED <<stats, stream, boxes, work, faults>>

Begin(s) ==
  /\ pc[s] = "created" /\ Goto(s, "mark")
  /\ Emit(s, "SCAN_STARTED")
  /\ UNCHANGED <<row, stats, boxes, work, faults>>

(* markScanRunning stands before the try: its error ends the task.         *)
MarkRunning(s) ==
  /\ pc[s] = "mark"
  /\ \/ row' = [row EXCEPT ![s] = "RUNNING"] /\ Goto(s, "create") /\ UNCHANGED faults
     \/ Fault /\ Goto(s, "over") /\ UNCHANGED row
  /\ UNCHANGED <<stats, stream, boxes, work>>

CreateAnalysis(s) ==
  /\ pc[s] = "create"
  /\ \/ analysis' = [analysis EXCEPT ![s] = "up"] /\ Goto(s, "ready") /\ UNCHANGED stream
     \/ Caught(s) /\ UNCHANGED analysis
  /\ UNCHANGED <<row, stats, runtime, work, faults>>

Advance(s) ==
  /\ pc[s] \in DOMAIN Then
  /\ \/ Goto(s, Then[pc[s]]) /\ UNCHANGED stream
     \/ Caught(s)
  /\ UNCHANGED <<row, stats, boxes, work, faults>>

(* completeScan with what the scanners gave: FAILED if one of them failed. *)
OutcomesOfSome == {"COMPLETED", "FAILED", "PARTIAL"}  \* slip: a status the enum does not have
Outcomes == {"COMPLETED", "FAILED"}
Complete(s) ==
  /\ pc[s] = "complete"
  /\ \/ /\ \E v \in Outcomes : row' = [row EXCEPT ![s] = v]
        /\ stats' = stats \cup {s}
        /\ Goto(s, "provision") /\ UNCHANGED <<stream, faults>>
     \/ Fault /\ Caught(s) /\ UNCHANGED <<row, stats>>
  /\ UNCHANGED <<boxes, work>>

-----------------------------------------------------------------------------
(* AutonomousPipelineService.runPipeline *)

(* runtime.create(): READY, or an error after it reclaimed what it made.   *)
Provision(s) ==
  /\ pc[s] = "provision"
  /\ \/ runtime' = [runtime EXCEPT ![s] = "up"] /\ Goto(s, "scout") /\ UNCHANGED stream
     \/ PipelineThrows(s) /\ UNCHANGED runtime
  /\ UNCHANGED <<row, stats, analysis, work, faults>>

(* create() of another scan sweeps the sandboxes whose lifetime is over.   *)
Expire(s, t) ==
  /\ s # t /\ pc[t] = "provision" /\ runtime[s] \in {"up", "leaked"}
  /\ runtime' = [runtime EXCEPT ![s] = "down"]
  /\ UNCHANGED <<pc, row, stats, stream, analysis, work, faults>>

(* Errors of the scout are logged and ignored.                             *)
Scout(s) ==
  /\ pc[s] = "scout" /\ Goto(s, "planner")
  /\ UNCHANGED <<row, stats, stream, boxes, work, faults>>

(* A plan without targets skips the sniper; no plan fails the scan.        *)
Plan(s) ==
  /\ pc[s] = "planner"
  /\ \/ \E next \in {"sniper", "list"} : Goto(s, next) /\ UNCHANGED stream
     \/ PipelineThrows(s)
  /\ UNCHANGED <<row, stats, boxes, work, faults>>

(* The sniper confirms what it can reach; its errors are ignored too.      *)
Snipe(s) ==
  /\ pc[s] = "sniper" /\ Goto(s, "list")
  /\ \E found \in SUBSET Vulns :
       /\ runtime[s] = "up" \/ found = {}
       /\ confirmed' = [confirmed EXCEPT ![s] = found]
  /\ UNCHANGED <<row, stats, stream, boxes, todo, patches, counted, reviewed, faults>>

ListConfirmed(s) ==
  /\ pc[s] = "list"
  /\ \/ /\ todo' = [todo EXCEPT ![s] = confirmed[s]]
        /\ Goto(s, IF confirmed[s] = {} THEN "patches" ELSE "engineer") /\ UNCHANGED stream
     \/ PipelineThrows(s) /\ UNCHANGED todo
  /\ UNCHANGED <<row, stats, boxes, confirmed, patches, counted, reviewed, faults>>

(* What is left after an attempt for v.                                    *)
Requeue(s, v) == todo[s]  \* slip: the index is not moved past v
Rest(s, v) == todo[s] \ {v}

(* Every attempt counted against the patches it gave: none is an error.    *)
NeverFails(s) == FALSE                       \* slip: the stage only logs
AllFailed(s) == s \notin counted'

(* engineer.run() for one vulnerability: a GENERATED patch; no patch, by   *)
(* rejection or error; or an error after the patch was stored, when the    *)
(* execution cannot be recorded.                                           *)
Attempt(s) ==
  /\ pc[s] = "engineer"
  /\ \E v \in todo[s] :
       /\ \/ /\ patches' = [patches EXCEPT ![s] = @ \cup {v}]
             /\ counted' = counted \cup {s} /\ UNCHANGED faults
          \/ UNCHANGED <<patches, counted, faults>>
          \/ Fault /\ patches' = [patches EXCEPT ![s] = @ \cup {v}] /\ UNCHANGED counted
       /\ todo' = [todo EXCEPT ![s] = Rest(s, v)]
       /\ \/ Rest(s, v) # {} /\ UNCHANGED <<pc, stream>>
          \/ Rest(s, v) = {} /\ AllFailed(s) /\ PipelineThrows(s)
          \/ Rest(s, v) = {} /\ ~AllFailed(s) /\ Goto(s, "patches") /\ UNCHANGED stream
  /\ UNCHANGED <<row, stats, boxes, confirmed, reviewed>>

Completed(s) == Goto(s, "conclude") /\ Emit(s, "SCAN_COMPLETED")

(* The patches of the scan; an error of the query is logged and ignored.   *)
ListPatches(s) ==
  /\ pc[s] = "patches"
  /\ \/ /\ todo' = [todo EXCEPT ![s] = patches[s]] /\ UNCHANGED faults
        /\ \/ patches[s] # {} /\ Goto(s, "critic") /\ UNCHANGED stream
           \/ patches[s] = {} /\ Completed(s)
     \/ Fault /\ Completed(s) /\ UNCHANGED todo
  /\ UNCHANGED <<row, stats, boxes, confirmed, patches, counted, reviewed>>

(* critic.run() and, on approval, deliver(): nothing they throw gets out.  *)
Review(s) ==
  /\ pc[s] = "critic"
  /\ \E v \in todo[s] :
       /\ reviewed' = [reviewed EXCEPT ![s] = @ \cup {v}]
       /\ todo' = [todo EXCEPT ![s] = @ \ {v}]
       /\ \/ todo[s] # {v} /\ UNCHANGED <<pc, stream>>
          \/ todo[s] = {v} /\ Completed(s)
  /\ UNCHANGED <<row, stats, boxes, confirmed, patches, counted, faults>>

-----------------------------------------------------------------------------
(* The ends *)

(* The last update of the row, after SCAN_COMPLETED.                       *)
ConcludeKeepsRow(s) ==  \* slip: the row is left as the scanners wrote it
  /\ pc[s] = "conclude" /\ Goto(s, "cleanup")
  /\ UNCHANGED <<row, stats, stream, boxes, work, faults>>
ConcludeOrThrow(s) ==   \* slip: the error of the update is not caught
  /\ pc[s] = "conclude"
  /\ \/ row' = [row EXCEPT ![s] = "COMPLETED"] /\ Goto(s, "cleanup") /\ UNCHANGED <<stream, faults>>
     \/ Fault /\ PipelineThrows(s) /\ UNCHANGED row
  /\ UNCHANGED <<stats, boxes, work>>
Conclude(s) ==
  /\ pc[s] = "conclude" /\ Goto(s, "cleanup")
  /\ Saves(s, "COMPLETED")
  /\ UNCHANGED <<stats, stream, boxes, work>>

FailPipeline(s) ==
  /\ pc[s] = "failPipeline"
  /\ Saves(s, "FAILED")
  /\ \/ runtime[s] # "none" /\ Goto(s, "unwind") /\ UNCHANGED stream
     \/ runtime[s] = "none" /\ Caught(s)
  /\ UNCHANGED <<stats, boxes, work>>

(* manager.destroy() and runtime.destroy() of a sandbox that may be gone.  *)
Removed(box, s) == [box EXCEPT ![s] = IF @ = "up" THEN "down" ELSE @]
Removes(box, s) ==
  \/ box' = Removed(box, s) /\ UNCHANGED faults
  \/ box[s] = "up" /\ Fault /\ box' = [box EXCEPT ![s] = "leaked"]

(* The finally of the orchestrator, up to the await of destroy().          *)
Finally(s) ==
  \/ analysis[s] # "none" /\ Goto(s, "destroy") /\ Emit(s, "SANDBOX_DESTROYED")
  \/ analysis[s] = "none" /\ Goto(s, "over") /\ UNCHANGED stream

(* The finally of the pipeline, then the orchestrator's catch or finally.  *)
UnwindOnly(s) ==  \* slip: the sandbox is destroyed only when the pipeline failed
  /\ \/ pc[s] = "cleanup" /\ Finally(s) /\ UNCHANGED <<runtime, faults>>
     \/ pc[s] = "unwind" /\ Removes(runtime, s) /\ Caught(s)
  /\ UNCHANGED <<row, stats, analysis, work>>
DestroyRuntime(s) ==
  /\ \/ pc[s] = "cleanup" /\ Finally(s)
     \/ pc[s] = "unwind" /\ Caught(s)
  /\ Removes(runtime, s)
  /\ UNCHANGED <<row, stats, analysis, work>>

(* completeScan with an empty list of statistics.                          *)
FailScan(s) ==
  /\ pc[s] = "failScan"
  /\ \/ row' = [row EXCEPT ![s] = "FAILED"] /\ stats' = stats \ {s} /\ UNCHANGED faults
     \/ Fault /\ UNCHANGED <<row, stats>>
  /\ Finally(s)
  /\ UNCHANGED <<boxes, work>>

DestroyAnalysis(s) ==
  /\ pc[s] = "destroy" /\ Goto(s, "over")
  /\ Removes(analysis, s)
  /\ UNCHANGED <<row, stats, stream, runtime, work>>

Task(s) ==
  \/ Begin(s) \/ MarkRunning(s) \/ CreateAnalysis(s) \/ Advance(s) \/ Complete(s)
  \/ Provision(s) \/ Scout(s) \/ Plan(s) \/ Snipe(s) \/ ListConfirmed(s) \/ Attempt(s)
  \/ ListPatches(s) \/ Review(s) \/ Conclude(s) \/ FailPipeline(s) \/ DestroyRuntime(s)
  \/ FailScan(s) \/ DestroyAnalysis(s)

Next ==
  \/ \E s \in Scans : CreateScan(s) \/ Task(s)
  \/ \E s, t \in Scans : Expire(s, t)

Spec == Init /\ [][Next]_vars
FairSpec == Spec /\ \A s \in Scans : WF_vars(Task(s))

-----------------------------------------------------------------------------
(* Types of the variables.                                                 *)
TypeOK ==
  /\ pc \in [Scans -> PC] /\ row \in [Scans -> Status]
  /\ stats \subseteq Scans /\ counted \subseteq Scans
  /\ stream \in [Scans -> Seq(EventTypes)]
  /\ analysis \in [Scans -> Box] /\ runtime \in [Scans -> Box]
  /\ confirmed \in [Scans -> SUBSET Vulns] /\ todo \in [Scans -> SUBSET Vulns]
  /\ patches \in [Scans -> SUBSET Vulns] /\ reviewed \in [Scans -> SUBSET Vulns]
  /\ faults \in 0..MaxFaults

(* The stream never holds both verdicts.  SCAN_COMPLETED is emitted inside *)
(* the try whose catch emits SCAN_FAILED, with a write in between.         *)
OneVerdict == \A s \in Scans : ~(Emitted(s, "SCAN_COMPLETED") /\ Emitted(s, "SCAN_FAILED"))

(* A scan that was marked running never ends without a verdict, whichever  *)
(* of the two services failed.                                             *)
NeverSilent ==
  \A s \in Scans : pc[s] = "over" /\ row[s] # "PENDING"
                     => Emitted(s, "SCAN_COMPLETED") \/ Emitted(s, "SCAN_FAILED")

(* When a task is over the row says what the stream said, although both    *)
(* services and the scanner flow write it: unless a write was lost.        *)
RowTellsVerdict ==
  \A s \in Scans : pc[s] = "over" /\ faults = 0
                     => row[s] = IF Emitted(s, "SCAN_COMPLETED") THEN "COMPLETED" ELSE "FAILED"

(* Whatever failed, both sandboxes of a scan that is over were removed or  *)
(* their removal was tried.                                                *)
NothingLeftUp == \A s \in Scans : pc[s] = "over" => analysis[s] # "up" /\ runtime[s] # "up"

(* SCAN_COMPLETED is not said over a failed remediation: the statistics of *)
(* the scanners are stored, and if a vulnerability was confirmed, some     *)
(* attempt gave a patch.                                                   *)
CompletedIsRemediated ==
  \A s \in Scans : Emitted(s, "SCAN_COMPLETED")
                     => s \in stats /\ (confirmed[s] # {} => patches[s] # {})

(* No GENERATED patch stays without its review when the scan is over,      *)
(* failed or not: unless an error was swallowed on the way.                *)
NoPatchIsForgotten ==
  \A s \in Scans : pc[s] = "over" /\ faults = 0 => reviewed[s] = patches[s]

(* What the database tells of a scan that is over, when no write was lost  *)
(* and no error swallowed: its verdict, and a review of every patch.       *)
RowsTellAll == RowTellsVerdict /\ NoPatchIsForgotten

(* Every scan that was begun ends.                                         *)
ScanEnds == \A s \in Scans : pc[s] = "created" ~> pc[s] = "over"

(* The row's status as the table of the database documents it.             *)
Follows == {<<"none", "PENDING">>, <<"PENDING", "RUNNING">>,
            <<"RUNNING", "COMPLETED">>, <<"RUNNING", "FAILED">>}
RowMoves == [][\A s \in Scans : row'[s] = row[s] \/ <<row[s], row'[s]>> \in Follows]_row
=============================================================================
