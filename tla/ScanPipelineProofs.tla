------------------------- MODULE ScanPipelineProofs -------------------------
(***************************************************************************)
(* Proofs about ScanPipeline, for every set of scans and vulnerabilities   *)
(* and every number of faults; about the two agents a scan runs beside it, *)
(* the scout and the planner (Recon, AttackPlanner), for every site, every *)
(* depth and number of pages and every number of scouts; and about the     *)
(* analysis of a repository and the static scan over it                    *)
(* (RepositoryProfile, StaticScan), for every tree of files, every list of *)
(* ignore rules, signatures and scanners and every number of calls.        *)
(***************************************************************************)
EXTENDS ScanPipeline, AttackPlanner, StaticScan, FiniteSetTheorems, SequenceTheorems, TLAPS

HIDE ReconAssumption
HIDE ProfileAssumption
HIDE TreeAssumption
HIDE SignalsAssumption
HIDE StaticAssumption
HIDE ScannersAssumption
HIDE SiteAssumption
HIDE ScoutsAssumption

(* Appending an event keeps the type of the streams.                       *)
LEMMA EmitType ==
  ASSUME NEW s \in Scans, NEW e \in EventTypes, Emit(s, e), stream \in [Scans -> Seq(EventTypes)]
  PROVE  stream' \in [Scans -> Seq(EventTypes)]
<1>1. stream[s] \in Seq(EventTypes)
  OBVIOUS
<1>2. Append(stream[s], e) \in Seq(EventTypes)
  BY <1>1
<1>. QED
  BY <1>2 DEF Emit

(* An event is in the stream of a scan if it was or has just been emitted. *)
LEMMA EmitFacts ==
  ASSUME NEW s \in Scans, NEW e \in EventTypes, Emit(s, e), stream \in [Scans -> Seq(EventTypes)],
         NEW t \in Scans, NEW x
  PROVE  Emitted(t, x)' <=> Emitted(t, x) \/ (t = s /\ x = e)
<1>1. CASE t # s
  <2>1. stream'[t] = stream[t]
    BY <1>1 DEF Emit
  <2>. QED
    BY <2>1, <1>1 DEF Emitted
<1>2. CASE t = s
  <2>1. stream'[t] = Append(stream[t], e)
    BY <1>2 DEF Emit
  <2>2. stream[t] \in Seq(EventTypes)
    OBVIOUS
  <2>3. /\ DOMAIN stream'[t] = DOMAIN stream[t] \cup {Len(stream[t]) + 1}
        /\ stream'[t][Len(stream[t]) + 1] = e
        /\ \A i \in DOMAIN stream[t] : stream'[t][i] = stream[t][i]
    BY <2>1, <2>2
  <2>. QED
    BY <2>3, <1>2 DEF Emitted
<1>. QED
  BY <1>1, <1>2

LEMMA SameStream ==
  ASSUME UNCHANGED stream, NEW t, NEW x
  PROVE  Emitted(t, x)' <=> Emitted(t, x)
BY DEF Emitted

-----------------------------------------------------------------------------
(* Type correctness: each action under the type invariant.                 *)
LEMMA FaultType == TypeOK /\ Fault => faults' \in 0..MaxFaults
BY FaultsAssumption DEF TypeOK, Fault

LEMMA SavesType ==
  ASSUME TypeOK, NEW s \in Scans, NEW v \in Status, Saves(s, v)
  PROVE  row' \in [Scans -> Status] /\ faults' \in 0..MaxFaults
BY FaultType DEF TypeOK, Saves

LEMMA RemovesType ==
  ASSUME TypeOK, NEW s \in Scans
  PROVE  /\ Removes(runtime, s) => runtime' \in [Scans -> Box] /\ faults' \in 0..MaxFaults
         /\ Removes(analysis, s) => analysis' \in [Scans -> Box] /\ faults' \in 0..MaxFaults
<1>1. ASSUME Removes(runtime, s)
      PROVE  runtime' \in [Scans -> Box] /\ faults' \in 0..MaxFaults
  BY <1>1, FaultType DEF TypeOK, Removes, Removed, Box
<1>2. ASSUME Removes(analysis, s)
      PROVE  analysis' \in [Scans -> Box] /\ faults' \in 0..MaxFaults
  BY <1>2, FaultType DEF TypeOK, Removes, Removed, Box
<1>. QED
  BY <1>1, <1>2

LEMMA ThenType == \A l \in DOMAIN Then : Then[l] \in PC
BY DEF Then, PC

LEMMA EventFacts == {"SCAN_STARTED", "SCAN_COMPLETED", "SCAN_FAILED", "SANDBOX_DESTROYED"} = EventTypes
BY DEF EventTypes

(* Each helper that moves a task keeps the types of pc and stream.         *)
LEMMA CaughtType ==
  ASSUME TypeOK, NEW s \in Scans,
         Caught(s) \/ PipelineThrows(s) \/ Completed(s) \/ Finally(s)
  PROVE  pc' \in [Scans -> PC] /\ stream' \in [Scans -> Seq(EventTypes)]
<1>1. stream \in [Scans -> Seq(EventTypes)] /\ pc \in [Scans -> PC]
  BY DEF TypeOK
<1>2. pc' \in [Scans -> PC]
  BY <1>1 DEF Caught, PipelineThrows, Completed, Finally, Goto, PC
<1>3. \/ \E e \in EventTypes : Emit(s, e)
      \/ UNCHANGED stream
  BY EventFacts DEF Caught, PipelineThrows, Completed, Finally
<1>. QED
  BY <1>1, <1>2, <1>3, EmitType

LEMMA OrchestratorType ==
  ASSUME TypeOK, NEW s \in Scans,
         \/ CreateScan(s) \/ Begin(s) \/ MarkRunning(s) \/ CreateAnalysis(s) \/ Advance(s)
         \/ Complete(s)
  PROVE  TypeOK'
<1>. USE DEF boxes, work
<1>1. CASE CreateScan(s)
  BY <1>1 DEF CreateScan, TypeOK, Goto, PC, Status
<1>2. CASE Begin(s)
  <2>1. stream' \in [Scans -> Seq(EventTypes)]
    BY <1>2, EmitType, EventFacts DEF Begin, TypeOK
  <2>. QED
    BY <1>2, <2>1 DEF Begin, TypeOK, Goto, PC
<1>3. CASE MarkRunning(s)
  BY <1>3, FaultType DEF MarkRunning, TypeOK, Goto, PC, Status
<1>4. CASE CreateAnalysis(s)
  <2>1. pc' \in [Scans -> PC] /\ stream' \in [Scans -> Seq(EventTypes)]
    BY <1>4, CaughtType DEF CreateAnalysis, TypeOK, Goto, PC, Then
  <2>. QED
    BY <1>4, <2>1 DEF CreateAnalysis, TypeOK, Box
<1>5. CASE Advance(s)
  <2>1. pc' \in [Scans -> PC] /\ stream' \in [Scans -> Seq(EventTypes)]
    BY <1>5, CaughtType, ThenType DEF Advance, TypeOK, Goto
  <2>. QED
    BY <1>5, <2>1 DEF Advance, TypeOK
<1>6. CASE Complete(s)
  <2>1. pc' \in [Scans -> PC] /\ stream' \in [Scans -> Seq(EventTypes)]
    BY <1>6, CaughtType DEF Complete, TypeOK, Goto, PC, InPipeline
  <2>2. faults' \in 0..MaxFaults
    BY <1>6, FaultType DEF Complete, TypeOK
  <2>. QED
    BY <1>6, <2>1, <2>2 DEF Complete, TypeOK, Outcomes, Status
<1>. QED
  BY <1>1, <1>2, <1>3, <1>4, <1>5, <1>6

LEMMA PipelineType ==
  ASSUME TypeOK, NEW s \in Scans,
         \/ Provision(s) \/ Scout(s) \/ Plan(s) \/ Snipe(s) \/ ListConfirmed(s) \/ Attempt(s)
         \/ ListPatches(s) \/ Review(s)
  PROVE  TypeOK'
<1>. USE DEF boxes, work
<1>1. pc' \in [Scans -> PC] /\ stream' \in [Scans -> Seq(EventTypes)]
  <2>1. CASE Provision(s)
    BY <2>1, CaughtType DEF Provision, TypeOK, Goto, PC, InPipeline
  <2>2. CASE Scout(s)
    BY <2>2 DEF Scout, TypeOK, Goto, PC, InPipeline
  <2>3. CASE Plan(s)
    BY <2>3, CaughtType DEF Plan, TypeOK, Goto, PC, InPipeline
  <2>4. CASE Snipe(s)
    BY <2>4 DEF Snipe, TypeOK, Goto, PC, InPipeline
  <2>5. CASE ListConfirmed(s)
    BY <2>5, CaughtType DEF ListConfirmed, TypeOK, Goto, PC, InPipeline
  <2>6. CASE Attempt(s)
    BY <2>6, CaughtType DEF Attempt, TypeOK, Goto, PC, InPipeline
  <2>7. CASE ListPatches(s)
    BY <2>7, CaughtType DEF ListPatches, TypeOK, Goto, PC, InPipeline
  <2>8. CASE Review(s)
    BY <2>8, CaughtType DEF Review, TypeOK, Goto
  <2>. QED
    BY <2>1, <2>2, <2>3, <2>4, <2>5, <2>6, <2>7, <2>8
<1>2. faults' \in 0..MaxFaults
  BY FaultType DEF TypeOK, Provision, Scout, Plan, Snipe, ListConfirmed, Attempt, ListPatches, Review
<1>3. runtime' \in [Scans -> Box] /\ analysis' \in [Scans -> Box]
  BY DEF TypeOK, Box, Provision, Scout, Plan, Snipe, ListConfirmed, Attempt, ListPatches, Review
<1>4. confirmed' \in [Scans -> SUBSET Vulns]
  BY DEF TypeOK, Provision, Scout, Plan, Snipe, ListConfirmed, Attempt, ListPatches, Review
<1>5. patches' \in [Scans -> SUBSET Vulns] /\ counted' \subseteq Scans
  <2>1. CASE Attempt(s)
    <3>1. PICK v \in todo[s] : UNCHANGED patches \/ patches' = [patches EXCEPT ![s] = @ \cup {v}]
      BY <2>1 DEF Attempt
    <3>2. v \in Vulns
      BY DEF TypeOK
    <3>3. patches' \in [Scans -> SUBSET Vulns]
      BY <3>1, <3>2 DEF TypeOK
    <3>. QED
      BY <2>1, <3>3 DEF Attempt, TypeOK
  <2>2. CASE ~Attempt(s)
    BY <2>2 DEF TypeOK, Provision, Scout, Plan, Snipe, ListConfirmed, ListPatches, Review
  <2>. QED
    BY <2>1, <2>2
<1>6. reviewed' \in [Scans -> SUBSET Vulns]
  <2>1. CASE Review(s)
    <3>1. PICK v \in todo[s] : reviewed' = [reviewed EXCEPT ![s] = @ \cup {v}]
      BY <2>1 DEF Review
    <3>2. v \in Vulns
      BY DEF TypeOK
    <3>. QED
      BY <3>1, <3>2 DEF TypeOK
  <2>2. CASE ~Review(s)
    BY <2>2 DEF TypeOK, Provision, Scout, Plan, Snipe, ListConfirmed, Attempt, ListPatches
  <2>. QED
    BY <2>1, <2>2
<1>7. todo' \in [Scans -> SUBSET Vulns]
  BY DEF TypeOK, Provision, Scout, Plan, Snipe, ListConfirmed, Attempt, ListPatches, Review, Rest
<1>8. row' = row /\ stats' = stats
  BY DEF Provision, Scout, Plan, Snipe, ListConfirmed, Attempt, ListPatches, Review
<1>. QED
  BY <1>1, <1>2, <1>3, <1>4, <1>5, <1>6, <1>7, <1>8 DEF TypeOK

LEMMA EndType ==
  ASSUME TypeOK, NEW s \in Scans,
         Conclude(s) \/ FailPipeline(s) \/ DestroyRuntime(s) \/ FailScan(s) \/ DestroyAnalysis(s)
  PROVE  TypeOK'
<1>. USE DEF boxes, work
<1>1. CASE Conclude(s)
  <2>1. row' \in [Scans -> Status] /\ faults' \in 0..MaxFaults
    BY <1>1, SavesType DEF Conclude, Status
  <2>. QED
    BY <1>1, <2>1 DEF Conclude, TypeOK, Goto, PC
<1>2. CASE FailPipeline(s)
  <2>1. row' \in [Scans -> Status] /\ faults' \in 0..MaxFaults
    BY <1>2, SavesType DEF FailPipeline, Status
  <2>2. pc' \in [Scans -> PC] /\ stream' \in [Scans -> Seq(EventTypes)]
    BY <1>2, CaughtType DEF FailPipeline, TypeOK, Goto, PC
  <2>. QED
    BY <1>2, <2>1, <2>2 DEF FailPipeline, TypeOK
<1>3. CASE DestroyRuntime(s)
  <2>1. pc' \in [Scans -> PC] /\ stream' \in [Scans -> Seq(EventTypes)]
    BY <1>3, CaughtType DEF DestroyRuntime
  <2>2. runtime' \in [Scans -> Box] /\ faults' \in 0..MaxFaults
    BY <1>3, RemovesType DEF DestroyRuntime
  <2>. QED
    BY <1>3, <2>1, <2>2 DEF DestroyRuntime, TypeOK
<1>4. CASE FailScan(s)
  <2>1. pc' \in [Scans -> PC] /\ stream' \in [Scans -> Seq(EventTypes)]
    BY <1>4, CaughtType DEF FailScan
  <2>. QED
    BY <1>4, <2>1, FaultType DEF FailScan, TypeOK, Status
<1>5. CASE DestroyAnalysis(s)
  <2>1. analysis' \in [Scans -> Box] /\ faults' \in 0..MaxFaults
    BY <1>5, RemovesType DEF DestroyAnalysis
  <2>. QED
    BY <1>5, <2>1 DEF DestroyAnalysis, TypeOK, Goto, PC
<1>. QED
  BY <1>1, <1>2, <1>3, <1>4, <1>5

(* Every reachable state is well typed.                                    *)
THEOREM TypeCorrect == Spec => []TypeOK
<1>1. Init => TypeOK
  BY FaultsAssumption DEF Init, TypeOK, PC, Status, Box
<1>2. ASSUME TypeOK, [Next]_vars
      PROVE  TypeOK'
  <2>1. CASE UNCHANGED vars
    BY <1>2, <2>1 DEF vars, boxes, work, TypeOK
  <2>2. CASE Next
    BY <1>2, <2>2, OrchestratorType, PipelineType, EndType
    DEF Next, Task, Expire, TypeOK, Box, work
  <2>. QED
    BY <1>2, <2>1, <2>2
<1>. QED
  BY <1>1, <1>2, PTL DEF Spec

-----------------------------------------------------------------------------
(* The invariant, scan by scan.                                            *)
Said(s) == Emitted(s, "SCAN_COMPLETED")
Denied(s) == Emitted(s, "SCAN_FAILED")
Early == {"idle", "created", "mark", "create"}
Staging == DOMAIN Then \cup {"complete"}

(* What a task has said, by what it awaits.                                *)
VerdictAt(s) ==
  /\ pc[s] \in {"created", "mark"} => row[s] = "PENDING"
  /\ pc[s] \in Early \cup Staging \cup InPipeline => ~Said(s) /\ ~Denied(s)
  /\ pc[s] \in {"conclude", "cleanup"} => Said(s) /\ ~Denied(s)
  /\ pc[s] \in {"failPipeline", "unwind", "failScan"} => Denied(s) /\ ~Said(s)
  /\ pc[s] = "destroy" => ~(Said(s) /\ Denied(s)) /\ (Said(s) \/ Denied(s))
  /\ pc[s] = "over" => ~(Said(s) /\ Denied(s)) /\ (row[s] = "PENDING" \/ Said(s) \/ Denied(s))

(* Which of its sandboxes may be up.                                       *)
BoxesAt(s) ==
  /\ pc[s] \in Early => analysis[s] = "none"
  /\ pc[s] \in Early \cup Staging \cup {"provision"} => runtime[s] = "none"
  /\ pc[s] \in {"failScan", "destroy", "over"} => runtime[s] # "up"
  /\ pc[s] = "over" => analysis[s] # "up"

(* What it has to show for itself when it says SCAN_COMPLETED.             *)
Shown(s) == confirmed[s] # {} => patches[s] # {}
WorkAt(s) ==
  /\ pc[s] \in InPipeline \cup {"conclude", "cleanup"} => s \in stats
  /\ s \in counted => patches[s] # {}
  /\ pc[s] \in {"patches", "critic"} => Shown(s)
  /\ Said(s) => s \in stats /\ Shown(s)

LocalInv == \A s \in Scans : VerdictAt(s) /\ BoxesAt(s) /\ WorkAt(s)

(* The sets of program counters, spelled out once.                         *)
LEMMA Counters ==
  /\ Staging = {"ready", "clone", "analyze", "scanners", "repository", "link", "findings", "complete"}
  /\ DOMAIN Then = {"ready", "clone", "analyze", "scanners", "repository", "link", "findings"}
  /\ \A l \in DOMAIN Then : Then[l] \in Staging
BY DEF Staging, Then

(* What an emission, or none, does to the verdicts of the scan.            *)
LEMMA SaidFacts ==
  ASSUME TypeOK, NEW s \in Scans
  PROVE  /\ \A e \in EventTypes : Emit(s, e)
              => (Said(s)' <=> Said(s) \/ e = "SCAN_COMPLETED") /\ (Denied(s)' <=> Denied(s) \/ e = "SCAN_FAILED")
         /\ UNCHANGED stream => (Said(s)' <=> Said(s)) /\ (Denied(s)' <=> Denied(s))
<1>1. ASSUME NEW e \in EventTypes, Emit(s, e)
      PROVE  /\ Said(s)' <=> Said(s) \/ e = "SCAN_COMPLETED"
             /\ Denied(s)' <=> Denied(s) \/ e = "SCAN_FAILED"
  BY <1>1, EmitFacts DEF Said, Denied, TypeOK
<1>2. ASSUME UNCHANGED stream
      PROVE  (Said(s)' <=> Said(s)) /\ (Denied(s)' <=> Denied(s))
  BY <1>2, SameStream DEF Said, Denied
<1>. QED
  BY <1>1, <1>2

(* A step of one task leaves the other scans alone.                        *)
LEMMA OthersKept ==
  ASSUME TypeOK, NEW s \in Scans, NEW t \in Scans, t # s, CreateScan(s) \/ Task(s)
  PROVE  /\ pc'[t] = pc[t] /\ (Said(t)' <=> Said(t)) /\ (Denied(t)' <=> Denied(t))
         /\ row'[t] = row[t] /\ (t \in stats' <=> t \in stats)
         /\ analysis'[t] = analysis[t] /\ runtime'[t] = runtime[t]
         /\ confirmed'[t] = confirmed[t] /\ patches'[t] = patches[t] /\ (t \in counted' <=> t \in counted)
         /\ todo'[t] = todo[t] /\ reviewed'[t] = reviewed[t]
<1>. USE DEF boxes, work, Goto, Emit, Caught, PipelineThrows, Completed, Finally
<1>1. /\ pc'[t] = pc[t] /\ stream'[t] = stream[t]
  BY DEF Task, TypeOK, CreateScan, Begin, MarkRunning, CreateAnalysis, Advance, Complete, Provision, Scout, Plan,
         Snipe, ListConfirmed, Attempt, ListPatches, Review, Conclude, FailPipeline, DestroyRuntime, FailScan, DestroyAnalysis
<1>2. row'[t] = row[t] /\ (t \in stats' <=> t \in stats)
  BY DEF Task, TypeOK, Saves, CreateScan, Begin, MarkRunning, CreateAnalysis, Advance, Complete, Provision, Scout, Plan,
         Snipe, ListConfirmed, Attempt, ListPatches, Review, Conclude, FailPipeline, DestroyRuntime, FailScan, DestroyAnalysis
<1>3. analysis'[t] = analysis[t] /\ runtime'[t] = runtime[t]
  BY DEF Task, TypeOK, Removes, Removed, CreateScan, Begin, MarkRunning, CreateAnalysis, Advance, Complete, Provision, Scout, Plan,
         Snipe, ListConfirmed, Attempt, ListPatches, Review, Conclude, FailPipeline, DestroyRuntime, FailScan, DestroyAnalysis
<1>4. confirmed'[t] = confirmed[t] /\ patches'[t] = patches[t] /\ (t \in counted' <=> t \in counted)
  BY DEF Task, TypeOK, CreateScan, Begin, MarkRunning, CreateAnalysis, Advance, Complete, Provision, Scout, Plan,
         Snipe, ListConfirmed, Attempt, ListPatches, Review, Conclude, FailPipeline, DestroyRuntime, FailScan, DestroyAnalysis
<1>5. (Said(t)' <=> Said(t)) /\ (Denied(t)' <=> Denied(t))
  BY <1>1 DEF Said, Denied, Emitted
<1>6. todo'[t] = todo[t] /\ reviewed'[t] = reviewed[t]
  BY DEF Task, TypeOK, CreateScan, Begin, MarkRunning, CreateAnalysis, Advance, Complete, Provision, Scout, Plan,
         Snipe, ListConfirmed, Attempt, ListPatches, Review, Conclude, FailPipeline, DestroyRuntime, FailScan, DestroyAnalysis
<1>. QED
  BY <1>1, <1>2, <1>3, <1>4, <1>5, <1>6

(* So what the invariant says of them stays as it is.                      *)
LEMMA Frame ==
  ASSUME TypeOK, NEW s \in Scans, NEW t \in Scans, t # s,
         CreateScan(s) \/ Task(s),
         VerdictAt(t), BoxesAt(t), WorkAt(t)
  PROVE  VerdictAt(t)' /\ BoxesAt(t)' /\ WorkAt(t)'
BY OthersKept DEF VerdictAt, BoxesAt, WorkAt, Shown

(* The steps of a task, by what they say and what they await next.         *)
LEMMA VerdictStep ==
  ASSUME TypeOK, NEW s \in Scans, VerdictAt(s), CreateScan(s) \/ Task(s)
  PROVE  VerdictAt(s)'
<1>. USE SaidFacts, EventFacts, Counters
     DEF Goto, Caught, PipelineThrows, Completed, Finally, Early, InPipeline, VerdictAt
<1>1. CASE CreateScan(s)
  BY <1>1 DEF CreateScan, TypeOK
<1>2. CASE Begin(s)
  BY <1>2 DEF Begin, TypeOK
<1>3. CASE MarkRunning(s)
  BY <1>3 DEF MarkRunning, TypeOK
<1>4. CASE CreateAnalysis(s)
  BY <1>4 DEF CreateAnalysis, TypeOK
<1>5. CASE Advance(s)
  BY <1>5 DEF Advance, TypeOK
<1>6. CASE Complete(s)
  BY <1>6 DEF Complete, TypeOK
<1>7. CASE Provision(s)
  BY <1>7 DEF Provision, TypeOK
<1>8. CASE Scout(s)
  BY <1>8 DEF Scout, TypeOK
<1>9. CASE Plan(s)
  BY <1>9 DEF Plan, TypeOK
<1>10. CASE Snipe(s)
  BY <1>10 DEF Snipe, TypeOK
<1>11. CASE ListConfirmed(s)
  BY <1>11 DEF ListConfirmed, TypeOK
<1>12. CASE Attempt(s)
  BY <1>12 DEF Attempt, TypeOK
<1>13. CASE ListPatches(s)
  BY <1>13 DEF ListPatches, TypeOK
<1>14. CASE Review(s)
  BY <1>14 DEF Review, TypeOK
<1>15. CASE Conclude(s)
  BY <1>15 DEF Conclude, TypeOK, Saves
<1>16. CASE FailPipeline(s)
  BY <1>16 DEF FailPipeline, TypeOK, Saves
<1>17. CASE DestroyRuntime(s)
  BY <1>17 DEF DestroyRuntime, TypeOK
<1>18. CASE FailScan(s)
  BY <1>18 DEF FailScan, TypeOK
<1>19. CASE DestroyAnalysis(s)
  BY <1>19 DEF DestroyAnalysis, TypeOK
<1>. QED
  BY <1>1, <1>2, <1>3, <1>4, <1>5, <1>6, <1>7, <1>8, <1>9, <1>10, <1>11, <1>12, <1>13, <1>14, <1>15, <1>16, <1>17, <1>18, <1>19 DEF Task

(* Both sandboxes: what is up is still to be removed.                      *)
LEMMA BoxesStep ==
  ASSUME TypeOK, NEW s \in Scans, BoxesAt(s), CreateScan(s) \/ Task(s)
  PROVE  BoxesAt(s)'
<1>. USE Counters
     DEF Goto, Caught, PipelineThrows, Completed, Finally, Early, InPipeline, BoxesAt, boxes
<1>1. CASE CreateScan(s)
  BY <1>1 DEF CreateScan, TypeOK
<1>2. CASE Begin(s)
  BY <1>2 DEF Begin, TypeOK
<1>3. CASE MarkRunning(s)
  BY <1>3 DEF MarkRunning, TypeOK
<1>4. CASE CreateAnalysis(s)
  BY <1>4 DEF CreateAnalysis, TypeOK
<1>5. CASE Advance(s)
  BY <1>5 DEF Advance, TypeOK
<1>6. CASE Complete(s)
  BY <1>6 DEF Complete, TypeOK
<1>7. CASE Provision(s)
  BY <1>7 DEF Provision, TypeOK
<1>8. CASE Scout(s)
  BY <1>8 DEF Scout, TypeOK
<1>9. CASE Plan(s)
  BY <1>9 DEF Plan, TypeOK
<1>10. CASE Snipe(s)
  BY <1>10 DEF Snipe, TypeOK
<1>11. CASE ListConfirmed(s)
  BY <1>11 DEF ListConfirmed, TypeOK
<1>12. CASE Attempt(s)
  BY <1>12 DEF Attempt, TypeOK
<1>13. CASE ListPatches(s)
  BY <1>13 DEF ListPatches, TypeOK
<1>14. CASE Review(s)
  BY <1>14 DEF Review, TypeOK
<1>15. CASE Conclude(s)
  BY <1>15 DEF Conclude, TypeOK
<1>16. CASE FailPipeline(s)
  BY <1>16 DEF FailPipeline, TypeOK
<1>17. CASE DestroyRuntime(s)
  BY <1>17 DEF DestroyRuntime, TypeOK, Removes, Removed
<1>18. CASE FailScan(s)
  BY <1>18 DEF FailScan, TypeOK
<1>19. CASE DestroyAnalysis(s)
  BY <1>19 DEF DestroyAnalysis, TypeOK, Removes, Removed
<1>. QED
  BY <1>1, <1>2, <1>3, <1>4, <1>5, <1>6, <1>7, <1>8, <1>9, <1>10, <1>11, <1>12, <1>13, <1>14, <1>15, <1>16, <1>17, <1>18, <1>19 DEF Task

(* The remediation a completed scan has to show.                           *)
LEMMA WorkStep ==
  ASSUME TypeOK, NEW s \in Scans, VerdictAt(s), WorkAt(s), CreateScan(s) \/ Task(s)
  PROVE  WorkAt(s)'
<1>. USE SaidFacts, EventFacts, Counters
     DEF Goto, Caught, PipelineThrows, Completed, Finally, Early, InPipeline, VerdictAt, WorkAt, Shown, work
<1>1. CASE CreateScan(s)
  BY <1>1 DEF CreateScan, TypeOK
<1>2. CASE Begin(s)
  BY <1>2 DEF Begin, TypeOK
<1>3. CASE MarkRunning(s)
  BY <1>3 DEF MarkRunning, TypeOK
<1>4. CASE CreateAnalysis(s)
  BY <1>4 DEF CreateAnalysis, TypeOK
<1>5. CASE Advance(s)
  BY <1>5 DEF Advance, TypeOK
<1>6. CASE Complete(s)
  BY <1>6 DEF Complete, TypeOK
<1>7. CASE Provision(s)
  BY <1>7 DEF Provision, TypeOK
<1>8. CASE Scout(s)
  BY <1>8 DEF Scout, TypeOK
<1>9. CASE Plan(s)
  BY <1>9 DEF Plan, TypeOK
<1>10. CASE Snipe(s)
  BY <1>10 DEF Snipe, TypeOK
<1>11. CASE ListConfirmed(s)
  BY <1>11 DEF ListConfirmed, TypeOK
<1>12. CASE Attempt(s)
  <2>1. PICK v \in todo[s] :
          /\ \/ patches' = [patches EXCEPT ![s] = @ \cup {v}] /\ counted' = counted \cup {s}
             \/ UNCHANGED <<patches, counted>>
             \/ patches' = [patches EXCEPT ![s] = @ \cup {v}] /\ UNCHANGED counted
          /\ \/ UNCHANGED <<pc, stream>>
             \/ PipelineThrows(s)
             \/ s \in counted' /\ Goto(s, "patches") /\ UNCHANGED stream
    BY <1>12 DEF Attempt, AllFailed
  <2>2. pc[s] = "engineer" /\ UNCHANGED <<stats, confirmed>>
    BY <1>12 DEF Attempt
  <2>3. s \in counted' => patches'[s] # {}
    <3>1. patches' = [patches EXCEPT ![s] = @ \cup {v}] => v \in patches'[s]
      BY DEF TypeOK
    <3>. QED
      BY <2>1, <3>1
  <2>4. ~Said(s) /\ ~Said(s)'
    BY <2>1, <2>2
  <2>5. pc'[s] \in {"patches", "critic"} => s \in counted'
    BY <2>1, <2>2 DEF TypeOK
  <2>6. pc'[s] \in InPipeline \cup {"conclude", "cleanup"} => s \in stats'
    BY <2>2
  <2>. QED
    BY <2>3, <2>4, <2>5, <2>6
<1>13. CASE ListPatches(s)
  BY <1>13 DEF ListPatches, TypeOK
<1>14. CASE Review(s)
  BY <1>14 DEF Review, TypeOK
<1>15. CASE Conclude(s)
  BY <1>15 DEF Conclude, TypeOK
<1>16. CASE FailPipeline(s)
  BY <1>16 DEF FailPipeline, TypeOK
<1>17. CASE DestroyRuntime(s)
  BY <1>17 DEF DestroyRuntime, TypeOK
<1>18. CASE FailScan(s)
  BY <1>18 DEF FailScan, TypeOK
<1>19. CASE DestroyAnalysis(s)
  BY <1>19 DEF DestroyAnalysis, TypeOK
<1>. QED
  BY <1>1, <1>2, <1>3, <1>4, <1>5, <1>6, <1>7, <1>8, <1>9, <1>10, <1>11, <1>12, <1>13, <1>14, <1>15, <1>16, <1>17, <1>18, <1>19 DEF Task

-----------------------------------------------------------------------------
(* The inductive invariant: per scan, what it has said, which of its        *)
(* sandboxes may be up and what it has to show.                            *)
THEOREM Invariant == Spec => []LocalInv
<1>1. Init => LocalInv
  <2>. SUFFICES ASSUME Init, NEW s \in Scans
                PROVE  VerdictAt(s) /\ BoxesAt(s) /\ WorkAt(s)
    BY DEF LocalInv
  <2>1. pc[s] = "idle" /\ analysis[s] = "none" /\ runtime[s] = "none" /\ counted = {} /\ ~Said(s) /\ ~Denied(s)
    BY DEF Init, Said, Denied, Emitted
  <2>. QED
    BY <2>1, Counters DEF VerdictAt, BoxesAt, WorkAt, InPipeline
<1>2. ASSUME TypeOK, LocalInv, [Next]_vars
      PROVE  LocalInv'
  <2>. SUFFICES ASSUME NEW t \in Scans
                PROVE  VerdictAt(t)' /\ BoxesAt(t)' /\ WorkAt(t)'
    BY DEF LocalInv
  <2>0. VerdictAt(t) /\ BoxesAt(t) /\ WorkAt(t)
    BY <1>2 DEF LocalInv
  <2>1. CASE UNCHANGED vars
    BY <2>0, <2>1 DEF vars, boxes, work, VerdictAt, BoxesAt, WorkAt, Shown, Said, Denied, Emitted
  <2>2. ASSUME NEW s \in Scans, CreateScan(s) \/ Task(s)
        PROVE  VerdictAt(t)' /\ BoxesAt(t)' /\ WorkAt(t)'
    BY <1>2, <2>0, <2>2, Frame, VerdictStep, BoxesStep, WorkStep
  <2>3. ASSUME NEW s \in Scans, NEW u \in Scans, Expire(s, u)
        PROVE  VerdictAt(t)' /\ BoxesAt(t)' /\ WorkAt(t)'
    <3>1. /\ UNCHANGED <<pc, row, stats, stream, analysis, confirmed, patches, counted>>
          /\ runtime'[t] = runtime[t] \/ (runtime[t] # "none" /\ runtime'[t] = "down")
      BY <1>2, <2>3 DEF Expire, work, TypeOK
    <3>. QED
      BY <2>0, <3>1 DEF VerdictAt, BoxesAt, WorkAt, Shown, Said, Denied, Emitted
  <2>. QED
    BY <1>2, <2>1, <2>2, <2>3 DEF Next
<1>. QED
  BY <1>1, <1>2, TypeCorrect, PTL DEF Spec

(* The stream never holds both verdicts.                                   *)
THEOREM Verdicts == Spec => []OneVerdict
<1>1. TypeOK /\ LocalInv => OneVerdict
  BY Counters DEF TypeOK, PC, LocalInv, VerdictAt, OneVerdict, Said, Denied, Early
<1>. QED
  BY <1>1, TypeCorrect, Invariant, PTL

(* A scan that was marked running does not end without a verdict.          *)
THEOREM Heard == Spec => []NeverSilent
<1>1. LocalInv => NeverSilent
  BY DEF LocalInv, VerdictAt, NeverSilent, Said, Denied
<1>. QED
  BY <1>1, Invariant, PTL

(* The removal of both sandboxes was tried when the scan is over.          *)
THEOREM TornDown == Spec => []NothingLeftUp
<1>1. LocalInv => NothingLeftUp
  BY DEF LocalInv, BoxesAt, NothingLeftUp
<1>. QED
  BY <1>1, Invariant, PTL

(* A scan that is said to be completed has its statistics and, if it       *)
(* confirmed something, a patch.                                           *)
THEOREM Remediated == Spec => []CompletedIsRemediated
<1>1. LocalInv => CompletedIsRemediated
  BY DEF LocalInv, WorkAt, Shown, CompletedIsRemediated, Said
<1>. QED
  BY <1>1, Invariant, PTL

-----------------------------------------------------------------------------
(* What the database tells in the end, while no write was lost and no      *)
(* error swallowed.  Three services write the row, so the invariant holds  *)
(* of it only behind the last of them; a patch is without a review as long *)
(* as it is on the list of the critic, and a task that is cut short before *)
(* the list is made has none.                                              *)
RowAt(s) ==
  /\ pc[s] = "cleanup" => row[s] = "COMPLETED"
  /\ pc[s] \in {"destroy", "over"} => row[s] = IF Said(s) THEN "COMPLETED" ELSE "FAILED"

BeforeEngineer == Early \cup Staging \cup {"provision", "scout", "planner", "sniper", "list"}
ReviewedAt(s) ==
  /\ pc[s] \in BeforeEngineer => patches[s] = {}
  /\ pc[s] = "engineer" => s \in counted \/ patches[s] = {}
  /\ pc[s] \in BeforeEngineer \cup {"engineer", "patches"} => reviewed[s] = {}
  /\ pc[s] = "critic" => reviewed[s] \cup todo[s] = patches[s]
  /\ pc[s] \notin BeforeEngineer \cup {"engineer", "patches", "critic"} => reviewed[s] = patches[s]

RowInv == faults = 0 => \A s \in Scans : RowAt(s) /\ ReviewedAt(s)

(* The number of failures never goes down.                                 *)
LEMMA FaultsGrow ==
  ASSUME TypeOK, [Next]_vars, faults' = 0
  PROVE  faults = 0 /\ UNCHANGED faults
<1>1. faults \in Nat /\ ~Fault
  BY FaultsAssumption DEF TypeOK, Fault
<1>2. UNCHANGED faults
  BY <1>1 DEF Next, Task, vars, boxes, work, Saves, Removes, CreateScan, Begin, MarkRunning, CreateAnalysis,
         Advance, Complete, Provision, Expire, Scout, Plan, Snipe, ListConfirmed, Attempt, ListPatches, Review,
         Conclude, FailPipeline, DestroyRuntime, FailScan, DestroyAnalysis
<1>. QED
  BY <1>2

(* The row of the scan whose task goes on.                                 *)
LEMMA RowStep ==
  ASSUME TypeOK, NEW s \in Scans, VerdictAt(s), RowAt(s), CreateScan(s) \/ Task(s), ~Fault
  PROVE  RowAt(s)'
<1>. USE SaidFacts, EventFacts, Counters
     DEF Goto, Caught, PipelineThrows, Completed, Finally, Early, InPipeline, VerdictAt, RowAt
<1>1. CASE CreateScan(s) \/ Begin(s) \/ MarkRunning(s) \/ CreateAnalysis(s)
  BY <1>1 DEF CreateScan, Begin, MarkRunning, CreateAnalysis, TypeOK
<1>2. CASE Advance(s)
  BY <1>2 DEF Advance, TypeOK
<1>3. CASE Complete(s) \/ Provision(s) \/ Scout(s) \/ Plan(s) \/ Snipe(s)
  BY <1>3 DEF Complete, Provision, Scout, Plan, Snipe, TypeOK
<1>4. CASE ListConfirmed(s) \/ Attempt(s) \/ ListPatches(s) \/ Review(s)
  BY <1>4 DEF ListConfirmed, Attempt, ListPatches, Review, TypeOK
<1>5. CASE Conclude(s)
  BY <1>5 DEF Conclude, Saves, TypeOK
<1>6. CASE FailPipeline(s)
  BY <1>6 DEF FailPipeline, TypeOK
<1>7. CASE DestroyRuntime(s)
  BY <1>7 DEF DestroyRuntime, TypeOK
<1>8. CASE FailScan(s)
  BY <1>8 DEF FailScan, TypeOK
<1>9. CASE DestroyAnalysis(s)
  BY <1>9 DEF DestroyAnalysis, TypeOK
<1>. QED
  BY <1>1, <1>2, <1>3, <1>4, <1>5, <1>6, <1>7, <1>8, <1>9 DEF Task

(* The reviews of the scan whose task goes on.                             *)
LEMMA ReviewedStep ==
  ASSUME TypeOK, NEW s \in Scans, ReviewedAt(s), CreateScan(s) \/ Task(s), ~Fault
  PROVE  ReviewedAt(s)'
<1>. USE Counters
     DEF Goto, Caught, PipelineThrows, Completed, Finally, Early, InPipeline, ReviewedAt, BeforeEngineer, work
<1>1. CASE CreateScan(s) \/ Begin(s) \/ MarkRunning(s) \/ CreateAnalysis(s)
  BY <1>1 DEF CreateScan, Begin, MarkRunning, CreateAnalysis, TypeOK
<1>2. CASE Advance(s)
  BY <1>2 DEF Advance, TypeOK
<1>3. CASE Complete(s) \/ Provision(s) \/ Scout(s) \/ Plan(s) \/ Snipe(s)
  BY <1>3 DEF Complete, Provision, Scout, Plan, Snipe, TypeOK
<1>4. CASE ListConfirmed(s)
  BY <1>4 DEF ListConfirmed, TypeOK
<1>5. CASE Attempt(s)
  <2>1. /\ s \in counted' \/ (UNCHANGED <<patches, counted>>)
        /\ UNCHANGED pc \/ (Goto(s, "failPipeline") /\ s \notin counted') \/ Goto(s, "patches")
        /\ pc[s] = "engineer" /\ UNCHANGED reviewed
    BY <1>5 DEF Attempt, AllFailed
  <2>. QED
    BY <2>1 DEF TypeOK
<1>6. CASE ListPatches(s)
  BY <1>6 DEF ListPatches, TypeOK
<1>7. CASE Review(s)
  <2>1. PICK v \in todo[s] :
          /\ reviewed' = [reviewed EXCEPT ![s] = @ \cup {v}]
          /\ todo' = [todo EXCEPT ![s] = @ \ {v}]
          /\ \/ UNCHANGED pc
             \/ todo[s] = {v} /\ Goto(s, "conclude")
    BY <1>7 DEF Review
  <2>2. pc[s] = "critic" /\ UNCHANGED patches
    BY <1>7 DEF Review
  <2>3. reviewed'[s] = reviewed[s] \cup {v} /\ todo'[s] = todo[s] \ {v}
    BY <2>1 DEF TypeOK
  <2>. QED
    BY <2>1, <2>2, <2>3 DEF TypeOK
<1>8. CASE Conclude(s) \/ FailPipeline(s) \/ DestroyRuntime(s)
  BY <1>8 DEF Conclude, FailPipeline, DestroyRuntime, TypeOK
<1>9. CASE FailScan(s) \/ DestroyAnalysis(s)
  BY <1>9 DEF FailScan, DestroyAnalysis, TypeOK
<1>. QED
  BY <1>1, <1>2, <1>3, <1>4, <1>5, <1>6, <1>7, <1>8, <1>9 DEF Task

(* When a scan is over, no write was lost and no error swallowed, its row  *)
(* says what its stream said, although three services write it, and every  *)
(* patch has been handed to the critic, although every stage may throw.    *)
THEOREM RowsTell == Spec => []RowsTellAll
<1>1. Init => RowInv
  BY Counters DEF Init, RowInv, RowAt, ReviewedAt, BeforeEngineer, Early
<1>2. ASSUME TypeOK, LocalInv, RowInv, [Next]_vars
      PROVE  RowInv'
  <2>. SUFFICES ASSUME faults' = 0, NEW t \in Scans
                PROVE  RowAt(t)' /\ ReviewedAt(t)'
    BY DEF RowInv
  <2>0. /\ VerdictAt(t) /\ RowAt(t) /\ ReviewedAt(t)
        /\ \A s \in Scans : VerdictAt(s) /\ RowAt(s) /\ ReviewedAt(s)
    BY <1>2, FaultsGrow DEF LocalInv, RowInv
  <2>1. CASE UNCHANGED vars
    BY <2>0, <2>1 DEF vars, boxes, work, RowAt, ReviewedAt, Said, Emitted
  <2>2. ASSUME NEW s \in Scans, CreateScan(s) \/ Task(s)
        PROVE  RowAt(t)' /\ ReviewedAt(t)'
    <3>1. ~Fault
      BY <1>2, FaultsGrow DEF TypeOK, Fault
    <3>2. CASE s = t
      BY <1>2, <2>0, <2>2, <3>1, <3>2, RowStep, ReviewedStep
    <3>3. CASE s # t
      BY <1>2, <2>0, <2>2, <3>3, OthersKept DEF RowAt, ReviewedAt
    <3>. QED
      BY <3>2, <3>3
  <2>3. ASSUME NEW s \in Scans, NEW u \in Scans, Expire(s, u)
        PROVE  RowAt(t)' /\ ReviewedAt(t)'
    BY <2>0, <2>3 DEF Expire, work, RowAt, ReviewedAt, Said, Emitted
  <2>. QED
    BY <1>2, <2>1, <2>2, <2>3 DEF Next
<1>3. RowInv => RowsTellAll
  BY Counters DEF RowInv, RowAt, ReviewedAt, BeforeEngineer, Early, RowsTellAll, RowTellsVerdict,
                  NoPatchIsForgotten, Said
<1>. QED
  BY <1>1, <1>2, <1>3, TypeCorrect, Invariant, PTL DEF Spec

-----------------------------------------------------------------------------
(* The scout and the planner: AttackPlanner.                               *)

(* Natural numbers are well ordered.                                       *)
Descends == {p \in Nat \X Nat : p[1] < p[2]}
LEMMA DescentEnds == IsWellFoundedOn(Descends, Nat)
<1>1. Descends = OpToRel(<, Nat)
  BY DEF Descends, OpToRel
<1> QED BY <1>1, NatLessThanWellFounded DEF OpToRel, Descends

LEMMA LeastOf ==
  ASSUME NEW T, T \subseteq Nat, T # {}
  PROVE \E m \in T : \A k \in T : m <= k
<1>1. PICK m \in T : \A k \in T : ~(<<k, m>> \in Descends)
  BY DescentEnds, WFMin
<1>2. ASSUME NEW k \in T, ~(m <= k) PROVE FALSE
  <2>1. k \in Nat /\ m \in Nat /\ k < m
    BY <1>2
  <2>2. <<k, m>> \in Nat \X Nat
    BY <2>1
  <2>3. <<k, m>>[1] < <<k, m>>[2]
    BY <2>1
  <2> QED BY <1>1, <1>2, <2>2, <2>3 DEF Descends
<1> QED BY <1>2

(* What holds at 0 and goes on from every number to the next holds up to n. *)
LEMMA Climbs ==
  ASSUME NEW n \in Nat, NEW T, 0 \in T, \A k \in 1..n : k - 1 \in T => k \in T
  PROVE  \A k \in 0..n : k \in T
<1> DEFINE B == {k \in 0..n : k \notin T}
<1>1. SUFFICES ASSUME B # {} PROVE FALSE
  OBVIOUS
<1>2. PICK m \in B : \A k \in B : m <= k
  <2> B \subseteq Nat
    OBVIOUS
  <2> HIDE DEF B
  <2> QED BY <1>1, LeastOf
<1>3. m # 0 /\ m \in 1..n
  BY <1>2
<1>4. m - 1 \in T
  <2> m - 1 \in 0..n /\ ~(m <= m - 1)
    BY <1>3
  <2> QED BY <1>2
<1> QED BY <1>2, <1>3, <1>4

(* What a fold over a list goes through, for a step F[k] of each element.  *)
Goes(g, F, base, n) == g[0] = base /\ \A k \in 1..n : g[k] = F[k][g[k-1]]
LEMMA FoldGoes ==
  ASSUME NEW n \in Nat, NEW S, NEW base \in S, NEW F, \A k \in 1..n : \A x \in S : F[k][x] \in S
  PROVE  \E g \in [0..n -> S] : Goes(g, F, base, n)
<1> DEFINE T == {m \in 0..n : \E g \in [0..m -> S] : Goes(g, F, base, m)}
<1>1. 0 \in T
  <2> DEFINE g == [k \in 0..0 |-> base]
  <2>1. g \in [0..0 -> S] /\ g[0] = base /\ 1..0 = {}
    OBVIOUS
  <2> HIDE DEF g
  <2>2. Goes(g, F, base, 0)
    BY <2>1 DEF Goes
  <2> QED BY <2>1, <2>2
<1>2. ASSUME NEW m \in 1..n, m - 1 \in T PROVE m \in T
  <2>0. m \in Nat /\ m - 1 \in Nat /\ m - 1 \in 0..m-1 /\ 0 \in 0..m-1
    OBVIOUS
  <2>1. PICK h \in [0..m-1 -> S] : Goes(h, F, base, m - 1)
    BY <1>2
  <2> DEFINE top == F[m][h[m-1]]
             g == [k \in 0..m |-> IF k = m THEN top ELSE h[k]]
  <2>2. top \in S
    <3> h[m-1] \in S
      BY <2>0
    <3> QED OBVIOUS
  <2> HIDE DEF top
  <2>3. g \in [0..m -> S] /\ g[m] = top /\ \A k \in 0..m-1 : g[k] = h[k]
    BY <2>0, <2>2
  <2> HIDE DEF g
  <2>4. g[0] = base
    BY <2>0, <2>1, <2>3 DEF Goes
  <2>5. ASSUME NEW k \in 1..m PROVE g[k] = F[k][g[k-1]]
    <3>1. CASE k = m
      BY <2>0, <2>3, <3>1 DEF top
    <3>2. CASE k # m
      <4>1. k \in 1..m-1 /\ k \in 0..m-1 /\ k - 1 \in 0..m-1
        BY <2>0, <3>2
      <4>2. h[k] = F[k][h[k-1]]
        BY <2>1, <4>1 DEF Goes
      <4> QED BY <2>3, <4>1, <4>2
    <3> QED BY <3>1, <3>2
  <2>6. Goes(g, F, base, m)
    BY <2>4, <2>5 DEF Goes
  <2> QED BY <2>3, <2>6
<1>3. \A k \in 0..n : k \in T
  <2> HIDE DEF T
  <2> QED BY <1>1, <1>2, Climbs
<1>4. n \in 0..n
  OBVIOUS
<1> QED BY <1>3, <1>4

-----------------------------------------------------------------------------

(* What a sighting of an endpoint is.                                      *)
Sources == {"docs", "api", "form", "crawler", "link", "robots", "graphql", "common"}
Statuses == {"none", "ok", "locked"}
Methods == {"GET"} \cup UNION {{RefsOf[u][i].method : i \in 1..Len(RefsOf[u])} : u \in Urls}
ParamNames == (UNION {QueryOf[u] : u \in Urls})
              \cup (UNION {UNION {RefsOf[u][i].params : i \in 1..Len(RefsOf[u])} : u \in Urls})
Sighted == [url : Urls, method : Methods, params : SUBSET ParamNames, auth : BOOLEAN,
            source : Sources, status : Statuses]
Endpoints == {EndpointKey(e) : e \in Sighted}
EndpointMaps == UNION {[K -> Sighted] : K \in SUBSET Endpoints}

LEMMA SightedIs ==
  ASSUME NEW e \in Sighted
  PROVE  /\ e.url \in Urls /\ e.method \in Methods /\ e.params \in SUBSET ParamNames
         /\ e.auth \in BOOLEAN /\ e.source \in Sources /\ e.status \in Statuses
         /\ SourceRank[e.source] \in Nat /\ EndpointKey(e) \in Endpoints
<1>1. e.source \in Sources
  BY DEF Sighted
<1>2. SourceRank[e.source] \in Nat
  BY <1>1 DEF SourceRank, Sources
<1>3. EndpointKey(e) \in Endpoints
  BY DEF Endpoints
<1> QED BY <1>1, <1>2, <1>3 DEF Sighted

LEMMA SightingIs ==
  ASSUME NEW u \in Urls, NEW m \in Methods, NEW p \in SUBSET ParamNames, NEW a \in BOOLEAN,
         NEW o \in Sources, NEW t \in Statuses
  PROVE  Sighting(u, m, p, a, o, t) \in Sighted
BY DEF Sighting, Sighted

(* What add() makes of an endpoint that is known.                          *)
Better(old, e) ==
  Sighting(IF QueryOf[old.url] # {} THEN old.url ELSE e.url, e.method,
           old.params \cup e.params, old.auth \/ e.auth,
           IF SourceRank[e.source] > SourceRank[old.source] THEN e.source ELSE old.source,
           IF old.status # "none" THEN old.status ELSE e.status)
LEMMA AddIs ==
  ASSUME NEW map, NEW e
  PROVE  /\ DOMAIN AddEndpoint(map, e) = DOMAIN map \cup {EndpointKey(e)}
         /\ AddEndpoint(map, e) = [x \in DOMAIN AddEndpoint(map, e) |-> AddEndpoint(map, e)[x]]
         /\ \A x \in DOMAIN map : x # EndpointKey(e) => AddEndpoint(map, e)[x] = map[x]
         /\ AddEndpoint(map, e)[EndpointKey(e)] =
              IF EndpointKey(e) \in DOMAIN map THEN Better(map[EndpointKey(e)], e) ELSE e
<1> DEFINE k == EndpointKey(e)
<1>1. AddEndpoint(map, e) =
        [x \in DOMAIN map \cup {k} |-> IF x # k THEN map[x] ELSE IF k \in DOMAIN map THEN Better(map[k], e) ELSE e]
  BY DEF AddEndpoint, Better
<1> HIDE DEF k
<1>2. /\ DOMAIN AddEndpoint(map, e) = DOMAIN map \cup {k}
      /\ AddEndpoint(map, e) = [x \in DOMAIN AddEndpoint(map, e) |-> AddEndpoint(map, e)[x]]
      /\ \A x \in DOMAIN map : x # k => AddEndpoint(map, e)[x] = map[x]
      /\ AddEndpoint(map, e)[k] = IF k \in DOMAIN map THEN Better(map[k], e) ELSE e
  BY <1>1
<1> QED BY <1>2 DEF k

LEMMA BetterIs ==
  ASSUME NEW old \in Sighted, NEW e \in Sighted
  PROVE  Better(old, e) \in Sighted
<1>1. /\ (IF QueryOf[old.url] # {} THEN old.url ELSE e.url) \in Urls /\ e.method \in Methods
      /\ old.params \cup e.params \in SUBSET ParamNames
      /\ (IF SourceRank[e.source] > SourceRank[old.source] THEN e.source ELSE old.source) \in Sources
      /\ (IF old.status # "none" THEN old.status ELSE e.status) \in Statuses
  BY SightedIs
<1>2. (old.auth \/ e.auth) \in BOOLEAN
  OBVIOUS
<1> QED BY <1>1, <1>2, SightingIs DEF Better

LEMMA AddType ==
  ASSUME NEW map \in EndpointMaps, NEW e \in Sighted
  PROVE  AddEndpoint(map, e) \in EndpointMaps
<1> DEFINE k == EndpointKey(e)
           new == AddEndpoint(map, e)
<1>1. PICK K \in SUBSET Endpoints : map \in [K -> Sighted]
  BY DEF EndpointMaps
<1>2. k \in Endpoints
  BY SightedIs
<1>3. DOMAIN new = K \cup {k} /\ new = [x \in DOMAIN new |-> new[x]]
  BY <1>1, AddIs
<1>4. ASSUME NEW x \in K \cup {k} PROVE new[x] \in Sighted
  <2>1. CASE x # k
    <3>1. x \in K /\ x \in DOMAIN map /\ map[x] \in Sighted
      BY <1>1, <1>4, <2>1
    <3>2. \A y \in DOMAIN map : y # k => new[y] = map[y]
      BY AddIs
    <3> QED BY <2>1, <3>1, <3>2
  <2>2. CASE x = k
    <3>1. new[x] = IF k \in DOMAIN map THEN Better(map[k], e) ELSE e
      BY <2>2, AddIs
    <3>2. k \in DOMAIN map => Better(map[k], e) \in Sighted
      BY <1>1, BetterIs
    <3> QED BY <3>1, <3>2
  <2> QED BY <2>1, <2>2
<1> HIDE DEF k, new
<1>5. new \in [K \cup {k} -> Sighted]
  BY <1>3, <1>4
<1>6. K \cup {k} \in SUBSET Endpoints
  BY <1>1, <1>2
<1> QED BY <1>5, <1>6 DEF EndpointMaps, new

(* What merging the sightings of I has to give.                            *)
Merges(e, seen, I) ==
  /\ e \in Sighted
  /\ e.params = UNION {seen[i].params : i \in I}
  /\ e.auth <=> \E i \in I : seen[i].auth
  /\ \A i \in I : SourceRank[seen[i].source] <= SourceRank[e.source]
  /\ \E i \in I : seen[i].source = e.source
  /\ \/ e.status = "none" /\ \A i \in I : seen[i].status = "none"
     \/ \E i \in I : /\ seen[i].status # "none" /\ e.status = seen[i].status
                     /\ \A j \in I : seen[j].status # "none" => i <= j
  /\ QueryOf[e.url] = {} => \A i \in I : QueryOf[seen[i].url] = {}

LEMMA FirstMerges ==
  ASSUME NEW seen, NEW n \in Nat, seen[n] \in Sighted
  PROVE  Merges(seen[n], seen, {n})
<1>1. SourceRank[seen[n].source] \in Nat /\ seen[n].auth \in BOOLEAN
  BY SightedIs
<1> QED BY <1>1 DEF Merges

LEMMA NextMerges ==
  ASSUME NEW seen, NEW n \in Nat, seen[n] \in Sighted, NEW I \in SUBSET Nat, \A i \in I : i < n /\ seen[i] \in Sighted,
         NEW old, Merges(old, seen, I)
  PROVE  Merges(Better(old, seen[n]), seen, I \cup {n})
<1> DEFINE e == seen[n]
           new == Better(old, e)
           J == I \cup {n}
<1>0. old \in Sighted /\ e \in Sighted
  BY DEF Merges
<1>1. new \in Sighted
  BY <1>0, BetterIs
<1>2. /\ new.url = (IF QueryOf[old.url] # {} THEN old.url ELSE e.url)
      /\ new.params = old.params \cup e.params
      /\ new.auth = (old.auth \/ e.auth)
      /\ new.source = (IF SourceRank[e.source] > SourceRank[old.source] THEN e.source ELSE old.source)
      /\ new.status = (IF old.status # "none" THEN old.status ELSE e.status)
  BY DEF Better, Sighting
<1>3. SourceRank[e.source] \in Nat /\ SourceRank[old.source] \in Nat /\ \A i \in I : SourceRank[seen[i].source] \in Nat
  BY <1>0, SightedIs
<1> HIDE DEF new, e
<1>4. new.params = UNION {seen[i].params : i \in J}
  <2>1. old.params = UNION {seen[i].params : i \in I}
    BY DEF Merges
  <2> QED BY <1>2, <2>1 DEF e
<1>5. new.auth <=> \E i \in J : seen[i].auth
  <2>1. old.auth <=> \E i \in I : seen[i].auth
    BY DEF Merges
  <2> QED BY <1>2, <2>1 DEF e
<1>6. \A i \in J : SourceRank[seen[i].source] <= SourceRank[new.source]
  <2>1. \A i \in I : SourceRank[seen[i].source] <= SourceRank[old.source]
    BY DEF Merges
  <2>2. CASE SourceRank[e.source] > SourceRank[old.source]
    <3>1. ASSUME NEW i \in I PROVE SourceRank[seen[i].source] <= SourceRank[e.source]
      <4> DEFINE a == SourceRank[seen[i].source]
                 b == SourceRank[old.source]
                 c == SourceRank[e.source]
      <4>1. a \in Nat /\ b \in Nat /\ c \in Nat /\ a <= b /\ c > b
        BY <1>3, <2>1, <2>2
      <4> HIDE DEF a, b, c
      <4>2. a <= c
        BY <4>1
      <4> QED BY <4>2 DEF a, c
    <3> QED BY <1>2, <1>3, <2>2, <3>1 DEF e
  <2>3. CASE ~(SourceRank[e.source] > SourceRank[old.source])
    <3>1. SourceRank[e.source] <= SourceRank[old.source]
      BY <1>3, <2>3
    <3> QED BY <1>2, <2>1, <2>3, <3>1 DEF e
  <2> QED BY <2>2, <2>3
<1>7. \E i \in J : seen[i].source = new.source
  <2>1. \E i \in I : seen[i].source = old.source
    BY DEF Merges
  <2> QED BY <1>2, <2>1 DEF e
<1>8. \/ new.status = "none" /\ \A i \in J : seen[i].status = "none"
      \/ \E i \in J : /\ seen[i].status # "none" /\ new.status = seen[i].status
                      /\ \A j \in J : seen[j].status # "none" => i <= j
  <2>1. CASE old.status = "none" /\ \A i \in I : seen[i].status = "none"
    <3>1. new.status = e.status
      BY <1>2, <2>1
    <3>2. CASE e.status = "none"
      BY <2>1, <3>1, <3>2 DEF e
    <3>3. CASE e.status # "none"
      <4>1. ASSUME NEW j \in J, seen[j].status # "none" PROVE n <= j
        <5>1. j \notin I
          BY <2>1, <4>1
        <5>2. j = n
          BY <5>1
        <5> QED BY <5>2
      <4> QED BY <3>1, <3>3, <4>1 DEF e
    <3> QED BY <3>2, <3>3
  <2>2. ASSUME NEW i \in I, seen[i].status # "none", old.status = seen[i].status,
               \A j \in I : seen[j].status # "none" => i <= j
        PROVE  \E k \in J : /\ seen[k].status # "none" /\ new.status = seen[k].status
                            /\ \A j \in J : seen[j].status # "none" => k <= j
    <3>1. new.status = seen[i].status
      BY <1>2, <2>2
    <3>2. i <= n
      BY <2>2
    <3> QED BY <2>2, <3>1, <3>2
  <2> QED BY <2>1, <2>2 DEF Merges
<1>9. QueryOf[new.url] = {} => \A i \in J : QueryOf[seen[i].url] = {}
  <2>1. QueryOf[old.url] = {} => \A i \in I : QueryOf[seen[i].url] = {}
    BY DEF Merges
  <2> QED BY <1>2, <2>1 DEF e
<1> QED BY <1>1, <1>4, <1>5, <1>6, <1>7, <1>8, <1>9 DEF Merges, new, e

(* The endpoints after the first n sightings.                              *)
SeenAs(k, seen, n) == {i \in 1..n : EndpointKey(seen[i]) = k}
MapIs(map, seen, n) ==
  /\ DOMAIN map = {EndpointKey(seen[i]) : i \in 1..n}
  /\ \A k \in DOMAIN map : Merges(map[k], seen, SeenAs(k, seen, n))

LEMMA MapGrows ==
  ASSUME NEW seen, NEW n \in Nat \ {0}, \A i \in 1..n : seen[i] \in Sighted, NEW map, MapIs(map, seen, n - 1)
  PROVE  MapIs(AddEndpoint(map, seen[n]), seen, n)
<1> DEFINE e == seen[n]
           k == EndpointKey(e)
           new == AddEndpoint(map, e)
<1>1. 1..n = 1..n-1 \cup {n} /\ n \in 1..n /\ n \in Nat /\ n - 1 \in Nat
  OBVIOUS
<1>2. DOMAIN new = DOMAIN map \cup {k}
  BY AddIs
<1>3. DOMAIN map = {EndpointKey(seen[i]) : i \in 1..n-1}
  BY DEF MapIs
<1>4. DOMAIN new = {EndpointKey(seen[i]) : i \in 1..n}
  <2> HIDE DEF new
  <2> QED BY <1>1, <1>2, <1>3
<1>5. ASSUME NEW x \in DOMAIN map, x # k PROVE Merges(new[x], seen, SeenAs(x, seen, n))
  <2>1. new[x] = map[x]
    <3>1. \A y \in DOMAIN map : y # k => new[y] = map[y]
      BY AddIs
    <3> QED BY <1>5, <3>1
  <2>2. SeenAs(x, seen, n) = SeenAs(x, seen, n - 1)
    BY <1>1, <1>5 DEF SeenAs
  <2>3. Merges(map[x], seen, SeenAs(x, seen, n - 1))
    BY DEF MapIs
  <2> QED BY <2>1, <2>2, <2>3
<1>6. Merges(new[k], seen, SeenAs(k, seen, n))
  <2>0. SeenAs(k, seen, n) = SeenAs(k, seen, n - 1) \cup {n}
    BY <1>1 DEF SeenAs
  <2>1. CASE k \in DOMAIN map
    <3>1. new[k] = Better(map[k], e)
      BY <2>1, AddIs
    <3>2. Merges(map[k], seen, SeenAs(k, seen, n - 1))
      BY <2>1 DEF MapIs
    <3>3. SeenAs(k, seen, n - 1) \in SUBSET Nat /\ \A i \in SeenAs(k, seen, n - 1) : i < n /\ seen[i] \in Sighted
      BY <1>1 DEF SeenAs
    <3>4. seen[n] \in Sighted
      BY <1>1
    <3> HIDE DEF k, new
    <3>5. Merges(Better(map[k], e), seen, SeenAs(k, seen, n - 1) \cup {n})
      BY <1>1, <3>2, <3>3, <3>4, NextMerges
    <3> QED BY <2>0, <3>1, <3>5
  <2>2. CASE k \notin DOMAIN map
    <3>1. new[k] = e
      BY <2>2, AddIs
    <3>2. SeenAs(k, seen, n - 1) = {}
      BY <1>3, <2>2 DEF SeenAs
    <3>3. Merges(seen[n], seen, {n})
      BY <1>1, FirstMerges
    <3> HIDE DEF k, new
    <3> QED BY <2>0, <3>1, <3>2, <3>3
  <2> QED BY <2>1, <2>2
<1> HIDE DEF new, k
<1>7. \A x \in DOMAIN new : Merges(new[x], seen, SeenAs(x, seen, n))
  BY <1>2, <1>5, <1>6
<1> QED BY <1>4, <1>7 DEF MapIs, new

LEMMA MergedIs ==
  ASSUME NEW seen \in Seq(Sighted)
  PROVE  /\ MapIs(Gathered(AddEndpoint, <<>>, seen), seen, Len(seen))
         /\ Gathered(AddEndpoint, <<>>, seen) \in EndpointMaps
<1> DEFINE n == Len(seen)
           Step(f) == [i \in 0..n |-> IF i = 0 THEN <<>>
                         ELSE CHOOSE r \in {AddEndpoint(x, seen[i]) : x \in {f[i - 1]}} : TRUE]
           to == CHOOSE f : f = Step(f)
           F == [k \in 1..n |-> [x \in EndpointMaps |-> AddEndpoint(x, seen[k])]]
<1>1. n \in Nat /\ \A k \in 1..n : seen[k] \in Sighted
  OBVIOUS
<1>2. Gathered(AddEndpoint, <<>>, seen) = to[n]
  BY DEF Gathered
<1>3. <<>> \in EndpointMaps
  <2>1. <<>> \in [{} -> Sighted]
    OBVIOUS
  <2> QED BY <2>1 DEF EndpointMaps
<1> HIDE DEF n
<1>4. \A k \in 1..n : \A x \in EndpointMaps : F[k][x] = AddEndpoint(x, seen[k]) /\ F[k][x] \in EndpointMaps
  BY <1>1, AddType
<1> HIDE DEF F
<1>5. PICK g \in [0..n -> EndpointMaps] : Goes(g, F, <<>>, n)
  BY <1>1, <1>3, <1>4, FoldGoes
<1>6. \A k \in 1..n : g[k] = AddEndpoint(g[k-1], seen[k])
  <2> TAKE k \in 1..n
  <2>1. k - 1 \in 0..n /\ g[k-1] \in EndpointMaps
    BY <1>1
  <2> QED BY <1>4, <1>5, <2>1 DEF Goes
<1>7. g = Step(g)
  <2>1. g[0] = <<>>
    BY <1>5 DEF Goes
  <2>2. ASSUME NEW k \in 0..n
        PROVE  g[k] = IF k = 0 THEN <<>> ELSE CHOOSE r \in {AddEndpoint(x, seen[k]) : x \in {g[k-1]}} : TRUE
    <3>1. k # 0 => k \in 1..n
      BY <1>1
    <3>2. k # 0 => g[k] = AddEndpoint(g[k-1], seen[k])
      BY <1>6, <3>1
    <3> QED BY <2>1, <3>2
  <2>3. g = [k \in 0..n |-> g[k]]
    OBVIOUS
  <2> QED BY <2>2, <2>3
<1>8. to = Step(to)
  BY <1>7
<1> HIDE DEF to
<1>9. to[0] = <<>> /\ \A k \in 1..n : to[k] = AddEndpoint(to[k-1], seen[k])
  <2>1. to[0] = <<>>
    BY <1>1, <1>8
  <2>2. ASSUME NEW k \in 1..n PROVE to[k] = AddEndpoint(to[k-1], seen[k])
    <3>1. k \in 0..n /\ k # 0
      BY <1>1
    <3>2. to[k] = CHOOSE r \in {AddEndpoint(x, seen[k]) : x \in {to[k-1]}} : TRUE
      BY <1>8, <3>1
    <3> QED BY <3>2
  <2> QED BY <2>1, <2>2
<1> HIDE DEF Step
<1> DEFINE T == {k \in 0..n : to[k] \in EndpointMaps /\ MapIs(to[k], seen, k)}
<1>10. 0 \in T
  <2>1. DOMAIN to[0] = {} /\ 1..0 = {} /\ to[0] \in EndpointMaps
    BY <1>3, <1>9
  <2>2. MapIs(to[0], seen, 0)
    BY <2>1 DEF MapIs
  <2> QED BY <1>1, <2>1, <2>2
<1>11. ASSUME NEW k \in 1..n, k - 1 \in T PROVE k \in T
  <2>1. k \in Nat \ {0} /\ \A i \in 1..k : seen[i] \in Sighted
    BY <1>1
  <2>2. MapIs(AddEndpoint(to[k-1], seen[k]), seen, k)
    BY <1>11, <2>1, MapGrows
  <2>3. AddEndpoint(to[k-1], seen[k]) \in EndpointMaps
    BY <1>1, <1>11, AddType
  <2> QED BY <1>9, <2>2, <2>3
<1>12. n \in T
  <2> HIDE DEF T
  <2> n \in 0..n
    BY <1>1
  <2> QED BY <1>1, <1>10, <1>11, Climbs
<1> QED BY <1>2, <1>12 DEF n

(* So a surface merged from what was seen is exact.                        *)
LEMMA SurfaceIs ==
  ASSUME NEW seen \in Seq(Sighted), NEW s, recon[s].found = Gathered(AddEndpoint, <<>>, seen)
  PROVE  SurfaceIsExact(s, seen)
<1> DEFINE map == recon[s].found
           n == Len(seen)
<1>1. MapIs(map, seen, n)
  BY MergedIs
<1>2. DOMAIN seen = 1..n /\ n \in Nat
  OBVIOUS
<1>3. DOMAIN map = {EndpointKey(seen[i]) : i \in DOMAIN seen}
  BY <1>1, <1>2 DEF MapIs
<1>4. ASSUME NEW k \in DOMAIN map
      PROVE  LET I == {i \in DOMAIN seen : EndpointKey(seen[i]) = k}
                 e == map[k]
                 Known == {i \in I : seen[i].status # "none"}
                 First == {i \in Known : \A j \in Known : i <= j}
             IN /\ e.params = UNION {seen[i].params : i \in I}
                /\ e.auth <=> \E i \in I : seen[i].auth
                /\ \A i \in I : SourceRank[seen[i].source] <= SourceRank[e.source]
                /\ \E i \in I : seen[i].source = e.source
                /\ {e.status} = IF Known = {} THEN {"none"} ELSE {seen[i].status : i \in First}
                /\ QueryOf[e.url] = {} => \A i \in I : QueryOf[seen[i].url] = {}
  <2> DEFINE I == SeenAs(k, seen, n)
             e == map[k]
             Known == {i \in I : seen[i].status # "none"}
             First == {i \in Known : \A j \in Known : i <= j}
  <2>1. I = {i \in DOMAIN seen : EndpointKey(seen[i]) = k} /\ I \subseteq Nat
    BY <1>2 DEF SeenAs
  <2>2. Merges(e, seen, I)
    BY <1>1 DEF MapIs
  <2> HIDE DEF I, e
  <2>3. {e.status} = IF Known = {} THEN {"none"} ELSE {seen[i].status : i \in First}
    <3>1. CASE e.status = "none" /\ \A i \in I : seen[i].status = "none"
      BY <3>1
    <3>2. ASSUME NEW m \in I, seen[m].status # "none", e.status = seen[m].status,
                 \A j \in I : seen[j].status # "none" => m <= j
          PROVE  {e.status} = IF Known = {} THEN {"none"} ELSE {seen[i].status : i \in First}
      <4>1. m \in Known /\ First = {m}
        BY <2>1, <3>2
      <4> QED BY <3>2, <4>1
    <3> QED BY <2>2, <3>1, <3>2 DEF Merges
  <2> QED BY <2>1, <2>2, <2>3 DEF Merges, e
<1> HIDE DEF map
<1> QED BY <1>3, <1>4 DEF SurfaceIsExact, map

-----------------------------------------------------------------------------
(* What a page and the probes show are sightings.                          *)
RefItems(u) == {RefsOf[u][i] : i \in 1..Len(RefsOf[u])}
LEMMA RefIs ==
  ASSUME NEW u \in Urls, NEW r \in RefItems(u)
  PROVE  r.url \in Urls /\ r.method \in Methods /\ r.params \in SUBSET ParamNames
<1>1. PICK i \in 1..Len(RefsOf[u]) : r = RefsOf[u][i]
  BY DEF RefItems
<1>2. r.url \in Urls
  BY <1>1, SiteAssumption
<1>3. r.method \in Methods
  BY <1>1 DEF Methods
<1>4. r.params \in SUBSET ParamNames
  BY <1>1 DEF ParamNames
<1> QED BY <1>2, <1>3, <1>4

LEMMA QueryIs ==
  ASSUME NEW u \in Urls
  PROVE  QueryOf[u] \in SUBSET ParamNames
BY DEF ParamNames

LEMMA ListIs ==
  ASSUME NEW S, NEW n \in Nat, NEW f \in [1..n -> S]
  PROVE  f \in Seq(S) /\ Len(f) = n
<1>1. f \in Seq(S)
  BY SeqDef
<1> QED BY <1>1

LEMMA OwnRefsIs ==
  ASSUME NEW u \in Urls, NEW source
  PROVE  OwnRefs(u, source) \in Seq(RefItems(u))
<1> DEFINE seq == RefsOf[u]
           n == Len(seq)
           S == Seq(RefItems(u))
           Added(kept, ref) == IF ref.source = source /\ ref.url \in OwnOrigin THEN Append(kept, ref) ELSE kept
           Step(f) == [i \in 0..n |-> IF i = 0 THEN <<>>
                         ELSE CHOOSE r \in {Added(x, seq[i]) : x \in {f[i - 1]}} : TRUE]
           to == CHOOSE f : f = Step(f)
           F == [k \in 1..n |-> [x \in S |-> Added(x, seq[k])]]
<1>1. n \in Nat /\ \A k \in 1..n : seq[k] \in RefItems(u)
  BY SiteAssumption DEF RefItems
<1>2. OwnRefs(u, source) = to[n]
  BY DEF OwnRefs, Gathered
<1>3. <<>> \in S
  OBVIOUS
<1> HIDE DEF n
<1>4. ASSUME NEW k \in 1..n, NEW x \in S PROVE Added(x, seq[k]) \in S
  <2>1. Append(x, seq[k]) \in S
    BY <1>1
  <2> QED BY <2>1
<1> HIDE DEF S, Added
<1>5. \A k \in 1..n : \A x \in S : F[k][x] = Added(x, seq[k]) /\ F[k][x] \in S
  BY <1>4
<1> HIDE DEF F
<1>6. PICK g \in [0..n -> S] : Goes(g, F, <<>>, n)
  BY <1>1, <1>3, <1>5, FoldGoes
<1>7. \A k \in 1..n : g[k] = Added(g[k-1], seq[k])
  <2> TAKE k \in 1..n
  <2>1. k - 1 \in 0..n /\ g[k-1] \in S
    BY <1>1
  <2> QED BY <1>5, <1>6, <2>1 DEF Goes
<1>8. g = Step(g)
  <2>1. g[0] = <<>>
    BY <1>6 DEF Goes
  <2>2. ASSUME NEW k \in 0..n
        PROVE  g[k] = IF k = 0 THEN <<>> ELSE CHOOSE r \in {Added(x, seq[k]) : x \in {g[k-1]}} : TRUE
    <3>1. k # 0 => k \in 1..n
      BY <1>1
    <3>2. k # 0 => g[k] = Added(g[k-1], seq[k])
      BY <1>7, <3>1
    <3> QED BY <2>1, <3>2
  <2>3. g = [k \in 0..n |-> g[k]]
    OBVIOUS
  <2> QED BY <2>2, <2>3
<1>9. to = Step(to)
  BY <1>8
<1> HIDE DEF to
<1>10. to[0] = <<>> /\ \A k \in 1..n : to[k] = Added(to[k-1], seq[k])
  <2>1. to[0] = <<>>
    BY <1>1, <1>9
  <2>2. ASSUME NEW k \in 1..n PROVE to[k] = Added(to[k-1], seq[k])
    <3>1. k \in 0..n /\ k # 0
      BY <1>1
    <3>2. to[k] = CHOOSE r \in {Added(x, seq[k]) : x \in {to[k-1]}} : TRUE
      BY <1>9, <3>1
    <3> QED BY <3>2
  <2> QED BY <2>1, <2>2
<1> HIDE DEF Step
<1> DEFINE T == {k \in 0..n : to[k] \in S}
<1>11. n \in T
  <2>1. 0 \in T
    BY <1>1, <1>3, <1>10
  <2>2. ASSUME NEW k \in 1..n, k - 1 \in T PROVE k \in T
    BY <1>4, <1>10, <2>2
  <2>3. n \in 0..n
    BY <1>1
  <2> HIDE DEF T
  <2> QED BY <1>1, <2>1, <2>2, <2>3, Climbs
<1> QED BY <1>2, <1>11 DEF S

(* A list of lists put end to end.                                         *)
LEMMA FlatIs ==
  ASSUME NEW S, NEW n \in Nat, NEW seqs \in [1..n -> Seq(S)]
  PROVE  FlattenSeq(seqs) \in Seq(S)
<1>1. seqs \in Seq(Seq(S)) /\ Len(seqs) = n
  BY ListIs
<1>2. CASE n = 0
  <2>1. FlattenSeq(seqs) = seqs
    BY <1>1, <1>2 DEF FlattenSeq
  <2>2. seqs \in [1..0 -> S]
    BY <1>2
  <2> QED BY <2>1, <2>2, ListIs
<1>3. CASE n # 0
  <2> DEFINE Joined(x, y) == x \o y
             Step(f) == [i \in 1..n |-> IF i = 1 THEN seqs[i] ELSE Joined(f[i-1], seqs[i])]
             to == CHOOSE f : f = Step(f)
             F == [k \in 1..n |-> [x \in Seq(S) |-> Joined(x, seqs[k])]]
  <2>1. FlattenSeq(seqs) = to[n]
    BY <1>1, <1>3 DEF FlattenSeq
  <2>2. \A x \in Seq(S) : \A y \in Seq(S) : Joined(x, y) \in Seq(S)
    OBVIOUS
  <2>3. \A x \in Seq(S) : Joined(<<>>, x) = x
    OBVIOUS
  <2> HIDE DEF Joined
  <2>4. <<>> \in Seq(S) /\ \A k \in 1..n : seqs[k] \in Seq(S)
    OBVIOUS
  <2>5. \A k \in 1..n : \A x \in Seq(S) : F[k][x] = Joined(x, seqs[k]) /\ F[k][x] \in Seq(S)
    BY <2>2, <2>4
  <2> HIDE DEF F
  <2>6. PICK g \in [0..n -> Seq(S)] : Goes(g, F, <<>>, n)
    BY <2>4, <2>5, FoldGoes
  <2>7. \A k \in 1..n : g[k] = Joined(g[k-1], seqs[k])
    <3> TAKE k \in 1..n
    <3>1. k - 1 \in 0..n /\ g[k-1] \in Seq(S)
      OBVIOUS
    <3> QED BY <2>5, <2>6, <3>1 DEF Goes
  <2>8. 1 \in 1..n /\ g[1] = seqs[1]
    <3>1. 1 \in 1..n /\ g[0] = <<>> /\ 1 - 1 = 0
      BY <1>3, <2>6 DEF Goes
    <3>2. g[1] = Joined(g[1-1], seqs[1])
      BY <2>7, <3>1
    <3> QED BY <2>3, <2>4, <3>1, <3>2
  <2> DEFINE h == [k \in 1..n |-> g[k]]
  <2>9. h = Step(h)
    <3>1. ASSUME NEW k \in 1..n PROVE h[k] = IF k = 1 THEN seqs[k] ELSE Joined(h[k-1], seqs[k])
      <4>1. k # 1 => k - 1 \in 1..n
        OBVIOUS
      <4> QED BY <2>7, <2>8, <4>1
    <3> QED BY <3>1
  <2>10. to = Step(to)
    BY <2>9
  <2> HIDE DEF to
  <2>11. \A k \in 1..n : to[k] = IF k = 1 THEN seqs[k] ELSE Joined(to[k-1], seqs[k])
    BY <2>10
  <2> HIDE DEF Step
  <2> DEFINE T == {k \in 0..n : k # 0 => to[k] \in Seq(S)}
  <2>12. ASSUME NEW k \in 1..n, k - 1 \in T PROVE k \in T
    <3>1. CASE k = 1
      BY <2>4, <2>11, <3>1
    <3>2. CASE k # 1
      <4>1. to[k-1] \in Seq(S)
        BY <2>12, <3>2
      <4>2. to[k] = Joined(to[k-1], seqs[k]) /\ seqs[k] \in Seq(S)
        BY <2>4, <2>11, <3>2
      <4>3. to[k] \in Seq(S)
        BY <2>2, <4>1, <4>2
      <4> QED BY <4>3
    <3> QED BY <3>1, <3>2
  <2>13. 0 \in T /\ n \in 0..n
    OBVIOUS
  <2>14. n \in T
    <3> HIDE DEF T
    <3> QED BY <2>12, <2>13, Climbs
  <2> QED BY <1>3, <2>1, <2>14
<1> QED BY <1>2, <1>3

-----------------------------------------------------------------------------
CrawledPages == [asked : Urls, url : Urls, status : Statuses]

LEMMA MapOfRefsIs ==
  ASSUME NEW S, NEW R, NEW refs \in Seq(R), NEW f, DOMAIN f = DOMAIN refs, f = [i \in DOMAIN f |-> f[i]],
         \A i \in DOMAIN refs : f[i] \in S
  PROVE  f \in Seq(S)
<1>1. DOMAIN refs = 1..Len(refs) /\ Len(refs) \in Nat
  OBVIOUS
<1>2. f \in [1..Len(refs) -> S]
  BY <1>1
<1> QED BY <1>1, <1>2, ListIs

LEMMA OfUrlIs ==
  ASSUME NEW p \in CrawledPages
  PROVE  Calls(p) \in Seq(Sighted) /\ Links(p) \in Seq(Sighted) /\ Forms(p) \in Seq(Sighted)
<1> DEFINE u == p.url
<1>0. u \in Urls /\ p.status \in Statuses
  BY DEF CrawledPages
<1> HIDE DEF u
<1>1. Calls(p) \in Seq(Sighted)
  <2> DEFINE refs == OwnRefs(u, "api")
  <2>1. refs \in Seq(RefItems(u))
    BY <1>0, OwnRefsIs
  <2>2. Calls(p) = [i \in DOMAIN refs |-> Sighting(refs[i].url, refs[i].method, refs[i].params, FALSE, "api", "none")]
    BY DEF Calls, u
  <2> HIDE DEF refs
  <2>3. ASSUME NEW i \in DOMAIN refs
        PROVE  Sighting(refs[i].url, refs[i].method, refs[i].params, FALSE, "api", "none") \in Sighted
    <3>1. refs[i] \in RefItems(u)
      BY <2>1
    <3>2. refs[i].url \in Urls /\ refs[i].method \in Methods /\ refs[i].params \in SUBSET ParamNames
      BY <1>0, <3>1, RefIs
    <3>3. FALSE \in BOOLEAN /\ "api" \in Sources /\ "none" \in Statuses
      BY DEF Sources, Statuses
    <3> QED BY <3>2, <3>3, SightingIs
  <2> QED BY <2>1, <2>2, <2>3, MapOfRefsIs
<1>2. Links(p) \in Seq(Sighted)
  <2> DEFINE refs == OwnRefs(u, "link")
  <2>1. refs \in Seq(RefItems(u))
    BY <1>0, OwnRefsIs
  <2>2. Links(p) = [i \in DOMAIN refs |-> Sighting(refs[i].url, "GET", QueryOf[refs[i].url], FALSE, "link", "none")]
    BY DEF Links, u
  <2> HIDE DEF refs
  <2>3. ASSUME NEW i \in DOMAIN refs
        PROVE  Sighting(refs[i].url, "GET", QueryOf[refs[i].url], FALSE, "link", "none") \in Sighted
    <3>1. refs[i] \in RefItems(u)
      BY <2>1
    <3>2. refs[i].url \in Urls /\ QueryOf[refs[i].url] \in SUBSET ParamNames /\ "GET" \in Methods
      BY <1>0, <3>1, RefIs, QueryIs DEF Methods
    <3>3. FALSE \in BOOLEAN /\ "link" \in Sources /\ "none" \in Statuses
      BY DEF Sources, Statuses
    <3> QED BY <3>2, <3>3, SightingIs
  <2> QED BY <2>1, <2>2, <2>3, MapOfRefsIs
<1>3. Forms(p) \in Seq(Sighted)
  <2> DEFINE refs == OwnRefs(u, "form")
             Asked(ref) == p.status = "locked" \/ "login" \in ShapeOf[PathOf[ref.url]]
  <2>1. refs \in Seq(RefItems(u))
    BY <1>0, OwnRefsIs
  <2>2. Forms(p) = [i \in DOMAIN refs |->
           Sighting(refs[i].url, refs[i].method, refs[i].params, Asked(refs[i]), "form", p.status)]
    BY DEF Forms, u
  <2> HIDE DEF refs
  <2>3. ASSUME NEW i \in DOMAIN refs
        PROVE  Sighting(refs[i].url, refs[i].method, refs[i].params, Asked(refs[i]), "form", p.status) \in Sighted
    <3>1. refs[i] \in RefItems(u)
      BY <2>1
    <3>2. refs[i].url \in Urls /\ refs[i].method \in Methods /\ refs[i].params \in SUBSET ParamNames
      BY <1>0, <3>1, RefIs
    <3>3. Asked(refs[i]) \in BOOLEAN /\ "form" \in Sources
      BY DEF Sources
    <3> HIDE DEF Asked
    <3> QED BY <1>0, <3>2, <3>3, SightingIs
  <2> QED BY <2>1, <2>2, <2>3, MapOfRefsIs
<1> QED BY <1>1, <1>2, <1>3

LEMMA SpecifiedIs ==
  ASSUME NEW u \in Urls
  PROVE  Specified(u) \in Seq(Sighted)
<1> DEFINE refs == OwnRefs(u, "docs")
<1>1. refs \in Seq(RefItems(u))
  BY OwnRefsIs
<1>2. Specified(u) = [i \in DOMAIN refs |-> Sighting(refs[i].url, refs[i].method, refs[i].params, FALSE, "docs", "none")]
  BY DEF Specified
<1> HIDE DEF refs
<1>3. ASSUME NEW i \in DOMAIN refs
      PROVE  Sighting(refs[i].url, refs[i].method, refs[i].params, FALSE, "docs", "none") \in Sighted
  <2>1. refs[i] \in RefItems(u)
    BY <1>1
  <2>2. refs[i].url \in Urls /\ refs[i].method \in Methods /\ refs[i].params \in SUBSET ParamNames
    BY <2>1, RefIs
  <2>3. FALSE \in BOOLEAN /\ "docs" \in Sources /\ "none" \in Statuses
    BY DEF Sources, Statuses
  <2> QED BY <2>2, <2>3, SightingIs
<1> QED BY <1>1, <1>2, <1>3, MapOfRefsIs

LEMMA OfPageIs ==
  ASSUME NEW p \in CrawledPages
  PROVE  OfPage(p) \in Seq(Sighted)
<1> DEFINE self == Sighting(p.url, "GET", QueryOf[p.url], p.status = "locked", "crawler", p.status)
<1>1. self \in Sighted
  <2>1. p.url \in Urls /\ "GET" \in Methods /\ QueryOf[p.url] \in SUBSET ParamNames
    BY QueryIs DEF CrawledPages, Methods
  <2>2. (p.status = "locked") \in BOOLEAN /\ "crawler" \in Sources /\ p.status \in Statuses
    BY DEF CrawledPages, Sources
  <2> QED BY <2>1, <2>2, SightingIs
<1>2. OfPage(p) = (IF p.url \notin OwnOrigin THEN <<>>
                   ELSE <<self>> \o IF p.status = "none" THEN <<>> ELSE Calls(p))
                  \o IF p.status = "none" THEN <<>> ELSE Links(p) \o Forms(p)
  BY DEF OfPage
<1> HIDE DEF self
<1>3. <<self>> \in Seq(Sighted) /\ <<>> \in Seq(Sighted)
  BY <1>1
<1>4. Calls(p) \in Seq(Sighted) /\ Links(p) \in Seq(Sighted) /\ Forms(p) \in Seq(Sighted)
  BY OfUrlIs
<1>5. <<self>> \o (IF p.status = "none" THEN <<>> ELSE Calls(p)) \in Seq(Sighted)
  BY <1>3, <1>4
<1>6. Links(p) \o Forms(p) \in Seq(Sighted)
  BY <1>4
<1> QED BY <1>2, <1>3, <1>5, <1>6

Probes == [url : Urls, source : {"robots", "common", "graphql", "docs"}]
LEMMA OfProbeIs ==
  ASSUME NEW p \in Probes, NEW down
  PROVE  OfProbe(p, down) \in Seq(Sighted)
<1> DEFINE at == IF p.url \in down THEN p.url ELSE RedirectTo[p.url]
           status == IF p.url \in down THEN "none" ELSE StatusOf(at)
           params == IF p.source = "robots" THEN QueryOf[p.url] ELSE {}
           auth == status = "locked" /\ p.source # "docs"
           self == Sighting(at, "GET", params, auth, p.source, status)
<1>1. at \in Urls /\ status \in Statuses /\ auth \in BOOLEAN
  BY ReconAssumption DEF Probes, StatusOf, Statuses
<1>2. params \in SUBSET ParamNames /\ "GET" \in Methods /\ p.source \in Sources
  BY QueryIs DEF Probes, Methods, Sources
<1>3. OfProbe(p, down) = IF p.source # "docs" THEN <<self>>
                         ELSE IF status # "ok" THEN <<>> ELSE <<self>> \o Specified(at)
  BY DEF OfProbe
<1> HIDE DEF at, status, params, auth
<1>4. self \in Sighted
  BY <1>1, <1>2, SightingIs
<1> HIDE DEF self
<1>5. Specified(at) \in Seq(Sighted) /\ <<self>> \in Seq(Sighted) /\ <<>> \in Seq(Sighted)
  BY <1>1, <1>4, SpecifiedIs
<1> QED BY <1>3, <1>5

LEMMA SightingsAre ==
  ASSUME NEW pages \in Seq(CrawledPages), NEW hints \in {<<>>, Hints}, NEW down
  PROVE  Sightings(pages, hints, down) \in Seq(Sighted)
<1> DEFINE robots == [i \in 1..Len(hints) |-> [url |-> hints[i], source |-> "robots"]]
           probes == robots \o WellKnown
           n == Len(pages)
           m == Len(probes)
           crawled == [i \in 1..n |-> OfPage(pages[i])]
           probed == [i \in 1..m |-> OfProbe(probes[i], down)]
<1>1. Sightings(pages, hints, down) = FlattenSeq(crawled) \o FlattenSeq(probed)
  BY DEF Sightings
<1>2. Len(hints) \in Nat /\ \A i \in 1..Len(hints) : hints[i] \in Urls
  BY SiteAssumption
<1>3. robots \in Seq(Probes)
  <2>1. robots \in [1..Len(hints) -> Probes]
    BY <1>2 DEF Probes
  <2> HIDE DEF robots
  <2> QED BY <1>2, <2>1, ListIs
<1>4. WellKnown \in Seq(Probes)
  <2> DEFINE W == [url : Urls, source : {"common", "graphql", "docs"}]
  <2>1. WellKnown \in Seq(W) /\ W \subseteq Probes
    BY SiteAssumption DEF Probes
  <2> HIDE DEF W
  <2> QED BY <2>1, SeqMonotonic
<1> HIDE DEF robots
<1>5. probes \in Seq(Probes)
  BY <1>3, <1>4
<1> HIDE DEF probes
<1>6. n \in Nat /\ crawled \in [1..n -> Seq(Sighted)]
  BY OfPageIs
<1>7. m \in Nat /\ probed \in [1..m -> Seq(Sighted)]
  BY <1>5, OfProbeIs
<1> HIDE DEF n, m, crawled, probed
<1>8. FlattenSeq(crawled) \in Seq(Sighted) /\ FlattenSeq(probed) \in Seq(Sighted)
  BY <1>6, <1>7, FlatIs
<1> QED BY <1>1, <1>8

-----------------------------------------------------------------------------
(* The crawl: what Enqueued adds to the queue.                             *)
Waiting == [url : Urls, depth : Nat]
Crawls == [queue : Seq(Waiting), fetched : SUBSET Urls, queued : SUBSET Urls, pages : Seq(CrawledPages)]
PushTo(d, ref, depth) ==
  IF ~Followed(ref) \/ ref.url \in d.queued \cup d.fetched THEN d
  ELSE [d EXCEPT !.queue = Append(@, [url |-> ref.url, depth |-> depth + 1]), !.queued = @ \cup {ref.url}]

LEMMA CrawlIs ==
  ASSUME NEW c \in Crawls
  PROVE  /\ c.queue \in Seq(Waiting) /\ c.fetched \in SUBSET Urls /\ c.queued \in SUBSET Urls
         /\ c.pages \in Seq(CrawledPages) /\ Len(c.queue) \in Nat /\ Len(c.pages) \in Nat
         /\ \A j \in 1..Len(c.queue) : c.queue[j] \in Waiting /\ c.queue[j].url \in Urls /\ c.queue[j].depth \in Nat
         /\ \A i \in 1..Len(c.pages) : /\ c.pages[i] \in CrawledPages /\ c.pages[i].asked \in Urls
                                       /\ c.pages[i].url \in Urls /\ c.pages[i].status \in Statuses
<1>1. c.queue \in Seq(Waiting) /\ c.fetched \in SUBSET Urls /\ c.queued \in SUBSET Urls /\ c.pages \in Seq(CrawledPages)
  BY DEF Crawls
<1>2. \A w \in Waiting : w.url \in Urls /\ w.depth \in Nat
  BY DEF Waiting
<1>3. \A p \in CrawledPages : p.asked \in Urls /\ p.url \in Urls /\ p.status \in Statuses
  BY DEF CrawledPages
<1> QED BY <1>1, <1>2, <1>3

LEMMA PushIs ==
  ASSUME NEW d \in Crawls, NEW ref, ref.url \in Urls, NEW depth \in Nat
  PROVE  /\ PushTo(d, ref, depth) \in Crawls
         /\ PushTo(d, ref, depth).pages = d.pages /\ PushTo(d, ref, depth).fetched = d.fetched
         /\ Followed(ref) => ref.url \in PushTo(d, ref, depth).queued \cup d.fetched
         /\ \/ PushTo(d, ref, depth) = d
            \/ /\ Followed(ref) /\ ref.url \notin d.queued \cup d.fetched
               /\ Len(PushTo(d, ref, depth).queue) = Len(d.queue) + 1
               /\ \A j \in 1..Len(d.queue) : PushTo(d, ref, depth).queue[j] = d.queue[j]
               /\ PushTo(d, ref, depth).queue[Len(d.queue) + 1].url = ref.url
               /\ PushTo(d, ref, depth).queue[Len(d.queue) + 1].depth = depth + 1
               /\ PushTo(d, ref, depth).queued = d.queued \cup {ref.url}
<1>1. CASE ~Followed(ref) \/ ref.url \in d.queued \cup d.fetched
  <2>1. PushTo(d, ref, depth) = d
    BY <1>1 DEF PushTo
  <2>2. Followed(ref) => ref.url \in d.queued \cup d.fetched
    BY <1>1
  <2> QED BY <2>1, <2>2
<1>2. CASE ~(~Followed(ref) \/ ref.url \in d.queued \cup d.fetched)
  <2> DEFINE w == [url |-> ref.url, depth |-> depth + 1]
             queue == Append(d.queue, w)
             queued == d.queued \cup {ref.url}
             new == PushTo(d, ref, depth)
  <2>1. w \in Waiting /\ w.url = ref.url /\ w.depth = depth + 1
    BY DEF Waiting
  <2>2. new = [d EXCEPT !.queue = queue, !.queued = queued]
    BY <1>2 DEF PushTo
  <2> HIDE DEF w
  <2>3. /\ queue \in Seq(Waiting) /\ Len(queue) = Len(d.queue) + 1
        /\ \A j \in 1..Len(d.queue) : queue[j] = d.queue[j]
        /\ queue[Len(d.queue) + 1] = w
    BY <2>1, CrawlIs
  <2>4. queued \in SUBSET Urls
    BY CrawlIs
  <2> HIDE DEF queue, new
  <2>5. /\ new \in Crawls /\ new.queue = queue /\ new.queued = queued
        /\ new.pages = d.pages /\ new.fetched = d.fetched
    BY <2>2, <2>3, <2>4 DEF Crawls
  <2> QED BY <1>2, <2>1, <2>3, <2>5 DEF new
<1> QED BY <1>1, <1>2

Pushed(e, c, url, depth, k) ==
  /\ e \in Crawls /\ e.pages = c.pages /\ e.fetched = c.fetched /\ Len(c.queue) <= Len(e.queue)
  /\ \A j \in 1..Len(c.queue) : e.queue[j] = c.queue[j]
  /\ \A j \in Len(c.queue)+1..Len(e.queue) :
       /\ e.queue[j].depth = depth + 1 /\ e.queue[j].url \notin c.queued \cup c.fetched
       /\ \E i \in 1..k : Followed(RefsOf[url][i]) /\ e.queue[j].url = RefsOf[url][i].url
       /\ \A l \in Len(c.queue)+1..Len(e.queue) : e.queue[j].url = e.queue[l].url => j = l
  /\ e.queued = c.queued \cup {e.queue[j].url : j \in Len(c.queue)+1..Len(e.queue)}
  /\ \A i \in 1..k : Followed(RefsOf[url][i]) => RefsOf[url][i].url \in e.queued \cup e.fetched

LEMMA PushGoes ==
  ASSUME NEW c \in Crawls, NEW url \in Urls, NEW depth \in Nat, NEW k \in 1..Len(RefsOf[url]),
         NEW d, Pushed(d, c, url, depth, k - 1)
  PROVE  Pushed(PushTo(d, RefsOf[url][k], depth), c, url, depth, k)
<1> DEFINE ref == RefsOf[url][k]
           e == PushTo(d, ref, depth)
           m == Len(c.queue)
           n == Len(d.queue)
<1>0. k \in Nat /\ k - 1 \in Nat /\ 1..k = 1..k-1 \cup {k} /\ ref.url \in Urls
  BY SiteAssumption
<1>1. d \in Crawls /\ d.pages = c.pages /\ d.fetched = c.fetched /\ m <= n /\ m \in Nat /\ n \in Nat
  BY CrawlIs DEF Pushed
<1>2. /\ e \in Crawls /\ e.pages = d.pages /\ e.fetched = d.fetched
      /\ Followed(ref) => ref.url \in e.queued \cup d.fetched
  BY <1>0, <1>1, PushIs
<1>3. \A i \in 1..k-1 : Followed(RefsOf[url][i]) => RefsOf[url][i].url \in d.queued \cup d.fetched
  BY <1>1 DEF Pushed
<1>4. CASE e = d
  <2>1. \A i \in 1..k : Followed(RefsOf[url][i]) => RefsOf[url][i].url \in e.queued \cup e.fetched
    BY <1>0, <1>2, <1>3, <1>4
  <2>2. \A j \in m+1..n :
          /\ d.queue[j].depth = depth + 1 /\ d.queue[j].url \notin c.queued \cup c.fetched
          /\ \E i \in 1..k : Followed(RefsOf[url][i]) /\ d.queue[j].url = RefsOf[url][i].url
          /\ \A l \in m+1..n : d.queue[j].url = d.queue[l].url => j = l
    BY <1>0 DEF Pushed
  <2> HIDE DEF e
  <2> QED BY <1>4, <2>1, <2>2 DEF Pushed, e
<1>5. CASE /\ Followed(ref) /\ ref.url \notin d.queued \cup d.fetched
           /\ Len(e.queue) = n + 1 /\ \A j \in 1..n : e.queue[j] = d.queue[j]
           /\ e.queue[n + 1].url = ref.url /\ e.queue[n + 1].depth = depth + 1
           /\ e.queued = d.queued \cup {ref.url}
  <2>1. d.queued = c.queued \cup {d.queue[j].url : j \in m+1..n}
    BY DEF Pushed
  <2>2. \A j \in m+1..n :
          /\ d.queue[j].depth = depth + 1 /\ d.queue[j].url \notin c.queued \cup c.fetched
          /\ \E i \in 1..k-1 : Followed(RefsOf[url][i]) /\ d.queue[j].url = RefsOf[url][i].url
          /\ \A l \in m+1..n : d.queue[j].url = d.queue[l].url => j = l
    BY DEF Pushed
  <2>3. m+1..n+1 = (m+1..n) \cup {n+1} /\ m+1..n \subseteq 1..n /\ 1..m \subseteq 1..n
    BY <1>1
  <2>4. \A j \in 1..m : d.queue[j] = c.queue[j]
    BY DEF Pushed
  <2> HIDE DEF e, ref, m, n
  <2>5. \A j \in m+1..n : e.queue[j] = d.queue[j]
    BY <1>5, <2>3
  <2>6. ref.url \notin c.queued \cup c.fetched /\ \A j \in m+1..n : ref.url # e.queue[j].url
    BY <1>1, <1>5, <2>1, <2>5
  <2>7. ASSUME NEW j \in m+1..n+1
        PROVE  /\ e.queue[j].depth = depth + 1 /\ e.queue[j].url \notin c.queued \cup c.fetched
               /\ \E i \in 1..k : Followed(RefsOf[url][i]) /\ e.queue[j].url = RefsOf[url][i].url
               /\ \A l \in m+1..n+1 : e.queue[j].url = e.queue[l].url => j = l
    <3>1. CASE j \in m+1..n
      <4>1. \A l \in m+1..n : e.queue[j].url = e.queue[l].url => j = l
        BY <2>2, <2>5, <3>1
      <4>2. e.queue[j].url # e.queue[n+1].url
        BY <1>5, <2>6, <3>1
      <4>3. \A l \in m+1..n+1 : e.queue[j].url = e.queue[l].url => j = l
        BY <2>3, <4>1, <4>2
      <4>4. e.queue[j] = d.queue[j]
        BY <2>5, <3>1
      <4>5. /\ d.queue[j].depth = depth + 1 /\ d.queue[j].url \notin c.queued \cup c.fetched
            /\ \E i \in 1..k-1 : Followed(RefsOf[url][i]) /\ d.queue[j].url = RefsOf[url][i].url
        BY <2>2, <3>1
      <4>6. 1..k-1 \subseteq 1..k
        BY <1>0
      <4>7. \E i \in 1..k : Followed(RefsOf[url][i]) /\ e.queue[j].url = RefsOf[url][i].url
        BY <4>4, <4>5, <4>6
      <4> QED BY <4>3, <4>4, <4>5, <4>7
    <3>2. CASE j = n + 1
      <4>1. \A l \in m+1..n+1 : e.queue[j].url = e.queue[l].url => j = l
        BY <1>5, <2>3, <2>6, <3>2
      <4>2. k \in 1..k
        BY <1>0
      <4> QED BY <1>5, <2>6, <3>2, <4>1, <4>2 DEF ref
    <3> QED BY <2>3, <3>1, <3>2
  <2>8. e.queued = c.queued \cup {e.queue[j].url : j \in m+1..n+1}
    <3>1. {e.queue[j].url : j \in m+1..n} = {d.queue[j].url : j \in m+1..n}
      BY <2>5
    <3>2. {e.queue[j].url : j \in m+1..n+1} = {e.queue[j].url : j \in m+1..n} \cup {ref.url}
      BY <1>5, <2>3
    <3>3. e.queued = d.queued \cup {ref.url}
      BY <1>5
    <3> QED BY <2>1, <3>1, <3>2, <3>3
  <2>9. \A i \in 1..k : Followed(RefsOf[url][i]) => RefsOf[url][i].url \in e.queued \cup e.fetched
    BY <1>0, <1>2, <1>3, <1>5 DEF ref
  <2>10. m <= n + 1 /\ \A j \in 1..m : e.queue[j] = c.queue[j]
    BY <1>1, <1>5, <2>3, <2>4
  <2> QED BY <1>1, <1>2, <1>5, <2>7, <2>8, <2>9, <2>10 DEF Pushed, e, ref, m, n
<1> QED BY <1>0, <1>1, <1>4, <1>5, PushIs

LEMMA EnqueuedIs ==
  ASSUME NEW c \in Crawls, NEW url \in Urls, NEW depth \in Nat, depth < MaxDepth
  PROVE  Pushed(Enqueued(c, url, depth), c, url, depth, Len(RefsOf[url]))
<1> DEFINE seq == RefsOf[url]
           n == Len(seq)
           Step(f) == [i \in 0..n |-> IF i = 0 THEN c
                         ELSE CHOOSE r \in {PushTo(x, seq[i], depth) : x \in {f[i - 1]}} : TRUE]
           to == CHOOSE f : f = Step(f)
           F == [k \in 1..n |-> [x \in Crawls |-> PushTo(x, seq[k], depth)]]
<1>1. n \in Nat /\ \A k \in 1..n : seq[k].url \in Urls
  BY SiteAssumption
<1>2. Enqueued(c, url, depth) = to[n]
  <2>1. ~(depth >= MaxDepth)
    BY ReconAssumption
  <2> QED BY <2>1 DEF Enqueued, Gathered, PushTo
<1> HIDE DEF n
<1>3. \A k \in 1..n : \A x \in Crawls : F[k][x] = PushTo(x, seq[k], depth) /\ F[k][x] \in Crawls
  BY <1>1, PushIs
<1> HIDE DEF F
<1>4. PICK g \in [0..n -> Crawls] : Goes(g, F, c, n)
  BY <1>1, <1>3, FoldGoes
<1>5. \A k \in 1..n : g[k] = PushTo(g[k-1], seq[k], depth)
  <2> TAKE k \in 1..n
  <2>1. k - 1 \in 0..n /\ g[k-1] \in Crawls
    BY <1>1
  <2> QED BY <1>3, <1>4, <2>1 DEF Goes
<1>6. g = Step(g)
  <2>1. g[0] = c
    BY <1>4 DEF Goes
  <2>2. ASSUME NEW k \in 0..n
        PROVE  g[k] = IF k = 0 THEN c ELSE CHOOSE r \in {PushTo(x, seq[k], depth) : x \in {g[k-1]}} : TRUE
    <3>1. k # 0 => k \in 1..n
      BY <1>1
    <3>2. k # 0 => g[k] = PushTo(g[k-1], seq[k], depth)
      BY <1>5, <3>1
    <3> QED BY <2>1, <3>2
  <2>3. g = [k \in 0..n |-> g[k]]
    OBVIOUS
  <2> QED BY <2>2, <2>3
<1>7. to = Step(to)
  BY <1>6
<1> HIDE DEF to
<1>8. to[0] = c /\ \A k \in 1..n : to[k] = PushTo(to[k-1], seq[k], depth)
  <2>1. to[0] = c
    BY <1>1, <1>7
  <2>2. ASSUME NEW k \in 1..n PROVE to[k] = PushTo(to[k-1], seq[k], depth)
    <3>1. k \in 0..n /\ k # 0
      BY <1>1
    <3>2. to[k] = CHOOSE r \in {PushTo(x, seq[k], depth) : x \in {to[k-1]}} : TRUE
      BY <1>7, <3>1
    <3> QED BY <3>2
  <2> QED BY <2>1, <2>2
<1> HIDE DEF Step
<1> DEFINE T == {k \in 0..n : Pushed(to[k], c, url, depth, k)}
<1>9. 0 \in T
  <2>1. Len(c.queue) \in Nat /\ 1..0 = {} /\ Len(c.queue)+1..Len(c.queue) = {}
    BY CrawlIs
  <2> QED BY <1>1, <1>8, <2>1 DEF Pushed
<1>10. ASSUME NEW k \in 1..n, k - 1 \in T PROVE k \in T
  <2>1. Pushed(PushTo(to[k-1], seq[k], depth), c, url, depth, k)
    BY <1>1, <1>10, PushGoes DEF n
  <2> QED BY <1>8, <2>1
<1>11. n \in T
  <2> HIDE DEF T
  <2> n \in 0..n
    BY <1>1
  <2> QED BY <1>1, <1>9, <1>10, Climbs
<1> QED BY <1>2, <1>11 DEF n

-----------------------------------------------------------------------------
(* The invariant of a crawl: dep is the distance at which an address was   *)
(* first referred to.                                                      *)
Ahead(c) == {c.pages[i].asked : i \in 1..Len(c.pages)}
Behind(c) == {c.queue[j].url : j \in 1..Len(c.queue)}
Leads(p, v) == p.status # "none" /\ \E i \in 1..Len(RefsOf[p.url]) :
                                      Followed(RefsOf[p.url][i]) /\ RefsOf[p.url][i].url = v
VisitsOnce(c) ==
  /\ c.fetched = Ahead(c) /\ c.queued = Ahead(c) \cup Behind(c) /\ Ahead(c) \cap Behind(c) = {}
  /\ \A i \in 1..Len(c.pages), j \in 1..Len(c.pages) : c.pages[i].asked = c.pages[j].asked => i = j
  /\ \A i \in 1..Len(c.queue), j \in 1..Len(c.queue) : c.queue[i].url = c.queue[j].url => i = j
NearFirst(c, dep) ==
  /\ \A j \in 1..Len(c.queue) : c.queue[j].depth = dep[c.queue[j].url]
  /\ \A i \in 1..Len(c.pages), j \in 1..Len(c.pages) : i < j => dep[c.pages[i].asked] <= dep[c.pages[j].asked]
  /\ \A u \in Ahead(c), v \in Behind(c) : dep[u] <= dep[v]
  /\ \A i \in 1..Len(c.queue), j \in 1..Len(c.queue) : i < j => dep[c.queue[i].url] <= dep[c.queue[j].url]
  /\ \A u \in Behind(c), v \in Behind(c) : dep[v] <= dep[u] + 1
Reached(c, dep, n) ==
  /\ Root \in c.queued /\ dep[Root] = 0
  /\ \A v \in c.queued : dep[v] <= MaxDepth
  /\ \A v \in c.queued \ {Root} : \E i \in 1..Len(c.pages) :
       Leads(c.pages[i], v) /\ dep[v] = dep[c.pages[i].asked] + 1
  /\ \A i \in 1..n, v \in Urls :
       Leads(c.pages[i], v) /\ dep[c.pages[i].asked] < MaxDepth => v \in c.queued /\ dep[v] <= dep[c.pages[i].asked] + 1
CrawlRight(c) ==
  /\ c \in Crawls /\ Len(c.pages) <= MaxPages /\ VisitsOnce(c)
  /\ \E dep \in [Urls -> Nat] : NearFirst(c, dep) /\ Reached(c, dep, Len(c.pages))

LEMMA CrawlBegins ==
  ASSUME NEW c \in Crawls
  PROVE  c.fetched = {} /\ c.pages = <<>> =>
           CrawlRight([c EXCEPT !.queue = <<[url |-> Root, depth |-> 0]>>, !.queued = {Root}])
<1> SUFFICES ASSUME c.fetched = {}, c.pages = <<>>
             PROVE  CrawlRight([c EXCEPT !.queue = <<[url |-> Root, depth |-> 0]>>, !.queued = {Root}])
  OBVIOUS
<1> DEFINE w == [url |-> Root, depth |-> 0]
           new == [c EXCEPT !.queue = <<w>>, !.queued = {Root}]
           dep == [u \in Urls |-> 0]
<1>1. w \in Waiting /\ w.url = Root /\ w.depth = 0 /\ Root \in Urls
  BY ReconAssumption DEF Waiting
<1> HIDE DEF w
<1>2. <<w>> \in Seq(Waiting) /\ Len(<<w>>) = 1 /\ <<w>>[1] = w /\ {Root} \in SUBSET Urls
  BY <1>1
<1>3. new \in Crawls /\ new.queue = <<w>> /\ new.queued = {Root} /\ new.fetched = {} /\ new.pages = <<>>
  BY <1>2 DEF Crawls
<1> HIDE DEF new
<1>4. Len(new.pages) = 0 /\ 1..0 = {} /\ 1..Len(new.queue) = {1} /\ new.queue[1].url = Root /\ new.queue[1].depth = 0
  BY <1>1, <1>2, <1>3
<1>5. Ahead(new) = {} /\ Behind(new) = {Root}
  BY <1>4 DEF Ahead, Behind
<1>6. VisitsOnce(new)
  BY <1>3, <1>4, <1>5 DEF VisitsOnce
<1>7. dep \in [Urls -> Nat] /\ dep[Root] = 0
  BY <1>1
<1> HIDE DEF dep
<1>8. NearFirst(new, dep)
  BY <1>4, <1>5, <1>7 DEF NearFirst
<1>9. Reached(new, dep, Len(new.pages))
  BY <1>3, <1>4, <1>7, ReconAssumption DEF Reached
<1>10. Len(new.pages) <= MaxPages
  BY <1>4, ReconAssumption
<1> QED BY <1>3, <1>6, <1>7, <1>8, <1>9, <1>10 DEF CrawlRight, new, w

(* Fetching the first of the queue, before its answer is read.             *)
PopsTo(c, p, e) ==
  /\ c.queue # <<>> /\ p.asked = Head(c.queue).url /\ e.queue = Tail(c.queue)
  /\ e.fetched = c.fetched \cup {Head(c.queue).url} /\ e.pages = Append(c.pages, p) /\ e.queued = c.queued
LEMMA Pops ==
  ASSUME NEW c \in Crawls, NEW dep \in [Urls -> Nat], VisitsOnce(c), NearFirst(c, dep), Reached(c, dep, Len(c.pages)),
         NEW p \in CrawledPages, NEW e \in Crawls, PopsTo(c, p, e)
  PROVE  /\ VisitsOnce(e) /\ NearFirst(e, dep) /\ Reached(e, dep, Len(c.pages))
         /\ Len(e.pages) = Len(c.pages) + 1 /\ e.pages[Len(c.pages) + 1] = p
         /\ dep[p.asked] = Head(c.queue).depth
         /\ \A u \in Ahead(e) : dep[u] <= dep[p.asked]
         /\ \A v \in Behind(e) : dep[p.asked] <= dep[v] /\ dep[v] <= dep[p.asked] + 1
<1> DEFINE m == Len(c.pages)
           n == Len(c.queue)
           w == Head(c.queue)
           q == Tail(c.queue)
           P == Append(c.pages, p)
           f == c.fetched \cup {w.url}
<1>0. /\ c.queue # <<>> /\ p.asked = w.url /\ e.queue = q /\ e.fetched = f /\ e.pages = P /\ e.queued = c.queued
  BY DEF PopsTo
<1>1. m \in Nat /\ n \in Nat /\ n # 0
  BY <1>0, CrawlIs
<1>2. /\ w = c.queue[1] /\ q \in Seq(Waiting) /\ Len(q) = n - 1
      /\ \A j \in 1..n-1 : q[j] = c.queue[j + 1]
  <2> c.queue \in Seq(Waiting)
    BY CrawlIs
  <2> QED BY <1>0, HeadTailProperties
<1>3. /\ P \in Seq(CrawledPages) /\ Len(P) = m + 1 /\ P[m + 1] = p
      /\ \A i \in 1..m : P[i] = c.pages[i]
  <2> c.pages \in Seq(CrawledPages)
    BY CrawlIs
  <2> QED OBVIOUS
<1>4. 1 \in 1..n /\ w.url \in Urls
  BY <1>1, <1>2, CrawlIs
<1> HIDE DEF m, n, w, q, P, f
<1>6. e.queue = q /\ e.fetched = f /\ e.pages = P /\ e.queued = c.queued
  BY <1>0
<1>7. /\ 1..m+1 = 1..m \cup {m+1} /\ 1..n = {1} \cup {j + 1 : j \in 1..n-1}
      /\ \A j \in 1..n-1 : j + 1 \in 1..n /\ j + 1 # 1
  <2>1. ASSUME NEW j \in 1..n, j # 1 PROVE \E k \in 1..n-1 : j = k + 1
    <3> j - 1 \in 1..n-1 /\ j = (j - 1) + 1
      BY <1>1, <2>1
    <3> QED OBVIOUS
  <2>2. \A j \in 1..n-1 : j + 1 \in 1..n /\ j + 1 # 1
    BY <1>1
  <2>3. 1..m+1 = 1..m \cup {m+1}
    BY <1>1
  <2> QED BY <1>4, <2>1, <2>2, <2>3
<1>8. /\ Behind(c) = {w.url} \cup Behind(e)
      /\ Ahead(e) = Ahead(c) \cup {w.url} /\ w.url \in Behind(c)
  <2>1. Behind(c) = {c.queue[j].url : j \in 1..n}
    BY DEF Behind, n
  <2>2. Behind(e) = {c.queue[j + 1].url : j \in 1..n-1}
    <3>1. Behind(e) = {q[j].url : j \in 1..n-1}
      BY <1>2, <1>6 DEF Behind
    <3> QED BY <1>2, <3>1
  <2>3. Behind(c) = {w.url} \cup Behind(e)
    <3>1. \A j \in 1..n : j = 1 \/ \E k \in 1..n-1 : j = k + 1
      BY <1>7
    <3>2. Behind(c) \subseteq {w.url} \cup Behind(e)
      BY <1>2, <2>1, <2>2, <3>1
    <3>3. {w.url} \cup Behind(e) \subseteq Behind(c)
      BY <1>2, <1>4, <1>7, <2>1, <2>2
    <3> QED BY <3>2, <3>3
  <2>4. Ahead(c) = {c.pages[i].asked : i \in 1..m}
    BY DEF Ahead, m
  <2>5. Ahead(e) = {P[i].asked : i \in 1..m+1}
    BY <1>3, <1>6 DEF Ahead
  <2>6. p.asked = w.url
    BY <1>0
  <2>7. Ahead(e) = {P[i].asked : i \in 1..m} \cup {P[m+1].asked}
    BY <1>7, <2>5
  <2>8. {P[i].asked : i \in 1..m} = Ahead(c)
    BY <1>3, <2>4
  <2>9. P[m+1].asked = w.url
    BY <1>3, <2>6
  <2> QED BY <2>3, <2>7, <2>8, <2>9
<1>9. \A j \in 1..n-1 : q[j].url # w.url
  <2>1. \A i \in 1..n, j \in 1..n : c.queue[i].url = c.queue[j].url => i = j
    BY DEF VisitsOnce, n
  <2> QED BY <1>2, <1>4, <1>7, <2>1
<1>10. w.url \notin Behind(e) /\ w.url \notin Ahead(c) /\ Ahead(c) \cap Behind(e) = {}
  <2>1. w.url \notin Behind(e)
    BY <1>2, <1>6, <1>9 DEF Behind
  <2> QED BY <1>8, <2>1 DEF VisitsOnce
<1>11. VisitsOnce(e)
  <2>1. e.fetched = Ahead(e) /\ e.queued = Ahead(e) \cup Behind(e) /\ Ahead(e) \cap Behind(e) = {}
    BY <1>6, <1>8, <1>10 DEF VisitsOnce, f
  <2>2. ASSUME NEW i \in 1..m+1, NEW j \in 1..m+1, P[i].asked = P[j].asked PROVE i = j
    <3>1. \A a \in 1..m : c.pages[a].asked # w.url
      BY <1>10 DEF Ahead, m
    <3>2. P[m+1].asked = w.url /\ \A a \in 1..m : P[a].asked # w.url
      BY <1>0, <1>3, <3>1
    <3>3. \A a \in 1..m, b \in 1..m : c.pages[a].asked = c.pages[b].asked => a = b
      BY DEF VisitsOnce, m
    <3> QED BY <1>3, <1>7, <2>2, <3>2, <3>3
  <2>3. ASSUME NEW i \in 1..n-1, NEW j \in 1..n-1, q[i].url = q[j].url PROVE i = j
    <3>1. \A a \in 1..n, b \in 1..n : c.queue[a].url = c.queue[b].url => a = b
      BY DEF VisitsOnce, n
    <3>2. i + 1 \in 1..n /\ j + 1 \in 1..n /\ c.queue[i + 1].url = c.queue[j + 1].url
      BY <1>2, <1>7, <2>3
    <3>3. i + 1 = j + 1
      BY <3>1, <3>2
    <3> QED BY <3>3
  <2>4. Len(e.pages) = m + 1 /\ Len(e.queue) = n - 1
    BY <1>2, <1>3, <1>6
  <2>5. \A i \in 1..Len(e.pages), j \in 1..Len(e.pages) : e.pages[i].asked = e.pages[j].asked => i = j
    BY <1>6, <2>2, <2>4
  <2>6. \A i \in 1..Len(e.queue), j \in 1..Len(e.queue) : e.queue[i].url = e.queue[j].url => i = j
    BY <1>6, <2>3, <2>4
  <2> QED BY <2>1, <2>5, <2>6 DEF VisitsOnce
<1>12. dep[w.url] = w.depth /\ dep[w.url] \in Nat /\ \A u \in Urls : dep[u] \in Nat
  BY <1>2, <1>4 DEF NearFirst, n
<1>13. /\ \A u \in Ahead(c) : dep[u] <= dep[w.url]
       /\ \A v \in Behind(e) : dep[w.url] <= dep[v] /\ dep[v] <= dep[w.url] + 1
  <2>1. \A u \in Ahead(c) : dep[u] <= dep[w.url]
    BY <1>8 DEF NearFirst
  <2>2. \A v \in Behind(e) : dep[v] <= dep[w.url] + 1
    BY <1>8 DEF NearFirst
  <2>3. ASSUME NEW j \in 1..n-1 PROVE dep[w.url] <= dep[q[j].url]
    <3>1. 1 < j + 1 /\ 1 \in 1..n /\ j + 1 \in 1..n
      BY <1>1, <1>4, <1>7
    <3>2. dep[c.queue[1].url] <= dep[c.queue[j + 1].url]
      BY <3>1 DEF NearFirst, n
    <3> QED BY <1>2, <3>2
  <2>4. \A v \in Behind(e) : dep[w.url] <= dep[v]
    BY <1>2, <1>6, <2>3 DEF Behind
  <2> QED BY <2>1, <2>2, <2>4
<1>14. NearFirst(e, dep)
  <2>1. \A j \in 1..n-1 : q[j].depth = dep[q[j].url]
    BY <1>2, <1>7 DEF NearFirst, n
  <2>2. ASSUME NEW i \in 1..m+1, NEW j \in 1..m+1, i < j PROVE dep[P[i].asked] <= dep[P[j].asked]
    <3>1. CASE j = m + 1
      <4>1. i \in 1..m
        BY <1>1, <2>2, <3>1
      <4>2. P[i].asked \in Ahead(c)
        BY <1>3, <4>1 DEF Ahead, m
      <4> QED BY <1>0, <1>3, <1>13, <3>1, <4>2
    <3>2. CASE j # m + 1
      <4>1. i \in 1..m /\ j \in 1..m
        BY <1>1, <2>2, <3>2
      <4> QED BY <1>3, <2>2, <4>1 DEF NearFirst, m
    <3> QED BY <3>1, <3>2
  <2>3. \A u \in Ahead(e), v \in Behind(e) : dep[u] <= dep[v]
    <3>1. \A u \in Ahead(c), v \in Behind(e) : dep[u] <= dep[v]
      BY <1>8 DEF NearFirst
    <3> QED BY <1>8, <1>13, <3>1
  <2>4. ASSUME NEW i \in 1..n-1, NEW j \in 1..n-1, i < j PROVE dep[q[i].url] <= dep[q[j].url]
    <3>1. i + 1 < j + 1 /\ i + 1 \in 1..n /\ j + 1 \in 1..n
      BY <1>1, <1>7, <2>4
    <3>2. dep[c.queue[i + 1].url] <= dep[c.queue[j + 1].url]
      BY <3>1 DEF NearFirst, n
    <3> QED BY <1>2, <3>2
  <2>5. \A u \in Behind(e), v \in Behind(e) : dep[v] <= dep[u] + 1
    BY <1>8 DEF NearFirst
  <2>6. Len(e.pages) = m + 1 /\ Len(e.queue) = n - 1
    BY <1>2, <1>3, <1>6
  <2> QED BY <1>6, <2>1, <2>2, <2>3, <2>4, <2>5, <2>6 DEF NearFirst
<1>15. Reached(e, dep, m)
  <2>1. 1..m \subseteq 1..m+1
    BY <1>7
  <2>2. \A v \in e.queued \ {Root} : \E i \in 1..m+1 : Leads(P[i], v) /\ dep[v] = dep[P[i].asked] + 1
    <3> TAKE v \in e.queued \ {Root}
    <3>1. PICK i \in 1..m : Leads(c.pages[i], v) /\ dep[v] = dep[c.pages[i].asked] + 1
      BY <1>6 DEF Reached, m
    <3>2. i \in 1..m+1 /\ P[i] = c.pages[i]
      BY <1>3, <2>1
    <3> QED BY <3>1, <3>2
  <2>3. \A i \in 1..m, v \in Urls :
          Leads(P[i], v) /\ dep[P[i].asked] < MaxDepth => v \in e.queued /\ dep[v] <= dep[P[i].asked] + 1
    BY <1>3, <1>6 DEF Reached, m
  <2>4. Root \in e.queued /\ dep[Root] = 0 /\ \A v \in e.queued : dep[v] <= MaxDepth
    BY <1>6 DEF Reached
  <2> QED BY <1>3, <1>6, <2>2, <2>3, <2>4 DEF Reached
<1>16. \A u \in Ahead(e) : dep[u] <= dep[p.asked]
  BY <1>0, <1>8, <1>12, <1>13
<1>17. p.asked = w.url
  BY <1>0
<1> QED BY <1>3, <1>6, <1>11, <1>12, <1>13, <1>14, <1>15, <1>16, <1>17 DEF w, m

(* What the answer of the page fetched last refers to joins the queue.     *)
LEMMA JoinsQueue ==
  ASSUME NEW c \in Crawls, NEW dep \in [Urls -> Nat], NEW m \in Nat, Len(c.pages) = m + 1,
         VisitsOnce(c), NearFirst(c, dep), Reached(c, dep, m),
         NEW p, p = c.pages[m + 1], p.status # "none", dep[p.asked] < MaxDepth,
         \A u \in Ahead(c) : dep[u] <= dep[p.asked],
         \A v \in Behind(c) : dep[p.asked] <= dep[v] /\ dep[v] <= dep[p.asked] + 1,
         NEW e, Pushed(e, c, p.url, dep[p.asked], Len(RefsOf[p.url]))
  PROVE  VisitsOnce(e) /\ \E dist \in [Urls -> Nat] : NearFirst(e, dist) /\ Reached(e, dist, m + 1)
<1> DEFINE n == Len(c.queue)
           l == Len(e.queue)
           far == dep[p.asked] + 1
           d == [u \in Urls |-> IF u \in c.queued THEN dep[u] ELSE far]
           New == {e.queue[j].url : j \in n+1..l}
<1>1. /\ e \in Crawls /\ e.pages = c.pages /\ e.fetched = c.fetched /\ n <= l /\ n \in Nat /\ l \in Nat
      /\ \A j \in 1..n : e.queue[j] = c.queue[j]
      /\ e.queued = c.queued \cup New
  BY CrawlIs DEF Pushed
<1>2. \A j \in n+1..l : /\ e.queue[j].depth = far /\ e.queue[j].url \notin c.queued
                        /\ Leads(p, e.queue[j].url)
                        /\ \A k \in n+1..l : e.queue[j].url = e.queue[k].url => j = k
  BY DEF Pushed, Leads
<1>3. p.asked \in Urls /\ dep[p.asked] \in Nat /\ far \in Nat /\ m + 1 \in 1..Len(c.pages)
  <2>1. m + 1 \in 1..Len(c.pages)
    OBVIOUS
  <2>2. p.asked \in Urls
    BY <2>1, CrawlIs
  <2> QED BY <2>1, <2>2
<1>4. \A v \in Urls : Leads(p, v) => v \in e.queued
  <2>1. \A i \in 1..Len(RefsOf[p.url]) : Followed(RefsOf[p.url][i]) => RefsOf[p.url][i].url \in e.queued \cup e.fetched
    BY DEF Pushed
  <2>2. e.fetched \subseteq e.queued
    BY <1>1 DEF VisitsOnce
  <2> QED BY <2>1, <2>2 DEF Leads
<1>5. c.queued \subseteq Urls /\ New \subseteq Urls /\ New \cap c.queued = {}
  BY <1>1, <1>2, CrawlIs
<1> HIDE DEF n, l, far, New
<1>6. d \in [Urls -> Nat] /\ (\A u \in c.queued : d[u] = dep[u]) /\ \A u \in New : d[u] = far
  BY <1>3, <1>5
<1> HIDE DEF d
<1>7. 1..l = 1..n \cup (n+1..l) /\ Ahead(e) = Ahead(c) /\ Behind(e) = Behind(c) \cup New
  <2>1. 1..l = 1..n \cup (n+1..l)
    BY <1>1
  <2>2. Ahead(e) = Ahead(c)
    BY <1>1 DEF Ahead
  <2>3. Behind(e) = {e.queue[j].url : j \in 1..n} \cup New
    BY <2>1 DEF Behind, New, l
  <2>4. {e.queue[j].url : j \in 1..n} = Behind(c)
    BY <1>1 DEF Behind, n
  <2> QED BY <2>1, <2>2, <2>3, <2>4
<1>8. Ahead(c) \subseteq c.queued /\ Behind(c) \subseteq c.queued /\ p.asked \in Ahead(c) /\ Root \in c.queued
  BY <1>3 DEF VisitsOnce, Reached, Ahead
<1>9. /\ \A j \in 1..n : e.queue[j].url \in Behind(c) /\ e.queue[j].url \in c.queued
      /\ \A j \in n+1..l : e.queue[j].url \in New
  BY <1>1, <1>8 DEF Behind, New, n
<1>10. VisitsOnce(e)
  <2>1. e.fetched = Ahead(e) /\ e.queued = Ahead(e) \cup Behind(e) /\ Ahead(e) \cap Behind(e) = {}
    BY <1>1, <1>5, <1>7, <1>8 DEF VisitsOnce
  <2>2. ASSUME NEW i \in 1..l, NEW j \in 1..l, e.queue[i].url = e.queue[j].url PROVE i = j
    <3>1. CASE i \in 1..n /\ j \in 1..n
      BY <1>1, <2>2, <3>1 DEF VisitsOnce, n
    <3>2. CASE i \in n+1..l /\ j \in n+1..l
      BY <1>2, <2>2, <3>2
    <3>3. CASE i \in 1..n /\ j \in n+1..l
      BY <1>2, <1>9, <2>2, <3>3
    <3>4. CASE i \in n+1..l /\ j \in 1..n
      BY <1>2, <1>9, <2>2, <3>4
    <3> QED BY <1>7, <3>1, <3>2, <3>3, <3>4
  <2>3. \A i \in 1..Len(e.pages), j \in 1..Len(e.pages) : e.pages[i].asked = e.pages[j].asked => i = j
    BY <1>1 DEF VisitsOnce
  <2>4. \A i \in 1..Len(e.queue), j \in 1..Len(e.queue) : e.queue[i].url = e.queue[j].url => i = j
    BY <2>2 DEF l
  <2> QED BY <2>1, <2>3, <2>4 DEF VisitsOnce
<1>11. NearFirst(e, d)
  <2>1. ASSUME NEW j \in 1..l PROVE e.queue[j].depth = d[e.queue[j].url]
    <3>1. CASE j \in 1..n
      <4>1. c.queue[j].depth = dep[c.queue[j].url]
        BY <3>1 DEF NearFirst, n
      <4>2. e.queue[j] = c.queue[j] /\ d[e.queue[j].url] = dep[e.queue[j].url]
        BY <1>1, <1>6, <1>9, <3>1
      <4> QED BY <4>1, <4>2
    <3>2. CASE j \in n+1..l
      BY <1>2, <1>6, <1>9, <3>2
    <3> QED BY <1>7, <3>1, <3>2
  <2>2. ASSUME NEW i \in 1..Len(e.pages), NEW j \in 1..Len(e.pages), i < j
        PROVE  d[e.pages[i].asked] <= d[e.pages[j].asked]
    <3>1. e.pages[i].asked \in c.queued /\ e.pages[j].asked \in c.queued
      BY <1>1, <1>8 DEF Ahead
    <3>2. dep[c.pages[i].asked] <= dep[c.pages[j].asked]
      BY <1>1, <2>2 DEF NearFirst
    <3> QED BY <1>1, <1>6, <3>1, <3>2
  <2>3. ASSUME NEW u \in Ahead(e), NEW v \in Behind(e) PROVE d[u] <= d[v]
    <3>1. u \in c.queued /\ u \in Urls /\ d[u] = dep[u] /\ dep[u] <= dep[p.asked] /\ dep[u] \in Nat
      BY <1>5, <1>6, <1>7, <1>8
    <3>2. CASE v \in Behind(c)
      <4>1. d[v] = dep[v] /\ dep[u] <= dep[v]
        BY <1>6, <1>7, <1>8, <3>2 DEF NearFirst
      <4> QED BY <3>1, <4>1
    <3>3. CASE v \in New
      <4>1. d[v] = far
        BY <1>6, <3>3
      <4> QED BY <1>3, <3>1, <4>1 DEF far
    <3> QED BY <1>7, <3>2, <3>3
  <2>4. \A u \in Behind(c) : u \in Urls /\ dep[u] \in Nat /\ d[u] = dep[u] /\ dep[p.asked] <= dep[u] /\ dep[u] <= far
    BY <1>5, <1>6, <1>8 DEF far
  <2>5. ASSUME NEW i \in 1..l, NEW j \in 1..l, i < j PROVE d[e.queue[i].url] <= d[e.queue[j].url]
    <3>1. CASE j \in 1..n
      <4>1. i \in 1..n
        BY <1>1, <2>5, <3>1
      <4>2. dep[c.queue[i].url] <= dep[c.queue[j].url]
        BY <2>5, <3>1, <4>1 DEF NearFirst, n
      <4> QED BY <1>1, <1>9, <2>4, <3>1, <4>1, <4>2
    <3>2. CASE j \in n+1..l
      <4>1. d[e.queue[j].url] = far
        BY <1>6, <1>9, <3>2
      <4>2. CASE i \in 1..n
        BY <1>9, <2>4, <4>1, <4>2
      <4>3. CASE i \in n+1..l
        <5>1. d[e.queue[i].url] = far
          BY <1>6, <1>9, <4>3
        <5> QED BY <1>3, <4>1, <5>1
      <4> QED BY <1>7, <4>2, <4>3
    <3> QED BY <1>7, <3>1, <3>2
  <2>6. ASSUME NEW u \in Behind(e), NEW v \in Behind(e) PROVE d[v] <= d[u] + 1
    <3>1. \A x \in Behind(e) : d[x] \in Nat /\ dep[p.asked] <= d[x] /\ d[x] <= far
      <4>1. \A x \in New : d[x] \in Nat /\ dep[p.asked] <= d[x] /\ d[x] <= far
        BY <1>3, <1>6 DEF far
      <4> QED BY <1>7, <2>4, <4>1
    <3>2. d[v] <= far /\ dep[p.asked] <= d[u] /\ d[u] \in Nat /\ d[v] \in Nat
      BY <3>1
    <3> QED BY <1>3, <3>2 DEF far
  <2> QED BY <2>1, <2>2, <2>3, <2>5, <2>6 DEF NearFirst, l
<1>12. Reached(e, d, m + 1)
  <2>1. Root \in e.queued /\ d[Root] = 0
    BY <1>1, <1>6, <1>8 DEF Reached
  <2>2. \A v \in e.queued : d[v] <= MaxDepth
    <3>1. far <= MaxDepth
      BY <1>3, ReconAssumption DEF far
    <3>2. \A v \in c.queued : d[v] <= MaxDepth
      BY <1>6 DEF Reached
    <3>3. \A v \in New : d[v] <= MaxDepth
      BY <1>6, <3>1
    <3> QED BY <1>1, <3>2, <3>3
  <2>3. ASSUME NEW v \in e.queued \ {Root}
        PROVE  \E i \in 1..Len(e.pages) : Leads(e.pages[i], v) /\ d[v] = d[e.pages[i].asked] + 1
    <3>1. CASE v \in c.queued
      <4>1. PICK i \in 1..Len(c.pages) : Leads(c.pages[i], v) /\ dep[v] = dep[c.pages[i].asked] + 1
        BY <3>1 DEF Reached
      <4>2. c.pages[i].asked \in c.queued
        BY <1>8 DEF Ahead
      <4>3. d[v] = dep[v] /\ d[c.pages[i].asked] = dep[c.pages[i].asked]
        BY <1>6, <3>1, <4>2
      <4> QED BY <1>1, <4>1, <4>3
    <3>2. CASE v \in New
      <4>1. Leads(p, v) /\ d[v] = far /\ d[p.asked] = dep[p.asked]
        BY <1>2, <1>6, <1>8, <3>2 DEF New
      <4> QED BY <1>1, <1>3, <4>1 DEF far
    <3> QED BY <1>1, <3>1, <3>2
  <2>4. ASSUME NEW i \in 1..m+1, NEW v \in Urls, Leads(e.pages[i], v), d[e.pages[i].asked] < MaxDepth
        PROVE  v \in e.queued /\ d[v] <= d[e.pages[i].asked] + 1
    <3>1. e.pages[i] = c.pages[i] /\ d[c.pages[i].asked] = dep[c.pages[i].asked]
      <4> c.pages[i].asked \in c.queued
        BY <1>8 DEF Ahead
      <4> QED BY <1>1, <1>6
    <3>2. CASE i \in 1..m
      <4>1. v \in c.queued /\ dep[v] <= dep[c.pages[i].asked] + 1
        BY <2>4, <3>1, <3>2 DEF Reached
      <4> QED BY <1>1, <1>6, <3>1, <4>1
    <3>3. CASE i = m + 1
      <4>1. v \in e.queued
        BY <1>1, <1>4, <2>4, <3>3
      <4>2. d[v] <= far
        <5>1. CASE v \in Ahead(c)
          <6>1. d[v] = dep[v] /\ dep[v] <= dep[p.asked] /\ dep[v] \in Nat
            BY <1>6, <1>8, <5>1
          <6> QED BY <1>3, <6>1 DEF far
        <5>2. CASE v \in Behind(c)
          BY <1>6, <1>8, <5>2 DEF far
        <5>3. CASE v \in New
          BY <1>3, <1>6, <5>3
        <5> QED BY <1>1, <4>1, <5>1, <5>2, <5>3 DEF VisitsOnce
      <4>3. d[e.pages[i].asked] = dep[p.asked]
        BY <3>1, <3>3
      <4> QED BY <4>1, <4>2, <4>3 DEF far
    <3>4. i \in 1..m \/ i = m + 1
      OBVIOUS
    <3> QED BY <3>2, <3>3, <3>4
  <2> QED BY <2>1, <2>2, <2>3, <2>4 DEF Reached
<1> QED BY <1>6, <1>10, <1>11, <1>12

(* A page is fetched, and answers or not.                                  *)
LEMMA FetchGoes ==
  ASSUME NEW c, CrawlRight(c), c.queue # <<>>, ~(Len(c.pages) >= MaxPages),
         NEW at \in Urls, NEW next, next = Head(c.queue),
         NEW page, NEW status \in Statuses, page = [asked |-> next.url, url |-> at, status |-> status],
         NEW e, e = [c EXCEPT !.queue = Tail(c.queue), !.fetched = c.fetched \cup {next.url},
                              !.pages = Append(c.pages, page)]
  PROVE  /\ status = "none" => CrawlRight(e)
         /\ status # "none" => CrawlRight(Enqueued(e, at, next.depth))
<1> DEFINE m == Len(c.pages)
<1>1. c \in Crawls /\ Len(c.pages) <= MaxPages /\ VisitsOnce(c)
  BY DEF CrawlRight
<1>2. PICK dep \in [Urls -> Nat] : NearFirst(c, dep) /\ Reached(c, dep, m)
  BY DEF CrawlRight
<1>3. next.url \in Urls /\ m \in Nat /\ m + 1 <= MaxPages
  <2>1. c.queue \in Seq(Waiting) /\ m \in Nat
    BY <1>1, CrawlIs
  <2>2. next \in Waiting
    BY <2>1
  <2>3. next.url \in Urls
    BY <2>2 DEF Waiting
  <2>4. MaxPages \in Nat
    BY ReconAssumption
  <2> HIDE DEF m
  <2>5. m <= MaxPages /\ ~(m >= MaxPages)
    BY <1>1 DEF m
  <2> QED BY <2>1, <2>3, <2>4, <2>5
<1>4. page \in CrawledPages /\ page.asked = next.url /\ page.url = at /\ page.status = status
  BY <1>3 DEF CrawledPages
<1>5. /\ e \in Crawls /\ VisitsOnce(e) /\ NearFirst(e, dep) /\ Reached(e, dep, m)
      /\ Len(e.pages) = m + 1 /\ e.pages[m + 1] = page
      /\ dep[page.asked] = next.depth
      /\ \A u \in Ahead(e) : dep[u] <= dep[page.asked]
      /\ \A v \in Behind(e) : dep[page.asked] <= dep[v] /\ dep[v] <= dep[page.asked] + 1
  <2>1. page.asked = Head(c.queue).url
    BY <1>4
  <2>2. Reached(c, dep, Len(c.pages)) /\ NearFirst(c, dep)
    BY <1>2
  <2> DEFINE q == Tail(c.queue)
             f == c.fetched \cup {next.url}
             P == Append(c.pages, page)
  <2>3. q \in Seq(Waiting) /\ f \in SUBSET Urls /\ P \in Seq(CrawledPages)
    <3>1. c.queue \in Seq(Waiting) /\ c.fetched \in SUBSET Urls /\ c.pages \in Seq(CrawledPages)
      BY <1>1, CrawlIs
    <3> QED BY <1>3, <1>4, <3>1
  <2>4. P[m + 1] = page /\ Len(P) = m + 1
    BY <1>1, <1>4, CrawlIs
  <2> HIDE DEF q, f, P
  <2>5. e = [c EXCEPT !.queue = q, !.fetched = f, !.pages = P]
    BY DEF q, f, P
  <2>6. e \in Crawls /\ e.queue = q /\ e.fetched = f /\ e.pages = P /\ e.queued = c.queued
    BY <1>1, <2>3, <2>5 DEF Crawls
  <2>7. PopsTo(c, page, e)
    BY <2>1, <2>6 DEF q, f, P, PopsTo
  <2>8. /\ VisitsOnce(e) /\ NearFirst(e, dep) /\ Reached(e, dep, Len(c.pages))
        /\ dep[page.asked] = Head(c.queue).depth
        /\ \A u \in Ahead(e) : dep[u] <= dep[page.asked]
        /\ \A v \in Behind(e) : dep[page.asked] <= dep[v] /\ dep[v] <= dep[page.asked] + 1
    <3>1. e \in Crawls
      BY <2>6
    <3> QED BY <1>1, <1>4, <2>2, <2>7, <3>1, Pops
  <2> QED BY <2>4, <2>6, <2>8
<1> HIDE DEF m
<1>6. dep[page.asked] \in Nat
  BY <1>3, <1>4
<1>7. CASE status = "none" \/ ~(dep[page.asked] < MaxDepth)
  <2>1. Reached(e, dep, m + 1)
    <3>1. 1..m+1 = 1..m \cup {m + 1}
      BY <1>3
    <3>2. ~\E v \in Urls : Leads(e.pages[m + 1], v) /\ dep[e.pages[m + 1].asked] < MaxDepth
      BY <1>4, <1>5, <1>7 DEF Leads
    <3> QED BY <1>5, <3>1, <3>2 DEF Reached
  <2>2. CrawlRight(e)
    BY <1>3, <1>5, <2>1 DEF CrawlRight
  <2>3. status # "none" => Enqueued(e, at, next.depth) = e
    <3> SUFFICES ASSUME status # "none" PROVE Enqueued(e, at, next.depth) = e
      OBVIOUS
    <3>1. next.depth >= MaxDepth
      BY <1>5, <1>6, <1>7, ReconAssumption
    <3> QED BY <3>1 DEF Enqueued
  <2> QED BY <1>7, <2>2, <2>3
<1>8. CASE status # "none" /\ dep[page.asked] < MaxDepth
  <2> DEFINE new == Enqueued(e, at, next.depth)
  <2>1. Pushed(new, e, page.url, dep[page.asked], Len(RefsOf[page.url]))
    BY <1>4, <1>5, <1>6, <1>8, EnqueuedIs
  <2> HIDE DEF new
  <2>2. VisitsOnce(new) /\ \E dist \in [Urls -> Nat] : NearFirst(new, dist) /\ Reached(new, dist, m + 1)
    BY <1>3, <1>4, <1>5, <1>8, <2>1, JoinsQueue
  <2>3. new \in Crawls /\ new.pages = e.pages
    BY <2>1 DEF Pushed
  <2> QED BY <1>3, <1>5, <1>8, <2>2, <2>3 DEF CrawlRight, new
<1> QED BY <1>7, <1>8

(* Addresses within n links are those the crawl knows at that distance.    *)
Known(c, dep, n) == {v \in c.queued : dep[v] <= n}
LEMMA WithinIs ==
  ASSUME NEW s, NEW dep \in [Urls -> Nat], crawl[s] \in Crawls, VisitsOnce(crawl[s]),
         Reached(crawl[s], dep, Len(crawl[s].pages)), NEW n \in 0..MaxDepth
  PROVE  Within(s, n) = Known(crawl[s], dep, n)
<1> DEFINE c == crawl[s]
           Answered(U) == {p \in Range(c.pages) : p.asked \in U /\ p.status # "none"}
           Refs(U) == UNION {Range(RefsOf[p.url]) : p \in Answered(U)}
           Near(ref) == ref.source = "link" /\ ref.url \in OwnOrigin /\ "asset" \notin ShapeOf[PathOf[ref.url]]
           More(U) == U \cup {r.url : r \in {x \in Refs(U) : Near(x)}}
           Step(f) == [i \in 0..n |-> IF i = 0 THEN {Root} ELSE More(f[i - 1])]
           level == CHOOSE f : f = Step(f)
           F == [k \in 1..n |-> [U \in SUBSET Urls |-> More(U)]]
<1>1. Within(s, n) = level[n]
  BY DEF Within
<1>2. n \in Nat /\ MaxDepth \in Nat /\ n <= MaxDepth /\ Root \in Urls
  BY ReconAssumption
<1>3. ASSUME NEW U \in SUBSET Urls
      PROVE  More(U) = U \cup {v \in Urls : \E i \in 1..Len(c.pages) : c.pages[i].asked \in U /\ Leads(c.pages[i], v)}
  <2> DEFINE Right == {v \in Urls : \E i \in 1..Len(c.pages) : c.pages[i].asked \in U /\ Leads(c.pages[i], v)}
             Left == {r.url : r \in {x \in Refs(U) : Near(x)}}
  <2>0. DOMAIN c.pages = 1..Len(c.pages)
    BY CrawlIs
  <2>1. ASSUME NEW v \in Left PROVE v \in Right
    <3>1. PICK r \in Refs(U) : Near(r) /\ r.url = v
      OBVIOUS
    <3>2. PICK p \in Answered(U) : r \in Range(RefsOf[p.url])
      BY <3>1
    <3>3. PICK i \in 1..Len(c.pages) : p = c.pages[i]
      BY <2>0, <3>2 DEF Range
    <3>4. p.url \in Urls /\ DOMAIN RefsOf[p.url] = 1..Len(RefsOf[p.url])
      BY <3>3, CrawlIs, SiteAssumption
    <3>5. PICK j \in 1..Len(RefsOf[p.url]) : r = RefsOf[p.url][j]
      BY <3>2, <3>4 DEF Range
    <3>6. Leads(p, v) /\ p.asked \in U
      BY <3>1, <3>2, <3>5 DEF Leads, Followed
    <3>7. v \in Urls
      BY <3>1, <3>4, <3>5, SiteAssumption
    <3> QED BY <3>3, <3>6, <3>7
  <2>2. ASSUME NEW v \in Right PROVE v \in Left
    <3>1. PICK i \in 1..Len(c.pages) : c.pages[i].asked \in U /\ Leads(c.pages[i], v)
      OBVIOUS
    <3> DEFINE p == c.pages[i]
    <3>2. p \in Answered(U)
      BY <2>0, <3>1 DEF Range, Leads
    <3>3. PICK j \in 1..Len(RefsOf[p.url]) : Followed(RefsOf[p.url][j]) /\ RefsOf[p.url][j].url = v
      BY <3>1 DEF Leads
    <3>4. p.url \in Urls /\ DOMAIN RefsOf[p.url] = 1..Len(RefsOf[p.url])
      BY CrawlIs, SiteAssumption
    <3> HIDE DEF p
    <3>5. RefsOf[p.url][j] \in Range(RefsOf[p.url])
      BY <3>4 DEF Range
    <3>6. RefsOf[p.url][j] \in Refs(U)
      BY <3>2, <3>5
    <3>7. Near(RefsOf[p.url][j])
      BY <3>3 DEF Followed
    <3> QED BY <3>3, <3>6, <3>7
  <2> HIDE DEF Left, Right
  <2>3. Left = Right
    BY <2>1, <2>2
  <2> QED BY <2>3 DEF Left, Right
<1> HIDE DEF More
<1>4. \A U \in SUBSET Urls : More(U) \in SUBSET Urls
  BY <1>3
<1>5. {Root} \in SUBSET Urls /\ \A k \in 1..n : \A U \in SUBSET Urls : F[k][U] = More(U) /\ F[k][U] \in SUBSET Urls
  BY <1>2, <1>4
<1> HIDE DEF F
<1>6. PICK g \in [0..n -> SUBSET Urls] : Goes(g, F, {Root}, n)
  BY <1>2, <1>5, FoldGoes
<1>7. g = Step(g)
  <2>1. ASSUME NEW k \in 0..n PROVE g[k] = IF k = 0 THEN {Root} ELSE More(g[k-1])
    <3>1. CASE k = 0
      BY <1>6, <3>1 DEF Goes
    <3>2. CASE k # 0
      <4>1. k \in 1..n /\ k - 1 \in 0..n /\ g[k-1] \in SUBSET Urls
        BY <1>2, <3>2
      <4> QED BY <1>5, <1>6, <3>2, <4>1 DEF Goes
    <3> QED BY <3>1, <3>2
  <2> QED BY <2>1
<1>8. level = Step(level)
  BY <1>7
<1> HIDE DEF level
<1>9. level[0] = {Root} /\ \A k \in 1..n : level[k] = More(level[k-1])
  <2>1. level[0] = {Root}
    BY <1>2, <1>8
  <2>2. ASSUME NEW k \in 1..n PROVE level[k] = More(level[k-1])
    <3> k \in 0..n /\ k # 0
      BY <1>2
    <3> QED BY <1>8
  <2> QED BY <2>1, <2>2
<1> HIDE DEF Step
<1>0. c.queued \subseteq Urls /\ \A i \in 1..Len(c.pages) : c.pages[i].asked \in c.queued
  BY CrawlIs DEF VisitsOnce, Ahead
<1> DEFINE T == {k \in 0..n : level[k] = Known(c, dep, k)}
<1>10. 0 \in T
  <2>1. ASSUME NEW v \in c.queued, dep[v] <= 0 PROVE v = Root
    <3>1. ASSUME v # Root PROVE FALSE
      <4>1. PICK i \in 1..Len(c.pages) : Leads(c.pages[i], v) /\ dep[v] = dep[c.pages[i].asked] + 1
        BY <2>1, <3>1 DEF Reached
      <4>2. dep[c.pages[i].asked] \in Nat
        BY <1>0
      <4> QED BY <2>1, <4>1, <4>2
    <3> QED BY <3>1
  <2>2. Root \in c.queued /\ dep[Root] <= 0
    BY DEF Reached
  <2>3. Known(c, dep, 0) = {Root}
    BY <2>1, <2>2 DEF Known
  <2>4. 0 \in 0..n /\ level[0] = Known(c, dep, 0)
    BY <1>2, <1>9, <2>3
  <2> QED BY <2>4
<1>11. ASSUME NEW k \in 1..n, k - 1 \in T PROVE k \in T
  <2> DEFINE U == Known(c, dep, k - 1)
  <2>1. level[k] = More(U) /\ U \in SUBSET Urls /\ k - 1 < MaxDepth /\ k \in Nat
    <3>1. level[k] = More(level[k-1]) /\ level[k-1] = U
      BY <1>9, <1>11
    <3>2. k - 1 < MaxDepth /\ k \in Nat
      BY <1>2
    <3>3. U \in SUBSET Urls
      BY <1>0 DEF Known
    <3> QED BY <3>1, <3>2, <3>3
  <2>2. More(U) = U \cup {v \in Urls : \E i \in 1..Len(c.pages) : c.pages[i].asked \in U /\ Leads(c.pages[i], v)}
    BY <1>3, <2>1
  <2>3. \A v \in c.queued : dep[v] \in Nat
    BY <1>0
  <2>4. U \subseteq Known(c, dep, k)
    BY <2>1, <2>3 DEF Known
  <2>5. ASSUME NEW v \in Urls, NEW i \in 1..Len(c.pages), c.pages[i].asked \in U, Leads(c.pages[i], v)
        PROVE  v \in Known(c, dep, k)
    <3>1. dep[c.pages[i].asked] <= k - 1 /\ dep[c.pages[i].asked] \in Nat
      BY <2>3, <2>5 DEF Known
    <3>2. dep[c.pages[i].asked] < MaxDepth
      BY <1>2, <2>1, <3>1
    <3>3. v \in c.queued /\ dep[v] <= dep[c.pages[i].asked] + 1
      BY <2>5, <3>2 DEF Reached
    <3>4. dep[v] <= k
      BY <2>1, <2>3, <3>1, <3>3
    <3> QED BY <3>3, <3>4 DEF Known
  <2>6. ASSUME NEW v \in Known(c, dep, k), v \notin U
        PROVE  v \in Urls /\ \E i \in 1..Len(c.pages) : c.pages[i].asked \in U /\ Leads(c.pages[i], v)
    <3>1. v \in c.queued /\ v \in Urls /\ dep[v] = k
      BY <1>0, <2>1, <2>3, <2>6 DEF Known
    <3>2. v # Root
      BY <2>1, <3>1 DEF Reached
    <3>3. PICK i \in 1..Len(c.pages) : Leads(c.pages[i], v) /\ dep[v] = dep[c.pages[i].asked] + 1
      BY <3>1, <3>2 DEF Reached
    <3>4. c.pages[i].asked \in U
      BY <1>0, <2>1, <2>3, <3>1, <3>3 DEF Known
    <3> QED BY <3>1, <3>3, <3>4
  <2> HIDE DEF U
  <2>7. More(U) = Known(c, dep, k)
    BY <2>2, <2>4, <2>5, <2>6
  <2> QED BY <2>1, <2>7
<1>12. n \in T
  <2> n \in 0..n
    BY <1>2
  <2> HIDE DEF T
  <2> QED BY <1>2, <1>10, <1>11, Climbs
<1> QED BY <1>1, <1>12

(* A crawl that is over is exact.                                          *)
LEMMA CrawlExact ==
  ASSUME NEW s, CrawlRight(crawl[s]), CrawlOver(s)
  PROVE  CrawlIsExact(s)
<1> DEFINE c == crawl[s]
           m == Len(c.pages)
           asked == [i \in DOMAIN c.pages |-> c.pages[i].asked]
           near == [n \in 0..MaxDepth |-> Within(s, n)]
<1>1. c \in Crawls /\ m <= MaxPages /\ VisitsOnce(c)
  BY DEF CrawlRight
<1>2. PICK dep \in [Urls -> Nat] : NearFirst(c, dep) /\ Reached(c, dep, m)
  BY DEF CrawlRight
<1>3. /\ DOMAIN c.pages = 1..m /\ m \in Nat /\ asked \in [1..m -> Urls] /\ Len(asked) = m /\ DOMAIN asked = 1..m
      /\ \A i \in 1..m : asked[i] = c.pages[i].asked
  <2>1. c.pages \in Seq(CrawledPages) /\ m \in Nat /\ \A i \in 1..m : c.pages[i].asked \in Urls
    BY <1>1, CrawlIs
  <2>2. DOMAIN c.pages = 1..m
    BY <2>1
  <2>3. asked \in [1..m -> Urls] /\ DOMAIN asked = 1..m /\ \A i \in 1..m : asked[i] = c.pages[i].asked
    BY <2>1, <2>2
  <2> HIDE DEF asked, m
  <2> QED BY <2>1, <2>2, <2>3, ListIs
<1>4. \A n \in 0..MaxDepth : near[n] = Known(c, dep, n)
  <2> TAKE n \in 0..MaxDepth
  <2>1. Within(s, n) = Known(c, dep, n)
    BY <1>1, <1>2, WithinIs
  <2> QED BY <2>1
<1> HIDE DEF near, asked
<1>5. MaxDepth \in 0..MaxDepth
  BY ReconAssumption
<1>6. near[MaxDepth] = c.queued
  BY <1>2, <1>4, <1>5 DEF Known, Reached
<1>7. Range(asked) = Ahead(c)
  BY <1>3 DEF Range, Ahead
<1>8. \A u \in c.queued : u \in Urls /\ dep[u] \in Nat
  BY <1>1, CrawlIs
<1>9. Cardinality(Range(asked)) = m
  <2>1. asked \in [1..m -> Range(asked)] /\ \A y \in Range(asked) : \E i \in 1..m : asked[i] = y
    BY <1>3 DEF Range
  <2>2. \A i \in 1..m, j \in 1..m : asked[i] = asked[j] => i = j
    BY <1>1, <1>3 DEF VisitsOnce
  <2>3. IsFiniteSet(1..m) /\ Cardinality(1..m) = m
    <3>1. 1 \in Int /\ m \in Int /\ m \in Nat
      BY <1>3
    <3> HIDE DEF m
    <3>2. IsFiniteSet(1..m) /\ Cardinality(1..m) = IF 1 > m THEN 0 ELSE m - 1 + 1
      BY <3>1, FS_Interval
    <3>3. (IF 1 > m THEN 0 ELSE m - 1 + 1) = m
      BY <3>1
    <3> QED BY <3>2, <3>3
  <2>4. Cardinality(Range(asked)) = Cardinality(1..m)
    <3>1. asked \in Bijection(1..m, Range(asked))
      <4>1. asked \in Injection(1..m, Range(asked))
        BY <1>3, <2>1, <2>2 DEF Injection, IsInjective
      <4>2. asked \in Surjection(1..m, Range(asked))
        BY <2>1 DEF Surjection
      <4> QED BY <4>1, <4>2 DEF Bijection
    <3>2. ExistsBijection(1..m, Range(asked))
      BY <3>1 DEF ExistsBijection
    <3> HIDE DEF m
    <3> QED BY <2>3, <3>2, FS_Bijection
  <2> QED BY <2>3, <2>4
<1>10. m <= MaxPages /\ Range(asked) \subseteq near[MaxDepth]
  BY <1>1, <1>6, <1>7 DEF VisitsOnce
<1>11. m < MaxPages => Range(asked) = near[MaxDepth]
  <2> SUFFICES ASSUME m < MaxPages PROVE Range(asked) = near[MaxDepth]
    OBVIOUS
  <2>1. c.queue = <<>>
    <3>1. MaxPages \in Nat
      BY ReconAssumption
    <3> QED BY <1>3, <3>1 DEF CrawlOver
  <2>2. Behind(c) = {}
    BY <2>1 DEF Behind
  <2> QED BY <1>1, <1>6, <1>7, <2>2 DEF VisitsOnce
<1>12. ASSUME NEW i \in 1..m, NEW j \in 1..m, NEW n \in 0..MaxDepth, i < j, asked[j] \in near[n]
       PROVE  asked[i] \in near[n]
  <2>1. dep[asked[i]] <= dep[asked[j]]
    BY <1>2, <1>3, <1>12 DEF NearFirst
  <2>2. asked[i] \in c.queued /\ asked[j] \in c.queued
    <3>1. i \in DOMAIN asked /\ j \in DOMAIN asked
      BY <1>3
    <3>2. asked[i] \in Range(asked) /\ asked[j] \in Range(asked)
      BY <3>1 DEF Range
    <3>3. Range(asked) \subseteq c.queued
      BY <1>6, <1>10
    <3> QED BY <3>2, <3>3
  <2>3. dep[asked[j]] <= n
    BY <1>4, <1>12 DEF Known
  <2>4. dep[asked[i]] <= n /\ n \in Nat
    BY <1>8, <2>1, <2>2, <2>3
  <2> QED BY <1>4, <2>2, <2>4 DEF Known
<1>13. \A i \in DOMAIN asked, j \in DOMAIN asked, n \in 0..MaxDepth : i < j /\ asked[j] \in near[n] => asked[i] \in near[n]
  BY <1>3, <1>12
<1>14. /\ Len(asked) <= MaxPages /\ Cardinality(Range(asked)) = Len(asked)
       /\ Range(asked) \subseteq near[MaxDepth]
       /\ Len(asked) < MaxPages => Range(asked) = near[MaxDepth]
  BY <1>3, <1>9, <1>10, <1>11
<1> QED BY <1>13, <1>14 DEF CrawlIsExact, asked, near

-----------------------------------------------------------------------------
(* The invariant of the scouts and of the plan.                            *)
LEMMA MaxIn ==
  ASSUME NEW n \in Nat, NEW S, S \subseteq 1..n, S # {}
  PROVE  Max(S) \in S /\ \A y \in S : Max(S) >= y
<1> DEFINE T == {n - i : i \in S}
<1>1. T \subseteq Nat /\ T # {}
  <2>1. \A i \in S : i \in Nat /\ i <= n /\ n - i \in Nat
    OBVIOUS
  <2> QED BY <2>1
<1>2. PICK m \in T : \A k \in T : m <= k
  <2> HIDE DEF T
  <2> QED BY <1>1, LeastOf
<1>3. PICK x \in S : m = n - x
  BY <1>2
<1>4. \A y \in S : x >= y
  <2> TAKE y \in S
  <2>1. n - x <= n - y /\ x \in Nat /\ y \in Nat
    BY <1>2, <1>3
  <2> QED BY <2>1
<1> QED BY <1>3, <1>4 DEF Max

Merged(seen) == Gathered(AddEndpoint, <<>>, seen)
Downs == {{}} \cup {{u} : u \in Probed}
ReconRecords == [hints : {<<>>, Hints}, tech : SUBSET (UNION {TechOf[u] : u \in Urls}), ports : BOOLEAN,
                 found : EndpointMaps]
SurveyTypes ==
  /\ scoutPc \in [Scouts -> ScoutPC] /\ crawl \in [Scouts -> Crawls] /\ recon \in [Scouts -> ReconRecords]
  /\ scoutRow \in [Scouts -> {"none", "PENDING", "RUNNING", "COMPLETED", "FAILED"}]
  /\ scoutTables \in [Scouts -> SUBSET ReconTables] /\ scoutOrder \in Seq(Scouts)

(* What a scout that is at pc has crawled, merged and written.             *)
CrawlingBegun == {"crawl", "fingerprint", "ports", "discover", "surface"}
ScoutRight(pc_, c, r, row_, tables) ==
  /\ pc_ \in {"idle", "create", "mark"} => c.fetched = {} /\ c.pages = <<>>
  /\ pc_ \in CrawlingBegun => CrawlRight(c)
  /\ pc_ \in CrawlingBegun \ {"crawl"} => c.queue = <<>> \/ Len(c.pages) >= MaxPages
  /\ pc_ = "surface" => \E down \in Downs : r.found = Merged(Sightings(c.pages, r.hints, down))
  /\ pc_ = "technologies" => {"surface"} \subseteq tables
  /\ pc_ = "ports table" => {"surface", "technologies"} \subseteq tables
  /\ pc_ = "services" => ReconTables \ {"services"} \subseteq tables
  /\ pc_ \in {"complete", "done"} => ReconTables \subseteq tables
  /\ row_ = "COMPLETED" <=> pc_ = "done"
ScoutAt(s) == ScoutRight(scoutPc[s], crawl[s], recon[s], scoutRow[s], scoutTables[s])

SurveyOf(s) == {e \in Range(recon[s].found) : e.url \notin External}
Grounded(s, surface) ==
  /\ s # NoScout => s \in Scouts /\ scoutPc[s] = "done" /\ surface = SurveyOf(s)
  /\ s = NoScout => surface = {}
Profiled(s, tech) ==
  /\ s # NoScout => s \in Scouts /\ scoutPc[s] = "done" /\ tech = recon[s].tech
  /\ s = NoScout => tech = {}
InTurn(s, t) == s # NoScout => t # NoScout /\ NotBefore(s, t)
PlanHas(p) ==
  /\ Grounded(p.scout, p.surface) /\ Profiled(p.profile, p.tech) /\ InTurn(p.scout, p.profile)
  /\ \E tech : p.targets = PlanTargets(p.surface, tech)
PlanAt ==
  /\ Grounded(planRead.scout, planRead.surface)
  /\ InTurn(planRead.scout, planRead.scout)
  /\ planPc = "save" => Profiled(planRead.profile, planRead.tech) /\ InTurn(planRead.scout, planRead.profile)
  /\ DOMAIN planRead = {"scout", "surface", "profile", "tech"}
  /\ \A p \in plans : PlanHas(p)
SurveyInv == SurveyTypes /\ (\A s \in Scouts : ScoutAt(s)) /\ PlanAt

LEMMA SurveyFollows == SurveyInv => SurveyIsExact
<1> SUFFICES ASSUME SurveyInv PROVE SurveyIsExact
  OBVIOUS
<1>1. ASSUME NEW s \in Scouts, scoutPc[s] \in {"fingerprint", "surface"} PROVE CrawlIsExact(s)
  <2>1. CrawlRight(crawl[s]) /\ CrawlOver(s)
    BY <1>1 DEF SurveyInv, ScoutAt, ScoutRight, CrawlingBegun, CrawlOver
  <2> QED BY <2>1, CrawlExact
<1>2. ASSUME NEW s \in Scouts, scoutPc[s] = "surface"
      PROVE  \E seen \in {Sightings(crawl[s].pages, recon[s].hints, down) : down \in {{}} \cup {{u} : u \in Probed}} :
               SurfaceIsExact(s, seen)
  <2>1. PICK down \in Downs : recon[s].found = Merged(Sightings(crawl[s].pages, recon[s].hints, down))
    BY <1>2 DEF SurveyInv, ScoutAt, ScoutRight
  <2>2. crawl[s].pages \in Seq(CrawledPages)
    <3>1. crawl[s] \in Crawls
      BY DEF SurveyInv, SurveyTypes
    <3> QED BY <3>1, CrawlIs
  <2>3. recon[s].hints \in {<<>>, Hints}
    <3>1. recon[s] \in ReconRecords
      BY DEF SurveyInv, SurveyTypes
    <3> QED BY <3>1 DEF ReconRecords
  <2> DEFINE seen == Sightings(crawl[s].pages, recon[s].hints, down)
  <2>4. seen \in Seq(Sighted)
    BY <2>2, <2>3, SightingsAre
  <2>5. SurfaceIsExact(s, seen)
    <3> HIDE DEF seen
    <3>1. recon[s].found = Gathered(AddEndpoint, <<>>, seen)
      BY <2>1 DEF Merged, seen
    <3> QED BY <2>4, <3>1, SurfaceIs
  <2> QED BY <2>5 DEF Downs
<1>3. ReconIsExact
  BY <1>1, <1>2 DEF ReconIsExact
<1>4. PlanIsGrounded
  <2> SUFFICES ASSUME NEW p \in plans
               PROVE  /\ \A s \in {p.scout, p.profile} \ {NoScout} :
                           scoutRow[s] = "COMPLETED" /\ scoutTables[s] = ReconTables
                      /\ p.surface = IF p.scout = NoScout THEN {} ELSE SurveyOf(p.scout)
                      /\ p.tech = IF p.profile = NoScout THEN {} ELSE recon[p.profile].tech
                      /\ p.scout # NoScout => p.profile # NoScout /\ NotBefore(p.scout, p.profile)
                      /\ {t.endpoint : t \in p.targets} \subseteq {EndpointKey(e) : e \in p.surface}
    BY DEF PlanIsGrounded, SurveyOf
  <2>1. PlanHas(p)
    BY DEF SurveyInv, PlanAt
  <2>2. PICK tech : p.targets = PlanTargets(p.surface, tech)
    BY <2>1 DEF PlanHas
  <2>3. ASSUME NEW t \in p.targets PROVE \E e \in p.surface : t.endpoint = EndpointKey(e)
    BY <2>2, <2>3 DEF PlanTargets
  <2>4. ASSUME NEW s \in Scouts, scoutPc[s] = "done"
        PROVE  scoutRow[s] = "COMPLETED" /\ scoutTables[s] = ReconTables
    <3>1. ScoutAt(s) /\ scoutTables[s] \subseteq ReconTables
      BY DEF SurveyInv, SurveyTypes
    <3> QED BY <2>4, <3>1 DEF ScoutAt, ScoutRight
  <2>5. ASSUME NEW s \in {p.scout, p.profile} \ {NoScout} PROVE s \in Scouts /\ scoutPc[s] = "done"
    BY <2>1, <2>5 DEF PlanHas, Grounded, Profiled
  <2>6. /\ p.surface = IF p.scout = NoScout THEN {} ELSE SurveyOf(p.scout)
        /\ p.tech = IF p.profile = NoScout THEN {} ELSE recon[p.profile].tech
        /\ p.scout # NoScout => p.profile # NoScout /\ NotBefore(p.scout, p.profile)
    BY <2>1 DEF PlanHas, Grounded, Profiled, InTurn
  <2> QED BY <2>3, <2>4, <2>5, <2>6
<1> QED BY <1>3, <1>4 DEF SurveyIsExact

LEMMA SurveyStarts == ReconInit => SurveyInv
<1> SUFFICES ASSUME ReconInit PROVE SurveyInv
  OBVIOUS
<1> DEFINE c == [queue |-> <<>>, fetched |-> {}, queued |-> {}, pages |-> <<>>]
           r == [hints |-> <<>>, tech |-> {}, ports |-> FALSE, found |-> <<>>]
<1>1. c \in Crawls /\ c.fetched = {} /\ c.pages = <<>>
  BY DEF Crawls
<1>2. r \in ReconRecords
  <2>1. <<>> \in EndpointMaps
    <3> <<>> \in [{} -> Sighted]
      OBVIOUS
    <3> QED BY DEF EndpointMaps
  <2> QED BY <2>1 DEF ReconRecords
<1>3. crawl = [s \in Scouts |-> c] /\ recon = [s \in Scouts |-> r] /\ plans = {}
  BY DEF ReconInit, ScoutInit
<1> HIDE DEF c, r
<1>4. SurveyTypes
  <2>1. crawl \in [Scouts -> Crawls] /\ recon \in [Scouts -> ReconRecords]
    BY <1>1, <1>2, <1>3
  <2>2. scoutPc \in [Scouts -> ScoutPC]
    BY DEF ReconInit, ScoutInit, ScoutPC
  <2>3. scoutRow \in [Scouts -> {"none", "PENDING", "RUNNING", "COMPLETED", "FAILED"}]
    BY DEF ReconInit, ScoutInit
  <2>4. scoutTables \in [Scouts -> SUBSET ReconTables] /\ scoutOrder \in Seq(Scouts)
    BY DEF ReconInit, ScoutInit
  <2> QED BY <2>1, <2>2, <2>3, <2>4 DEF SurveyTypes
<1>5. ASSUME NEW s \in Scouts PROVE ScoutAt(s)
  <2>1. scoutPc[s] = "idle" /\ crawl[s] = c /\ scoutRow[s] = "none"
    BY <1>3 DEF ReconInit, ScoutInit
  <2> QED BY <1>1, <2>1 DEF ScoutAt, ScoutRight, CrawlingBegun
<1>6. PlanAt
  BY <1>3 DEF ReconInit, PlanAt, Grounded, InTurn
<1> QED BY <1>4, <1>5, <1>6 DEF SurveyInv

(* A step of a scout changes its own entries only, and no scout that is    *)
(* done makes one.                                                         *)
LEMMA OnlyItsOwn ==
  ASSUME SurveyTypes, NEW s \in Scouts, ScoutStep(s), NEW t \in Scouts, t # s
  PROVE  /\ scoutPc'[t] = scoutPc[t] /\ crawl'[t] = crawl[t] /\ recon'[t] = recon[t]
         /\ scoutRow'[t] = scoutRow[t] /\ scoutTables'[t] = scoutTables[t]
<1>1. CASE StartScout(s) \/ CreateScoutScan(s) \/ CompleteScoutScan(s) \/ FailScout(s)
  <2>1. scoutPc'[t] = scoutPc[t]
    BY <1>1 DEF SurveyTypes, StartScout, CreateScoutScan, CompleteScoutScan, FailScout, Scouting
  <2>2. scoutRow'[t] = scoutRow[t]
    BY <1>1 DEF SurveyTypes, StartScout, CreateScoutScan, CompleteScoutScan, FailScout
  <2>3. UNCHANGED <<crawl, recon, scoutTables>>
    BY <1>1 DEF StartScout, CreateScoutScan, CompleteScoutScan, FailScout
  <2> QED BY <2>1, <2>2, <2>3
<1>6. CASE StoreTable(s)
  BY <1>6 DEF SurveyTypes, StoreTable, Scouting
<1>2. CASE MarkScoutRunning(s)
  BY <1>2 DEF SurveyTypes, MarkScoutRunning, Scouting
<1>3. CASE FetchPage(s)
  BY <1>3 DEF SurveyTypes, FetchPage, Scouting
<1>4. CASE ReadRobots(s) \/ Fingerprint(s) \/ ScanPorts(s)
  BY <1>4 DEF SurveyTypes, ReadRobots, Fingerprint, ScanPorts, Phase, Scouting
<1>5. CASE Discover(s)
  BY <1>5 DEF SurveyTypes, Discover, Scouting
<1> QED BY <1>1, <1>2, <1>3, <1>4, <1>5, <1>6 DEF ScoutStep

LEMMA NoneIsDone ==
  ASSUME NEW s \in Scouts, ScoutStep(s)
  PROVE  scoutPc[s] # "done"
BY DEF ScoutStep, StartScout, CreateScoutScan, MarkScoutRunning, FetchPage, ReadRobots, Fingerprint, ScanPorts,
       Discover, StoreTable, CompleteScoutScan, FailScout, Phase, Scouting, ReconTables

LEMMA RowSteps ==
  ASSUME SurveyTypes, NEW s \in Scouts, ScoutAt(s),
         StartScout(s) \/ CreateScoutScan(s) \/ CompleteScoutScan(s) \/ FailScout(s)
  PROVE  SurveyTypes' /\ ScoutAt(s)'
<1>1. CASE StartScout(s)
  BY <1>1 DEF SurveyTypes, ScoutAt, ScoutRight, CrawlingBegun, StartScout, Scouting, ScoutPC
<1>2. CASE CreateScoutScan(s)
  <2>1. scoutPc' \in [Scouts -> ScoutPC]
    BY <1>2 DEF SurveyTypes, CreateScoutScan, Scouting, ScoutPC
  <2>2. scoutRow' \in [Scouts -> {"none", "PENDING", "RUNNING", "COMPLETED", "FAILED"}]
    BY <1>2 DEF SurveyTypes, CreateScoutScan
  <2>3. scoutOrder' \in Seq(Scouts)
    <3>1. scoutOrder \in Seq(Scouts)
      BY DEF SurveyTypes
    <3>2. scoutOrder' = scoutOrder \/ scoutOrder' = Append(scoutOrder, s)
      BY <1>2 DEF CreateScoutScan
    <3> QED BY <3>1, <3>2
  <2>4. UNCHANGED <<crawl, recon, scoutTables>>
    BY <1>2 DEF CreateScoutScan
  <2>5. SurveyTypes'
    BY <2>1, <2>2, <2>3, <2>4 DEF SurveyTypes
  <2>6. scoutPc[s] = "create" /\ scoutPc'[s] \in {"mark", "raised"}
    BY <1>2 DEF SurveyTypes, CreateScoutScan, Scouting
  <2>7. scoutRow'[s] # "COMPLETED"
    BY <1>2, <2>6 DEF SurveyTypes, CreateScoutScan, ScoutAt, ScoutRight
  <2> QED BY <2>4, <2>5, <2>6, <2>7 DEF ScoutAt, ScoutRight, CrawlingBegun
<1>3. CASE CompleteScoutScan(s)
  BY <1>3 DEF SurveyTypes, ScoutAt, ScoutRight, CrawlingBegun, CompleteScoutScan, Scouting, ScoutPC
<1>4. CASE FailScout(s)
  BY <1>4 DEF SurveyTypes, ScoutAt, ScoutRight, CrawlingBegun, FailScout, Scouting, ScoutPC
<1> QED BY <1>1, <1>2, <1>3, <1>4

LEMMA MarkStep ==
  ASSUME SurveyTypes, NEW s \in Scouts, ScoutAt(s), MarkScoutRunning(s)
  PROVE  SurveyTypes' /\ ScoutAt(s)'
<1> DEFINE new == [crawl[s] EXCEPT !.queue = <<[url |-> Root, depth |-> 0]>>, !.queued = {Root}]
<1>0. scoutPc[s] = "mark" /\ crawl[s].fetched = {} /\ crawl[s].pages = <<>> /\ crawl[s] \in Crawls
  BY DEF MarkScoutRunning, Scouting, ScoutAt, ScoutRight, SurveyTypes
<1>1. CrawlRight(new)
  BY <1>0, CrawlBegins
<1>2. CASE /\ Scouting(s, "mark", "crawl") /\ scoutRow' = [scoutRow EXCEPT ![s] = "RUNNING"]
           /\ crawl' = [crawl EXCEPT ![s].queue = <<[url |-> Root, depth |-> 0]>>, ![s].queued = {Root}]
           /\ UNCHANGED <<recon, scoutTables, scoutOrder>>
  <2>1. crawl' = [crawl EXCEPT ![s] = new]
    BY <1>2 DEF SurveyTypes, Crawls
  <2> HIDE DEF new
  <2>2. new \in Crawls
    BY <1>1 DEF CrawlRight
  <2>3. SurveyTypes'
    BY <1>2, <2>1, <2>2 DEF SurveyTypes, Scouting, ScoutPC
  <2>4. scoutPc'[s] = "crawl" /\ crawl'[s] = new /\ scoutRow'[s] = "RUNNING"
    BY <1>2, <2>1 DEF SurveyTypes, Scouting
  <2> QED BY <1>1, <2>3, <2>4 DEF ScoutAt, ScoutRight, CrawlingBegun
<1>3. CASE Scouting(s, "mark", "raised") /\ UNCHANGED <<scoutRow, crawl, recon, scoutTables, scoutOrder>>
  BY <1>3 DEF SurveyTypes, ScoutAt, ScoutRight, CrawlingBegun, Scouting, ScoutPC
<1> QED BY <1>2, <1>3 DEF MarkScoutRunning


LEMMA CrawlStep ==
  ASSUME SurveyTypes, NEW s \in Scouts, ScoutAt(s), Scouting(s, "crawl", "crawl"),
         NEW new, CrawlRight(new), crawl' = [crawl EXCEPT ![s] = new],
         UNCHANGED <<recon, scoutRow, scoutTables, scoutOrder>>
  PROVE  SurveyTypes' /\ ScoutAt(s)'
<1>1. new \in Crawls
  BY DEF CrawlRight
<1>2. scoutPc[s] = "crawl" /\ scoutPc'[s] = "crawl" /\ scoutPc' \in [Scouts -> ScoutPC]
  BY DEF SurveyTypes, Scouting, ScoutPC
<1>3. crawl' \in [Scouts -> Crawls] /\ crawl'[s] = new
  BY <1>1 DEF SurveyTypes
<1>4. SurveyTypes'
  BY <1>2, <1>3 DEF SurveyTypes
<1>5. ScoutAt(s)'
  BY <1>2, <1>3 DEF ScoutAt, ScoutRight, CrawlingBegun
<1> QED BY <1>4, <1>5

LEMMA FetchStep ==
  ASSUME SurveyTypes, NEW s \in Scouts, ScoutAt(s), FetchPage(s)
  PROVE  SurveyTypes' /\ ScoutAt(s)'
<1> DEFINE c == crawl[s]
           next == Head(c.queue)
           at == RedirectTo[next.url]
           popped == [c EXCEPT !.queue = Tail(@), !.fetched = @ \cup {next.url}]
           Page(url, status) == [asked |-> next.url, url |-> url, status |-> status]
           Answered == [popped EXCEPT !.pages = Append(@, Page(at, StatusOf(at)))]
           Silent == [popped EXCEPT !.pages = Append(@, Page(next.url, "none"))]
           Visited(page) == [c EXCEPT !.queue = Tail(c.queue), !.fetched = c.fetched \cup {next.url},
                                      !.pages = Append(c.pages, page)]
<1>1. /\ scoutPc[s] = "crawl" /\ Scouting(s, "crawl", "crawl") /\ c.queue # <<>> /\ ~(Len(c.pages) >= MaxPages)
      /\ UNCHANGED <<recon, scoutRow, scoutTables, scoutOrder>>
  BY DEF FetchPage, Scouting, CrawlOver
<1>2. CrawlRight(c) /\ c \in Crawls
  BY <1>1 DEF ScoutAt, ScoutRight, CrawlingBegun, CrawlRight
<1>3. next.url \in Urls /\ at \in Urls /\ StatusOf(at) \in Statuses /\ StatusOf(at) # "none"
  <2>1. c.queue \in Seq(Waiting)
    BY <1>2, CrawlIs
  <2>2. next \in Waiting
    BY <1>1, <2>1
  <2>3. next.url \in Urls
    BY <2>2 DEF Waiting
  <2>4. RedirectTo[next.url] \in Urls
    BY <2>3, ReconAssumption
  <2> QED BY <2>3, <2>4 DEF StatusOf, Statuses
<1>4. ASSUME NEW url, NEW status PROVE [popped EXCEPT !.pages = Append(@, Page(url, status))] = Visited(Page(url, status))
  BY <1>2 DEF Crawls
<1>5. \/ \E new \in {Enqueued(Answered, at, next.depth)} : crawl' = [crawl EXCEPT ![s] = new]
      \/ crawl' = [crawl EXCEPT ![s] = Silent]
  BY DEF FetchPage
<1>6. CASE \E new \in {Enqueued(Answered, at, next.depth)} : crawl' = [crawl EXCEPT ![s] = new]
  <2> DEFINE page == Page(at, StatusOf(at))
             e == Visited(page)
             new == Enqueued(e, at, next.depth)
  <2>1. Answered = e
    BY <1>4
  <2> HIDE DEF popped, Answered, next, at
  <2>2. crawl' = [crawl EXCEPT ![s] = new]
    BY <1>6, <2>1
  <2>3. CrawlRight(Enqueued(e, at, next.depth))
    BY <1>1, <1>2, <1>3, FetchGoes DEF next
  <2> HIDE DEF new, c
  <2>4. CrawlRight(new)
    BY <2>3 DEF new
  <2> QED BY <1>1, <2>2, <2>4, CrawlStep
<1>7. CASE crawl' = [crawl EXCEPT ![s] = Silent]
  <2> DEFINE e == Visited(Page(next.url, "none"))
  <2>1. Silent = e
    BY <1>4
  <2> HIDE DEF popped, Silent, next
  <2>2. crawl' = [crawl EXCEPT ![s] = e]
    BY <1>7, <2>1
  <2>3. "none" \in Statuses
    BY DEF Statuses
  <2>4. CrawlRight(e)
    BY <1>1, <1>2, <1>3, <2>3, FetchGoes DEF next
  <2> HIDE DEF e, c
  <2> QED BY <1>1, <2>2, <2>4, CrawlStep
<1> QED BY <1>5, <1>6, <1>7


(* The phases behind the crawl keep what it has found.                     *)
PhaseEnds(s, from, to, r) ==
  /\ \/ from = "crawl" /\ to = "fingerprint" /\ CrawlOver(s)
     \/ from = "fingerprint" /\ to = "ports"
     \/ from = "ports" /\ to = "discover"
     \/ /\ from = "discover" /\ to = "surface"
        /\ \E down \in Downs : r.found = Merged(Sightings(crawl[s].pages, r.hints, down))
  /\ Scouting(s, from, to) /\ recon' = [recon EXCEPT ![s] = r]
  /\ UNCHANGED <<crawl, scoutRow, scoutTables, scoutOrder>>
LEMMA PhaseStep ==
  ASSUME SurveyTypes, NEW s \in Scouts, ScoutAt(s), NEW from, NEW to, NEW r \in ReconRecords, PhaseEnds(s, from, to, r)
  PROVE  SurveyTypes' /\ ScoutAt(s)'
<1>0. /\ Scouting(s, from, to) /\ recon' = [recon EXCEPT ![s] = r]
      /\ UNCHANGED <<crawl, scoutRow, scoutTables, scoutOrder>>
      /\ to \in {"fingerprint", "ports", "discover", "surface"} /\ from \in CrawlingBegun \ {"surface"}
      /\ from = "crawl" => CrawlOver(s)
      /\ to = "surface" => \E down \in Downs : r.found = Merged(Sightings(crawl[s].pages, r.hints, down))
  BY DEF PhaseEnds, CrawlingBegun
<1>1. scoutPc[s] = from /\ scoutPc'[s] = to /\ scoutPc' \in [Scouts -> ScoutPC]
  BY <1>0 DEF SurveyTypes, Scouting, ScoutPC
<1>2. recon' \in [Scouts -> ReconRecords] /\ recon'[s] = r
  BY <1>0 DEF SurveyTypes
<1>3. SurveyTypes'
  BY <1>0, <1>1, <1>2 DEF SurveyTypes
<1>4. /\ CrawlRight(crawl[s]) /\ (crawl[s].queue = <<>> \/ Len(crawl[s].pages) >= MaxPages)
      /\ scoutRow[s] # "COMPLETED"
  BY <1>0, <1>1 DEF ScoutAt, ScoutRight, CrawlingBegun, CrawlOver
<1>5. to \in CrawlingBegun \ {"crawl"} /\ to \notin {"idle", "create", "mark"} \cup (ReconTables \ {"surface"})
      /\ to \notin {"complete", "done"}
  BY <1>0 DEF CrawlingBegun, ReconTables
<1>6. ScoutRight(to, crawl[s], r, scoutRow[s], scoutTables[s])
  BY <1>0, <1>4, <1>5 DEF ScoutRight, ReconTables
<1>7. ScoutAt(s)'
  BY <1>0, <1>1, <1>2, <1>6 DEF ScoutAt
<1> QED BY <1>3, <1>7

LEMMA ReadStep ==
  ASSUME SurveyTypes, NEW s \in Scouts, ScoutAt(s), ReadRobots(s) \/ Fingerprint(s) \/ ScanPorts(s)
  PROVE  SurveyTypes' /\ ScoutAt(s)'
<1>1. recon[s] \in ReconRecords /\ crawl[s] \in Crawls
  BY DEF SurveyTypes
<1>2. ASSUME NEW from, NEW to, NEW good \in ReconRecords, NEW bad \in ReconRecords, Phase(s, from, to, good, bad),
             <<from, to>> \in {<<"crawl", "fingerprint">>, <<"fingerprint", "ports">>, <<"ports", "discover">>},
             from = "crawl" => CrawlOver(s)
      PROVE  SurveyTypes' /\ ScoutAt(s)'
  <2>1. /\ Scouting(s, from, to) /\ to # "surface" /\ UNCHANGED <<crawl, scoutRow, scoutTables, scoutOrder>>
        /\ recon' = [recon EXCEPT ![s] = good] \/ recon' = [recon EXCEPT ![s] = bad]
    BY <1>2 DEF Phase
  <2>2. ASSUME NEW r \in ReconRecords, recon' = [recon EXCEPT ![s] = r] PROVE SurveyTypes' /\ ScoutAt(s)'
    <3>1. PhaseEnds(s, from, to, r)
      BY <1>2, <2>1, <2>2 DEF PhaseEnds
    <3> QED BY <2>2, <3>1, PhaseStep
  <2> QED BY <1>2, <2>1, <2>2
<1>3. CASE ReadRobots(s)
  <2>1. [recon[s] EXCEPT !.hints = Hints] \in ReconRecords
    BY <1>1 DEF ReconRecords
  <2> QED BY <1>1, <1>2, <1>3, <2>1 DEF ReadRobots
<1>4. CASE Fingerprint(s)
  <2> DEFINE up == {p \in ToSet(crawl[s].pages) : p.status # "none"}
             T == UNION {TechOf[p.url] : p \in up}
  <2>1. \A p \in up : p.url \in Urls
    <3>1. DOMAIN crawl[s].pages = 1..Len(crawl[s].pages)
      BY <1>1, CrawlIs
    <3> QED BY <1>1, <3>1, CrawlIs DEF ToSet
  <2>2. T \in SUBSET (UNION {TechOf[u] : u \in Urls})
    <3> HIDE DEF up
    <3> QED BY <2>1
  <2>3. Phase(s, "fingerprint", "ports", [recon[s] EXCEPT !.tech = T], recon[s])
    BY <1>4 DEF Fingerprint
  <2> HIDE DEF T
  <2>4. [recon[s] EXCEPT !.tech = T] \in ReconRecords
    BY <1>1, <2>2 DEF ReconRecords
  <2> QED BY <1>1, <1>2, <2>3, <2>4
<1>5. CASE ScanPorts(s)
  <2>1. [recon[s] EXCEPT !.ports = TRUE] \in ReconRecords
    BY <1>1 DEF ReconRecords
  <2> QED BY <1>1, <1>2, <1>5, <2>1 DEF ScanPorts
<1> QED BY <1>3, <1>4, <1>5

LEMMA DiscoverStep ==
  ASSUME SurveyTypes, NEW s \in Scouts, ScoutAt(s), Discover(s)
  PROVE  SurveyTypes' /\ ScoutAt(s)'
<1>1. recon[s] \in ReconRecords /\ crawl[s] \in Crawls /\ recon \in [Scouts -> ReconRecords]
  BY DEF SurveyTypes
<1>2. Scouting(s, "discover", "surface") /\ UNCHANGED <<crawl, scoutRow, scoutTables, scoutOrder>>
  BY DEF Discover
<1>3. PICK down \in Downs :
        \E seen \in {Sightings(crawl[s].pages, recon[s].hints, down)} :
          \E found \in {Gathered(AddEndpoint, <<>>, seen)} : recon' = [recon EXCEPT ![s].found = found]
  BY DEF Discover, Downs
<1> DEFINE seen == Sightings(crawl[s].pages, recon[s].hints, down)
           found == Merged(seen)
           r == [recon[s] EXCEPT !.found = found]
<1>4. recon' = [recon EXCEPT ![s].found = found]
  BY <1>3 DEF Merged
<1>5. found \in EndpointMaps
  <2>1. crawl[s].pages \in Seq(CrawledPages) /\ recon[s].hints \in {<<>>, Hints}
    BY <1>1, CrawlIs DEF ReconRecords
  <2>2. seen \in Seq(Sighted)
    BY <2>1, SightingsAre
  <2> HIDE DEF seen
  <2> QED BY <2>2, MergedIs DEF Merged
<1>6. seen = Sightings(crawl[s].pages, recon[s].hints, down)
  OBVIOUS
<1>7. found = Merged(Sightings(crawl[s].pages, recon[s].hints, down))
  OBVIOUS
<1> HIDE DEF seen, found
<1>8. recon' = [recon EXCEPT ![s] = r]
  BY <1>4
<1>9. r \in ReconRecords /\ r.found = found /\ r.hints = recon[s].hints
  BY <1>1, <1>5 DEF ReconRecords
<1> HIDE DEF r
<1>10. \E d \in Downs : r.found = Merged(Sightings(crawl[s].pages, r.hints, d))
  BY <1>7, <1>9
<1>11. PhaseEnds(s, "discover", "surface", r)
  BY <1>2, <1>8, <1>10 DEF PhaseEnds
<1> QED BY <1>9, <1>11, PhaseStep

(* The tables are written in their order.                                  *)
LEMMA TablesStep ==
  ASSUME SurveyTypes, NEW s \in Scouts, ScoutAt(s), StoreTable(s)
  PROVE  SurveyTypes' /\ ScoutAt(s)'
<1> DEFINE from == scoutPc[s]
<1>1. from \in ReconTables /\ UNCHANGED <<crawl, recon, scoutRow, scoutOrder>> /\ scoutRow[s] # "COMPLETED"
  BY DEF StoreTable, ReconTables, ScoutAt, ScoutRight
<1>2. CASE Scouting(s, scoutPc[s], "failing") /\ UNCHANGED scoutTables
  <2>1. scoutPc'[s] = "failing" /\ scoutPc' \in [Scouts -> ScoutPC]
    BY <1>2 DEF SurveyTypes, Scouting, ScoutPC
  <2>2. SurveyTypes'
    BY <1>1, <1>2, <2>1 DEF SurveyTypes
  <2>3. ScoutAt(s)'
    BY <1>1, <1>2, <2>1 DEF ScoutAt, ScoutRight, CrawlingBegun
  <2> QED BY <2>2, <2>3
<1>3. CASE /\ Scouting(s, scoutPc[s], AfterTable[scoutPc[s]])
           /\ scoutTables' = [scoutTables EXCEPT ![s] = @ \cup {scoutPc[s]}]
  <2> DEFINE to == AfterTable[from]
             tables == scoutTables[s] \cup {from}
  <2>1. /\ from = "surface" => to = "technologies"
        /\ from = "technologies" => to = "ports table"
        /\ from = "ports table" => to = "services"
        /\ from = "services" => to = "complete"
    BY <1>1 DEF AfterTable, ReconTables
  <2>2. scoutPc'[s] = to /\ to \in {"technologies", "ports table", "services", "complete"}
    BY <1>1, <1>3, <2>1 DEF SurveyTypes, Scouting, ReconTables
  <2>3. scoutPc' \in [Scouts -> ScoutPC]
    BY <1>3, <2>2 DEF SurveyTypes, Scouting, ScoutPC
  <2>4. scoutTables' \in [Scouts -> SUBSET ReconTables] /\ scoutTables'[s] = tables
    BY <1>1, <1>3 DEF SurveyTypes
  <2>5. SurveyTypes'
    BY <1>1, <2>3, <2>4 DEF SurveyTypes
  <2>6. /\ to = "technologies" => {"surface"} \subseteq tables
        /\ to = "ports table" => {"surface", "technologies"} \subseteq tables
        /\ to = "services" => ReconTables \ {"services"} \subseteq tables
        /\ to = "complete" => ReconTables \subseteq tables
    <3>1. /\ from = "technologies" => {"surface"} \subseteq scoutTables[s]
          /\ from = "ports table" => {"surface", "technologies"} \subseteq scoutTables[s]
          /\ from = "services" => ReconTables \ {"services"} \subseteq scoutTables[s]
      BY DEF ScoutAt, ScoutRight
    <3> HIDE DEF to
    <3> QED BY <1>1, <2>1, <2>2, <3>1 DEF ReconTables
  <2> HIDE DEF to, tables
  <2>7. ScoutRight(to, crawl[s], recon[s], scoutRow[s], tables)
    BY <1>1, <2>2, <2>6 DEF ScoutRight, CrawlingBegun
  <2>8. ScoutAt(s)'
    BY <1>1, <2>2, <2>4, <2>7 DEF ScoutAt
  <2> QED BY <2>5, <2>8
<1> QED BY <1>2, <1>3 DEF StoreTable

(* A scout that starts comes after all there are.                          *)
LEMMA OrderStays ==
  ASSUME SurveyTypes, NEW s \in Scouts, ScoutStep(s), NEW x, NEW y, InTurn(x, y)
  PROVE  InTurn(x, y)'
<1>1. scoutOrder \in Seq(Scouts)
  BY DEF SurveyTypes
<1>2. scoutOrder' = scoutOrder \/ scoutOrder' = Append(scoutOrder, s)
  <2>1. CASE CreateScoutScan(s)
    BY <2>1 DEF CreateScoutScan
  <2>2. CASE ReadRobots(s) \/ Fingerprint(s) \/ ScanPorts(s)
    BY <2>2 DEF ReadRobots, Fingerprint, ScanPorts, Phase
  <2>3. CASE StartScout(s) \/ MarkScoutRunning(s) \/ FetchPage(s) \/ Discover(s) \/ StoreTable(s)
             \/ CompleteScoutScan(s) \/ FailScout(s)
    BY <2>3 DEF StartScout, MarkScoutRunning, FetchPage, Discover, StoreTable, CompleteScoutScan, FailScout
  <2> QED BY <2>1, <2>2, <2>3 DEF ScoutStep
<1>3. \A i \in DOMAIN scoutOrder : i \in DOMAIN scoutOrder' /\ scoutOrder'[i] = scoutOrder[i]
  BY <1>1, <1>2
<1> QED BY <1>3 DEF InTurn, NotBefore

LEMMA ScoutKeeps ==
  ASSUME SurveyInv, NEW s \in Scouts, ScoutStep(s), UNCHANGED planVars
  PROVE  SurveyInv'
<1>1. SurveyTypes /\ (\A t \in Scouts : ScoutAt(t)) /\ PlanAt
  BY DEF SurveyInv
<1>2. SurveyTypes' /\ ScoutAt(s)'
  <2>1. CASE StartScout(s) \/ CreateScoutScan(s) \/ CompleteScoutScan(s) \/ FailScout(s)
    BY <1>1, <2>1, RowSteps
  <2>2. CASE MarkScoutRunning(s)
    BY <1>1, <2>2, MarkStep
  <2>3. CASE FetchPage(s)
    BY <1>1, <2>3, FetchStep
  <2>4. CASE ReadRobots(s) \/ Fingerprint(s) \/ ScanPorts(s)
    BY <1>1, <2>4, ReadStep
  <2>5. CASE Discover(s)
    BY <1>1, <2>5, DiscoverStep
  <2>6. CASE StoreTable(s)
    BY <1>1, <2>6, TablesStep
  <2> QED BY <2>1, <2>2, <2>3, <2>4, <2>5, <2>6 DEF ScoutStep
<1>3. \A t \in Scouts : t # s =>
        /\ scoutPc'[t] = scoutPc[t] /\ crawl'[t] = crawl[t] /\ recon'[t] = recon[t]
        /\ scoutRow'[t] = scoutRow[t] /\ scoutTables'[t] = scoutTables[t]
  BY <1>1, OnlyItsOwn
<1>4. ASSUME NEW t \in Scouts PROVE ScoutAt(t)'
  <2>1. CASE t = s
    BY <1>2, <2>1
  <2>2. CASE t # s
    BY <1>1, <1>3, <2>2 DEF ScoutAt
  <2> QED BY <2>1, <2>2
<1>5. ASSUME NEW x, NEW surface, Grounded(x, surface) PROVE Grounded(x, surface)'
  <2>1. CASE x = NoScout
    BY <1>5, <2>1 DEF Grounded
  <2>2. CASE x # NoScout
    <3>1. x \in Scouts /\ scoutPc[x] = "done" /\ surface = SurveyOf(x)
      BY <1>5, <2>2 DEF Grounded
    <3>2. x # s
      BY <3>1, NoneIsDone
    <3>3. scoutPc'[x] = scoutPc[x] /\ recon'[x] = recon[x]
      BY <1>3, <3>1, <3>2
    <3> QED BY <2>2, <3>1, <3>3 DEF Grounded, SurveyOf
  <2> QED BY <2>1, <2>2
<1>6. ASSUME NEW x, NEW tech, Profiled(x, tech) PROVE Profiled(x, tech)'
  <2>1. CASE x = NoScout
    BY <1>6, <2>1 DEF Profiled
  <2>2. CASE x # NoScout
    <3>1. x \in Scouts /\ scoutPc[x] = "done" /\ tech = recon[x].tech
      BY <1>6, <2>2 DEF Profiled
    <3>2. x # s
      BY <3>1, NoneIsDone
    <3>3. scoutPc'[x] = scoutPc[x] /\ recon'[x] = recon[x]
      BY <1>3, <3>1, <3>2
    <3> QED BY <2>2, <3>1, <3>3 DEF Profiled
  <2> QED BY <2>1, <2>2
<1>7. ASSUME NEW x, NEW y, InTurn(x, y) PROVE InTurn(x, y)'
  BY <1>1, <1>7, OrderStays
<1>8. PlanAt'
  <2>1. planRead' = planRead /\ plans' = plans /\ planPc' = planPc
    BY DEF planVars
  <2>2. Grounded(planRead.scout, planRead.surface)' /\ InTurn(planRead.scout, planRead.scout)'
    BY <1>1, <1>5, <1>7, <2>1 DEF PlanAt
  <2>3. planPc = "save" => Profiled(planRead.profile, planRead.tech)' /\ InTurn(planRead.scout, planRead.profile)'
    BY <1>1, <1>6, <1>7, <2>1 DEF PlanAt
  <2>4. ASSUME NEW p \in plans PROVE PlanHas(p)'
    BY <1>1, <1>5, <1>6, <1>7 DEF PlanAt, PlanHas
  <2>5. DOMAIN planRead' = {"scout", "surface", "profile", "tech"}
    BY <1>1, <2>1 DEF PlanAt
  <2> QED BY <2>1, <2>2, <2>3, <2>4, <2>5 DEF PlanAt
<1> QED BY <1>2, <1>4, <1>8 DEF SurveyInv

(* The latest scout is one that is done, and then has its tables; no scout *)
(* that is done was created after it.                                      *)
LEMMA LatestIs ==
  ASSUME SurveyInv, LatestScout # NoScout
  PROVE  /\ LatestScout \in Scouts /\ scoutPc[LatestScout] = "done"
         /\ {"surface", "technologies"} \subseteq scoutTables[LatestScout]
         /\ InTurn(LatestScout, LatestScout)
<1> DEFINE done == {i \in DOMAIN scoutOrder : scoutRow[scoutOrder[i]] = "COMPLETED"}
           n == Len(scoutOrder)
<1>1. scoutOrder \in Seq(Scouts) /\ n \in Nat /\ done \subseteq 1..n
  BY DEF SurveyInv, SurveyTypes
<1>2. done # {} /\ LatestScout = scoutOrder[Max(done)]
  BY DEF LatestScout
<1> HIDE DEF n
<1>3. Max(done) \in done
  <2> HIDE DEF done
  <2> QED BY <1>1, <1>2, MaxIn
<1>4. Max(done) \in 1..Len(scoutOrder) /\ Max(done) \in DOMAIN scoutOrder
  BY <1>1, <1>3 DEF n
<1>5. LatestScout \in Scouts /\ scoutRow[LatestScout] = "COMPLETED"
  <2>1. scoutRow[scoutOrder[Max(done)]] = "COMPLETED"
    BY <1>3
  <2> HIDE DEF done
  <2> QED BY <1>1, <1>2, <1>4, <2>1
<1>6. ScoutAt(LatestScout)
  BY <1>5 DEF SurveyInv
<1>7. InTurn(LatestScout, LatestScout)
  <2> HIDE DEF done
  <2> QED BY <1>2, <1>4 DEF InTurn, NotBefore
<1> HIDE DEF done
<1> QED BY <1>5, <1>6, <1>7 DEF ScoutAt, ScoutRight, ReconTables

LEMMA LatestLast ==
  ASSUME SurveyInv, NEW x \in Scouts, scoutPc[x] = "done", InTurn(x, x), x # NoScout
  PROVE  InTurn(x, LatestScout)
<1> DEFINE done == {i \in DOMAIN scoutOrder : scoutRow[scoutOrder[i]] = "COMPLETED"}
           n == Len(scoutOrder)
<1>1. scoutOrder \in Seq(Scouts) /\ n \in Nat /\ done \subseteq 1..n
  BY DEF SurveyInv, SurveyTypes
<1>2. PICK i \in DOMAIN scoutOrder : scoutOrder[i] = x
  BY DEF InTurn, NotBefore
<1>3. scoutRow[x] = "COMPLETED"
  BY DEF SurveyInv, ScoutAt, ScoutRight
<1>4. i \in done
  BY <1>2, <1>3
<1>5. LatestScout = scoutOrder[Max(done)]
  BY <1>4 DEF LatestScout
<1> HIDE DEF n
<1>6. Max(done) \in done /\ i <= Max(done)
  <2> HIDE DEF done
  <2>1. Max(done) \in done /\ Max(done) >= i
    BY <1>1, <1>4, MaxIn
  <2> QED BY <1>1, <1>4, <2>1
<1>7. Max(done) \in DOMAIN scoutOrder
  BY <1>6
<1>8. LatestScout # NoScout
  <2> HIDE DEF done
  <2> QED BY <1>1, <1>5, <1>7, ScoutsAssumption
<1> HIDE DEF done
<1> QED BY <1>2, <1>5, <1>6, <1>7, <1>8 DEF InTurn, NotBefore

LEMMA PlannerKeeps ==
  ASSUME SurveyInv, PlannerStep, UNCHANGED <<scoutPc, crawl, recon, scoutRow, scoutTables, scoutOrder>>
  PROVE  SurveyInv'
<1>1. SurveyTypes' /\ \A s \in Scouts : ScoutAt(s)'
  BY DEF SurveyInv, SurveyTypes, ScoutAt
<1>2. /\ \A x, surface : Grounded(x, surface) => Grounded(x, surface)'
      /\ \A x, tech : Profiled(x, tech) => Profiled(x, tech)'
      /\ \A x, y : InTurn(x, y) => InTurn(x, y)'
  BY DEF Grounded, Profiled, InTurn, NotBefore, SurveyOf
<1>3. PlanAt
  BY DEF SurveyInv
<1>4. ASSUME NEW p, PlanHas(p) PROVE PlanHas(p)'
  BY <1>2, <1>4 DEF PlanHas
<1>5. ASSUME UNCHANGED <<planRead, plans>>, planPc' # "save" PROVE PlanAt'
  BY <1>2, <1>3, <1>4, <1>5 DEF PlanAt
<1>6. ASSUME LoadAttackSurface /\ planPc' = "profile" PROVE PlanAt'
  <2> DEFINE surface == IF LatestScout = NoScout \/ "surface" \notin scoutTables[LatestScout] THEN {}
                        ELSE {e \in Range(recon[LatestScout].found) : e.url \notin External}
  <2>1. planRead' = [planRead EXCEPT !.scout = LatestScout, !.surface = surface] /\ plans' = plans
    BY <1>6 DEF LoadAttackSurface, PlanFails, Planning
  <2>2. Grounded(LatestScout, surface) /\ InTurn(LatestScout, LatestScout)
    BY LatestIs DEF Grounded, SurveyOf, InTurn
  <2> HIDE DEF surface
  <2>3. /\ planRead'.scout = LatestScout /\ planRead'.surface = surface
        /\ DOMAIN planRead' = {"scout", "surface", "profile", "tech"}
    BY <1>3, <2>1 DEF PlanAt
  <2>4. Grounded(planRead.scout, planRead.surface)' /\ InTurn(planRead.scout, planRead.scout)'
    BY <1>2, <2>2, <2>3
  <2> QED BY <1>3, <1>4, <1>6, <2>1, <2>3, <2>4 DEF PlanAt
<1>7. ASSUME LoadProfile /\ planPc' = "save" PROVE PlanAt'
  <2> DEFINE tech == IF LatestScout = NoScout \/ "technologies" \notin scoutTables[LatestScout] THEN {}
                     ELSE recon[LatestScout].tech
  <2>1. planRead' = [planRead EXCEPT !.profile = LatestScout, !.tech = tech] /\ plans' = plans
    BY <1>7 DEF LoadProfile, PlanFails, Planning
  <2>2. Profiled(LatestScout, tech)
    BY LatestIs DEF Profiled
  <2>3. InTurn(planRead.scout, LatestScout)
    <3>1. CASE planRead.scout = NoScout
      BY <3>1 DEF InTurn
    <3>2. CASE planRead.scout # NoScout
      BY <1>3, <3>2, LatestLast DEF PlanAt, Grounded
    <3> QED BY <3>1, <3>2
  <2> HIDE DEF tech
  <2>4. /\ planRead'.scout = planRead.scout /\ planRead'.surface = planRead.surface
        /\ planRead'.profile = LatestScout /\ planRead'.tech = tech
        /\ DOMAIN planRead' = {"scout", "surface", "profile", "tech"}
    BY <1>3, <2>1 DEF PlanAt
  <2>5. /\ Grounded(planRead.scout, planRead.surface)' /\ InTurn(planRead.scout, planRead.scout)'
        /\ Profiled(planRead.profile, planRead.tech)' /\ InTurn(planRead.scout, planRead.profile)'
    BY <1>2, <1>3, <2>2, <2>3, <2>4 DEF PlanAt
  <2> QED BY <1>3, <1>4, <2>1, <2>4, <2>5 DEF PlanAt
<1>8. ASSUME SavePlan /\ planPc' = "done" PROVE PlanAt'
  <2> DEFINE new == [scout |-> planRead.scout, surface |-> planRead.surface, profile |-> planRead.profile,
                     tech |-> planRead.tech, targets |-> PlanTargets(planRead.surface, planRead.tech)]
  <2>1. planPc = "save" /\ plans' = plans \cup {new} /\ planRead' = planRead
    BY <1>8 DEF SavePlan, Planning, PlanFails
  <2>2. PlanHas(new)
    <3>1. /\ new.scout = planRead.scout /\ new.surface = planRead.surface /\ new.profile = planRead.profile
          /\ new.tech = planRead.tech /\ new.targets = PlanTargets(planRead.surface, planRead.tech)
      OBVIOUS
    <3> HIDE DEF new
    <3> QED BY <1>3, <2>1, <3>1 DEF PlanAt, PlanHas
  <2> HIDE DEF new
  <2>3. \A p \in plans' : PlanHas(p)'
    BY <1>3, <1>4, <2>1, <2>2 DEF PlanAt
  <2> QED BY <1>2, <1>3, <1>8, <2>1, <2>3 DEF PlanAt
<1>9. PlanAt'
  <2>1. \/ UNCHANGED <<planRead, plans>> /\ planPc' # "save"
        \/ LoadAttackSurface /\ planPc' = "profile"
        \/ LoadProfile /\ planPc' = "save"
        \/ SavePlan /\ planPc' = "done"
    BY DEF PlannerStep, StartPlan, LoadStaticFindings, LoadAttackSurface, LoadProfile, SavePlan, Planning, PlanFails
  <2> QED BY <1>5, <1>6, <1>7, <1>8, <2>1
<1> QED BY <1>1, <1>9 DEF SurveyInv

LEMMA SurveySteps == SurveyInv /\ [ReconNext]_reconVars => SurveyInv'
<1> SUFFICES ASSUME SurveyInv, [ReconNext]_reconVars PROVE SurveyInv'
  OBVIOUS
<1>1. CASE ReconNext
  <2>1. CASE (\E s \in Scouts : ScoutStep(s)) /\ UNCHANGED planVars
    BY <2>1, ScoutKeeps
  <2>2. CASE PlannerStep /\ UNCHANGED <<scoutPc, crawl, recon, scoutRow, scoutTables, scoutOrder, scoutSaid>>
    BY <2>2, PlannerKeeps
  <2> QED BY <1>1, <2>1, <2>2 DEF ReconNext
<1>2. CASE UNCHANGED reconVars
  <2>1. UNCHANGED <<scoutPc, crawl, recon, scoutRow, scoutTables, scoutOrder, planPc, planRead, plans>>
    BY <1>2 DEF reconVars, scoutVars, planVars
  <2> QED BY <2>1 DEF SurveyInv, SurveyTypes, ScoutAt, PlanAt, PlanHas, Grounded, Profiled, InTurn, NotBefore, SurveyOf
<1> QED BY <1>1, <1>2

(* A crawl that is over has visited what is within its depth, near pages    *)
(* before far ones and none twice, and all of it unless it ran out of       *)
(* pages; what discover() returns is exactly what was seen, merged; and a   *)
(* plan is made from the surface of one completed scout and from all the    *)
(* technologies of one that is not older, the same or a later one, whatever *)
(* the others were writing: scout.service.ts and plan-engine.ts beside the  *)
(* scouts of the same scan, for every site, depth and number of scouts.     *)
THEOREM SurveyHolds == ReconSpec => []SurveyIsExact
<1>1. ReconSpec => []SurveyInv
  BY SurveyStarts, SurveySteps, PTL DEF ReconSpec
<1> QED BY <1>1, SurveyFollows, PTL

(* Types of the survey, and what they hide: the crawler keeps to the own    *)
(* origin, a scout has at most one row, and it tells its end at most once.  *)
SaidAt(pc_, said) ==
  /\ said \in Seq({"STARTED", "COMPLETED", "FAILED"}) /\ Len(said) <= 2
  /\ pc_ \notin {"done", "failed"} => Len(said) <= 1
  /\ pc_ = "idle" => Len(said) = 0
RowsOnce ==
  /\ IsInjective(scoutOrder)
  /\ \A i \in DOMAIN scoutOrder : scoutPc[scoutOrder[i]] \notin {"idle", "create"}
SurveyTyped ==
  /\ \A s \in Scouts : crawl[s].queued \cup crawl[s].fetched \subseteq OwnOrigin
  /\ RowsOnce /\ scoutSaid = [s \in Scouts |-> scoutSaid[s]]
  /\ \A s \in Scouts : SaidAt(scoutPc[s], scoutSaid[s])
  /\ reconFaults \in 0..MaxReconFaults /\ planPc \in PlanPC

LEMMA RightStaysHome ==
  ASSUME NEW c, CrawlRight(c)
  PROVE  c.queued \cup c.fetched \subseteq OwnOrigin
<1>1. PICK dep \in [Urls -> Nat] : Reached(c, dep, Len(c.pages))
  BY DEF CrawlRight
<1>2. ASSUME NEW v \in c.queued PROVE v \in OwnOrigin
  <2>1. CASE v = Root
    BY <2>1, ReconAssumption
  <2>2. CASE v # Root
    <3>1. PICK i \in 1..Len(c.pages) : Leads(c.pages[i], v)
      BY <1>1, <1>2, <2>2 DEF Reached
    <3> QED BY <3>1 DEF Leads, Followed
  <2> QED BY <2>1, <2>2
<1>3. c.fetched \subseteq c.queued
  BY DEF CrawlRight, VisitsOnce
<1> QED BY <1>2, <1>3

LEMMA TypedFirst == ReconInit => SurveyTyped
<1> SUFFICES ASSUME ReconInit PROVE SurveyTyped
  OBVIOUS
<1>1. /\ scoutPc = [s \in Scouts |-> "idle"] /\ scoutOrder = <<>> /\ scoutSaid = [s \in Scouts |-> <<>>]
      /\ crawl = [s \in Scouts |-> [queue |-> <<>>, fetched |-> {}, queued |-> {}, pages |-> <<>>]]
      /\ reconFaults = 0 /\ planPc = "idle"
  BY DEF ReconInit, ScoutInit
<1>2. RowsOnce
  BY <1>1 DEF RowsOnce, IsInjective
<1>3. \A s \in Scouts : SaidAt(scoutPc[s], scoutSaid[s])
  BY <1>1 DEF SaidAt
<1>4. \A s \in Scouts : crawl[s].queued \cup crawl[s].fetched \subseteq OwnOrigin
  BY <1>1
<1>5. reconFaults \in 0..MaxReconFaults /\ planPc \in PlanPC
  BY <1>1, ReconAssumption DEF PlanPC
<1> QED BY <1>1, <1>2, <1>3, <1>4, <1>5 DEF SurveyTyped

(* What a step of one scout does to its events and to the list of rows.     *)
LEMMA SaidSteps ==
  ASSUME SurveyTypes, SurveyTyped, NEW s \in Scouts, ScoutStep(s)
  PROVE  /\ scoutSaid' = [t \in Scouts |-> scoutSaid'[t]] /\ \A t \in Scouts : SaidAt(scoutPc'[t], scoutSaid'[t])
<1>1. scoutSaid = [t \in Scouts |-> scoutSaid[t]] /\ \A t \in Scouts : SaidAt(scoutPc[t], scoutSaid[t])
  BY DEF SurveyTyped
<1>2. scoutPc' = [scoutPc EXCEPT ![s] = scoutPc'[s]] /\ scoutPc \in [Scouts -> ScoutPC]
  BY DEF SurveyTypes, ScoutStep, StartScout, CreateScoutScan, MarkScoutRunning, FetchPage, ReadRobots, Fingerprint, ScanPorts,
         Discover, StoreTable, CompleteScoutScan, FailScout, Phase, Scouting
<1>3. \/ scoutSaid' = scoutSaid /\ scoutPc'[s] \notin {"idle", "done", "failed"} /\ scoutPc[s] \notin {"done", "failed"}
      \/ Says(s, "STARTED") /\ scoutPc[s] = "idle" /\ scoutPc'[s] = "create"
      \/ Says(s, "COMPLETED") /\ scoutPc[s] = "complete" /\ scoutPc'[s] = "done"
      \/ Says(s, "FAILED") /\ scoutPc[s] = "failing" /\ scoutPc'[s] = "failed"
  BY DEF SurveyTypes, ScoutStep, StartScout, CreateScoutScan, MarkScoutRunning, FetchPage, ReadRobots, Fingerprint, ScanPorts,
         Discover, StoreTable, AfterTable, ReconTables, CompleteScoutScan, FailScout, Phase, Scouting
<1>4. ASSUME NEW e \in {"STARTED", "COMPLETED", "FAILED"}, Says(s, e), scoutPc[s] \notin {"done", "failed"},
             \/ scoutPc[s] = "idle" /\ scoutPc'[s] = "create"
             \/ scoutPc'[s] \in {"done", "failed"}
      PROVE  /\ scoutSaid' = [t \in Scouts |-> scoutSaid'[t]] /\ \A t \in Scouts : SaidAt(scoutPc'[t], scoutSaid'[t])
  <2>1. scoutSaid' = [scoutSaid EXCEPT ![s] = Append(scoutSaid[s], e)]
    BY <1>4 DEF Says
  <2>2. SaidAt(scoutPc[s], scoutSaid[s])
    BY <1>1
  <2>3. /\ Append(scoutSaid[s], e) \in Seq({"STARTED", "COMPLETED", "FAILED"})
        /\ Len(Append(scoutSaid[s], e)) = Len(scoutSaid[s]) + 1 /\ Len(scoutSaid[s]) \in Nat
    BY <1>4, <2>2 DEF SaidAt
  <2>4. SaidAt(scoutPc'[s], Append(scoutSaid[s], e))
    BY <1>4, <2>2, <2>3 DEF SaidAt
  <2>5. ASSUME NEW t \in Scouts PROVE SaidAt(scoutPc'[t], scoutSaid'[t])
    <3>1. CASE t = s
      BY <1>1, <2>1, <2>4, <3>1
    <3>2. CASE t # s
      <4>1. scoutSaid'[t] = scoutSaid[t] /\ scoutPc'[t] = scoutPc[t]
        BY <1>1, <1>2, <2>1, <3>2
      <4> QED BY <1>1, <4>1
    <3> QED BY <3>1, <3>2
  <2>6. scoutSaid' = [t \in Scouts |-> scoutSaid'[t]]
    BY <1>1, <2>1
  <2> QED BY <2>5, <2>6
<1>5. ASSUME scoutSaid' = scoutSaid, scoutPc'[s] \notin {"idle", "done", "failed"}, scoutPc[s] \notin {"done", "failed"}
      PROVE  /\ scoutSaid' = [t \in Scouts |-> scoutSaid'[t]] /\ \A t \in Scouts : SaidAt(scoutPc'[t], scoutSaid'[t])
  <2>1. ASSUME NEW t \in Scouts PROVE SaidAt(scoutPc'[t], scoutSaid'[t])
    <3>1. SaidAt(scoutPc[t], scoutSaid[t]) /\ scoutSaid'[t] = scoutSaid[t]
      BY <1>1, <1>5
    <3>2. CASE t = s
      BY <1>5, <3>1, <3>2 DEF SaidAt
    <3>3. CASE t # s
      BY <1>2, <3>1, <3>3
    <3> QED BY <3>2, <3>3
  <2> QED BY <1>1, <1>5, <2>1
<1> QED BY <1>3, <1>4, <1>5

LEMMA RowsStep ==
  ASSUME SurveyTypes, RowsOnce, NEW s \in Scouts, ScoutStep(s)
  PROVE  RowsOnce'
<1>1. scoutPc' = [scoutPc EXCEPT ![s] = scoutPc'[s]] /\ scoutPc \in [Scouts -> ScoutPC] /\ scoutOrder \in Seq(Scouts)
  BY DEF SurveyTypes, ScoutStep, StartScout, CreateScoutScan, MarkScoutRunning, FetchPage, ReadRobots, Fingerprint, ScanPorts,
         Discover, StoreTable, CompleteScoutScan, FailScout, Phase, Scouting
<1>2. \/ scoutOrder' = scoutOrder /\ (scoutPc[s] \in {"idle", "create"} \/ scoutPc'[s] \notin {"idle", "create"})
      \/ scoutOrder' = Append(scoutOrder, s) /\ scoutPc[s] = "create" /\ scoutPc'[s] = "mark"
  BY DEF SurveyTypes, ScoutStep, StartScout, CreateScoutScan, MarkScoutRunning, FetchPage, ReadRobots, Fingerprint, ScanPorts,
         Discover, StoreTable, AfterTable, ReconTables, CompleteScoutScan, FailScout, Phase, Scouting
<1>3. \A i \in DOMAIN scoutOrder : scoutOrder[i] \in Scouts
  BY <1>1
<1>4. CASE scoutOrder' = scoutOrder /\ (scoutPc[s] \in {"idle", "create"} \/ scoutPc'[s] \notin {"idle", "create"})
  <2>1. ASSUME NEW i \in DOMAIN scoutOrder PROVE scoutPc'[scoutOrder[i]] \notin {"idle", "create"}
    <3>1. scoutPc[scoutOrder[i]] \notin {"idle", "create"} /\ scoutOrder[i] \in Scouts
      BY <1>3 DEF RowsOnce
    <3> QED BY <1>1, <1>4, <3>1
  <2> QED BY <1>4, <2>1 DEF RowsOnce, IsInjective
<1>5. CASE scoutOrder' = Append(scoutOrder, s) /\ scoutPc[s] = "create" /\ scoutPc'[s] = "mark"
  <2> DEFINE n == Len(scoutOrder)
  <2>1. /\ n \in Nat /\ DOMAIN scoutOrder = 1..n /\ DOMAIN scoutOrder' = 1..n+1
        /\ scoutOrder'[n + 1] = s /\ \A i \in 1..n : scoutOrder'[i] = scoutOrder[i]
    BY <1>1, <1>5
  <2> HIDE DEF n
  <2>2. \A i \in 1..n : scoutOrder[i] # s /\ scoutPc[scoutOrder[i]] \notin {"idle", "create"} /\ scoutOrder[i] \in Scouts
    BY <1>3, <1>5, <2>1 DEF RowsOnce
  <2>3. 1..n+1 = 1..n \cup {n + 1}
    BY <2>1
  <2>4. \A i, j \in 1..n : scoutOrder[i] = scoutOrder[j] => i = j
    BY <2>1 DEF RowsOnce, IsInjective
  <2>5. ASSUME NEW i \in 1..n+1, NEW j \in 1..n+1, scoutOrder'[i] = scoutOrder'[j] PROVE i = j
    BY <2>1, <2>2, <2>3, <2>4, <2>5
  <2>6. ASSUME NEW i \in 1..n+1 PROVE scoutPc'[scoutOrder'[i]] \notin {"idle", "create"}
    <3>1. CASE i = n + 1
      BY <1>1, <1>5, <2>1, <3>1
    <3>2. CASE i # n + 1
      BY <1>1, <2>1, <2>2, <2>3, <3>2
    <3> QED BY <3>1, <3>2
  <2> QED BY <2>1, <2>5, <2>6 DEF RowsOnce, IsInjective
<1> QED BY <1>2, <1>4, <1>5

LEMMA HomeStep ==
  ASSUME SurveyInv, SurveyInv', SurveyTyped, NEW s \in Scouts, ScoutStep(s), NEW t \in Scouts
  PROVE  crawl'[t].queued \cup crawl'[t].fetched \subseteq OwnOrigin
<1>1. SurveyTypes /\ crawl[t].queued \cup crawl[t].fetched \subseteq OwnOrigin
  BY DEF SurveyInv, SurveyTyped
<1>2. CASE t # s
  BY <1>1, <1>2, OnlyItsOwn
<1>3. CASE t = s
  <2>1. crawl' = crawl \/ scoutPc'[s] = "crawl"
    BY <1>1 DEF SurveyTypes, ScoutStep, StartScout, CreateScoutScan, MarkScoutRunning, FetchPage, ReadRobots, Fingerprint,
           ScanPorts, Discover, StoreTable, CompleteScoutScan, FailScout, Phase, Scouting
  <2>2. CASE scoutPc'[s] = "crawl"
    <3>1. ScoutAt(s)'
      BY DEF SurveyInv
    <3>2. CrawlRight(crawl'[s])
      BY <2>2, <3>1 DEF ScoutAt, ScoutRight, CrawlingBegun
    <3> QED BY <1>3, <3>2, RightStaysHome
  <2> QED BY <1>1, <2>1, <2>2
<1> QED BY <1>2, <1>3

LEMMA TypedStep == SurveyInv /\ SurveyInv' /\ SurveyTyped /\ [ReconNext]_reconVars => SurveyTyped'
<1> SUFFICES ASSUME SurveyInv, SurveyInv', SurveyTyped, [ReconNext]_reconVars PROVE SurveyTyped'
  OBVIOUS
<1>0. SurveyTypes /\ RowsOnce /\ reconFaults \in 0..MaxReconFaults /\ planPc \in PlanPC /\ MaxReconFaults \in Nat
  BY ReconAssumption DEF SurveyInv, SurveyTyped
<1>1. CASE (\E s \in Scouts : ScoutStep(s)) /\ UNCHANGED planVars
  <2>1. PICK s \in Scouts : ScoutStep(s)
    BY <1>1
  <2>2. scoutSaid' = [t \in Scouts |-> scoutSaid'[t]] /\ \A t \in Scouts : SaidAt(scoutPc'[t], scoutSaid'[t])
    BY <1>0, <2>1, SaidSteps
  <2>3. RowsOnce'
    BY <1>0, <2>1, RowsStep
  <2>4. \A t \in Scouts : crawl'[t].queued \cup crawl'[t].fetched \subseteq OwnOrigin
    BY <2>1, HomeStep
  <2>5. reconFaults' = reconFaults \/ ReconFault
    BY <2>1 DEF ScoutStep, StartScout, CreateScoutScan, MarkScoutRunning, FetchPage, ReadRobots, Fingerprint,
           ScanPorts, Discover, StoreTable, CompleteScoutScan, FailScout, Phase, ReconFine
  <2>6. reconFaults' \in 0..MaxReconFaults
    BY <1>0, <2>5 DEF ReconFault
  <2>7. planPc' = planPc
    BY <1>1 DEF planVars
  <2> QED BY <1>0, <2>2, <2>3, <2>4, <2>6, <2>7 DEF SurveyTyped
<1>2. CASE PlannerStep /\ UNCHANGED <<scoutPc, crawl, recon, scoutRow, scoutTables, scoutOrder, scoutSaid>>
  <2>1. planPc' \in PlanPC /\ (reconFaults' = reconFaults \/ ReconFault)
    BY <1>2 DEF PlannerStep, StartPlan, LoadStaticFindings, LoadAttackSurface, LoadProfile, SavePlan, Planning, PlanFails,
                ReconFine, PlanPC
  <2>2. reconFaults' \in 0..MaxReconFaults
    BY <1>0, <2>1 DEF ReconFault
  <2>3. UNCHANGED <<scoutPc, crawl, scoutOrder, scoutSaid>>
    BY <1>2
  <2> QED BY <2>1, <2>2, <2>3 DEF SurveyTyped, RowsOnce
<1>3. CASE UNCHANGED reconVars
  <2>1. UNCHANGED <<scoutPc, crawl, scoutOrder, scoutSaid, reconFaults, planPc>>
    BY <1>3 DEF reconVars, scoutVars, planVars
  <2> QED BY <2>1 DEF SurveyTyped, RowsOnce
<1> QED BY <1>1, <1>2, <1>3 DEF ReconNext

(* Every variable of the scouts and the planner keeps its type, for any     *)
(* site and number of scouts: the crawler never leaves the origin it was    *)
(* given, whatever the pages link to and redirect to, a scout has one row,  *)
(* and of its end it tells once.                                            *)
THEOREM ReconTypes == ReconSpec => []ReconTypeOK
<1>1. SurveyInv /\ SurveyTyped => ReconTypeOK
  <2> SUFFICES ASSUME SurveyInv, SurveyTyped PROVE ReconTypeOK
    OBVIOUS
  <2>1. /\ scoutPc \in [Scouts -> ScoutPC] /\ scoutTables \in [Scouts -> SUBSET ReconTables] /\ scoutOrder \in Seq(Scouts)
        /\ scoutRow \in [Scouts -> {"none", "PENDING", "RUNNING", "COMPLETED", "FAILED"}]
    BY DEF SurveyInv, SurveyTypes
  <2>2. Range(scoutOrder) \subseteq Scouts /\ IsInjective(scoutOrder)
    BY <2>1 DEF SurveyTyped, RowsOnce, Range
  <2>3. \A s \in Scouts : Range(scoutSaid[s]) \subseteq {"STARTED", "COMPLETED", "FAILED"} /\ Len(scoutSaid[s]) <= 2
    BY DEF SurveyTyped, SaidAt, Range
  <2>4. ScoutTypeOK
    BY <2>1, <2>2, <2>3 DEF SurveyTyped, ScoutTypeOK
  <2>5. \A p \in plans : {p.scout, p.profile} \subseteq Scouts \cup {NoScout}
    BY DEF SurveyInv, PlanAt, PlanHas, Grounded, Profiled
  <2> QED BY <2>4, <2>5 DEF ReconTypeOK, SurveyTyped
<1>2. ReconInit => SurveyInv /\ SurveyTyped
  BY SurveyStarts, TypedFirst
<1>3. SurveyInv /\ SurveyTyped /\ [ReconNext]_reconVars => SurveyInv' /\ SurveyTyped'
  BY SurveySteps, TypedStep
<1> QED BY <1>1, <1>2, <1>3, PTL DEF ReconSpec

-----------------------------------------------------------------------------
(* The static scan: what every step leaves of the analysis.  A scan's own   *)
(* steps change nothing of it but the failures so far.                      *)
LEMMA StaticSteps ==
  ASSUME StaticNext
  PROVE  \/ \E a \in Analyses : AnalysisStep(a) \/ Dispose(a)
         \/ Unprofiled /\ (StaticFine \/ ProfileFault)
<1>1. ASSUME NEW a \in StaticScans, StaticScanStep(a)
      PROVE  \/ AnalysisStep(a) \/ Dispose(a)
             \/ Unprofiled /\ (StaticFine \/ ProfileFault)
  BY <1>1 DEF StaticScanStep, AskStaticScan, AnswerStaticScan, Preparing, CreateStaticScan, MarkStaticScan,
       RunScanner, ScannersOver, StoreStep, SaveFindings, FinishStaticScan, StaticScanFails, CloseStaticScan, AnalysisStep
<1>2. StaticScans \subseteq Analyses
  BY StaticAssumption
<1> QED BY <1>1, <1>2 DEF StaticNext, PlainAnalysis

(* The calls that are responsible for a directory, and the directories no   *)
(* call is responsible for although something is in them.                   *)
HoldingPC == AnalysisPC \ {"idle", "clone", "done", "failed", "rejected"}
Orphan(t) == trees[t] # "none" /\ \A a \in Analyses : analysisPc[a] \in HoldingPC => stampOf[a] # t
Orphans == {t \in Stamps : Orphan(t)}

ProfileTypes ==
  /\ analysisPc \in [Analyses -> AnalysisPC] /\ stampOf \in [Analyses -> Stamps \cup {0}]
  /\ trees \in [Stamps -> {"none", "partial", "whole"}] /\ profileFaults \in Nat
  /\ \A a \in Analyses : analysisPc[a] \notin {"idle", "rejected"} => stampOf[a] \in Stamps

OrphansCounted == IsFiniteSet(Orphans) /\ Cardinality(Orphans) <= profileFaults
TreesInv == ProfileTypes /\ (KeepRepoDir \/ OrphansCounted)

LEMMA TypesStep ==
  ASSUME ProfileTypes, NEW a \in Analyses, AnalysisStep(a) \/ Dispose(a)
  PROVE  ProfileTypes'
<1> USE DEF ProfileTypes, AnalysisPC, Analysing
<1>1. CASE StartAnalysis(a)
  BY <1>1 DEF StartAnalysis
<1>2. CASE GitStarts(a)
  BY <1>2 DEF GitStarts
<1>3. CASE GitEnds(a)
  BY <1>3 DEF GitEnds, ProfileFault
<1>4. CASE MeasureTree(a)
  BY <1>4 DEF MeasureTree
<1>5. CASE RemoveTree(a)
  BY <1>5 DEF RemoveTree, ProfileFault
<1>6. CASE WalkTree(a)
  BY <1>6 DEF WalkTree
<1>7. CASE Detect(a)
  BY <1>7 DEF Detect
<1>8. CASE ReadManifests(a)
  BY <1>8 DEF ReadManifests, OnError
<1>9. CASE DetectShape(a)
  BY <1>9 DEF DetectShape
<1>10. CASE ListRoutes(a)
  BY <1>10 DEF ListRoutes
<1>11. CASE ListSchemes(a)
  BY <1>11 DEF ListSchemes
<1>12. CASE TestGuards(a)
  BY <1>12 DEF TestGuards
<1>13. CASE Prepared(a)
  BY <1>13 DEF Prepared
<1>14. CASE Dispose(a)
  BY <1>14 DEF Dispose
<1> QED BY <1>1, <1>2, <1>3, <1>4, <1>5, <1>6, <1>7, <1>8, <1>9, <1>10, <1>11, <1>12, <1>13, <1>14 DEF AnalysisStep

LEMMA FewerOf ==
  ASSUME NEW S, IsFiniteSet(S), NEW n \in Nat, NEW m \in Nat, n <= m, Cardinality(S) <= n, NEW T, T \subseteq S
  PROVE  IsFiniteSet(T) /\ Cardinality(T) <= m
<1>0. T \in SUBSET S
  OBVIOUS
<1>1. IsFiniteSet(T) /\ Cardinality(T) <= Cardinality(S)
  BY <1>0, FS_Subset
<1>2. Cardinality(S) \in Nat /\ Cardinality(T) \in Nat
  BY <1>1, FS_CardinalityType
<1> QED BY <1>1, <1>2

LEMMA OneMoreOf ==
  ASSUME NEW S, IsFiniteSet(S), NEW n \in Nat, Cardinality(S) <= n, NEW x, NEW T, T \subseteq S \cup {x}
  PROVE  IsFiniteSet(T) /\ Cardinality(T) <= n + 1
<1>1. IsFiniteSet(S \cup {x}) /\ Cardinality(S \cup {x}) <= Cardinality(S) + 1
  <2>1. Cardinality(S) \in Nat
    BY FS_CardinalityType
  <2>2. Cardinality(S \cup {x}) = IF x \in S THEN Cardinality(S) ELSE Cardinality(S) + 1
    BY FS_AddElement
  <2>3. IsFiniteSet(S \cup {x})
    BY FS_AddElement
  <2> QED BY <2>1, <2>2, <2>3
<1>2. Cardinality(S) \in Nat /\ Cardinality(S \cup {x}) \in Nat
  BY <1>1, FS_CardinalityType
<1>3. n + 1 \in Nat /\ Cardinality(S \cup {x}) <= n + 1
  BY <1>1, <1>2
<1> QED BY <1>1, <1>2, <1>3, FewerOf

(* Fewer orphans, or one more for one more failure.                         *)
LEMMA OrphansKept ==
  ASSUME ProfileTypes, OrphansCounted, Orphans' \subseteq Orphans, profileFaults' \in Nat, profileFaults' >= profileFaults
  PROVE  OrphansCounted'
<1>1. profileFaults \in Nat /\ profileFaults <= profileFaults'
  BY DEF ProfileTypes
<1> HIDE DEF Orphans
<1> QED BY <1>1, FewerOf DEF OrphansCounted

LEMMA OrphanMore ==
  ASSUME ProfileTypes, OrphansCounted, NEW t, Orphans' \subseteq Orphans \cup {t}, profileFaults' = profileFaults + 1
  PROVE  OrphansCounted'
<1>1. profileFaults \in Nat
  BY DEF ProfileTypes
<1> HIDE DEF Orphans
<1> QED BY <1>1, OneMoreOf DEF OrphansCounted

LEMMA OrphanSteps ==
  ASSUME ProfileTypes, OrphansCounted, ~KeepRepoDir, NEW a \in Analyses, AnalysisStep(a) \/ Dispose(a)
  PROVE  OrphansCounted'
<1> USE DEF Analysing
<1>0. \A b \in Analyses : analysisPc[b] \in HoldingPC => stampOf[b] \in Stamps
  BY DEF ProfileTypes, HoldingPC
<1>1. CASE StartAnalysis(a)
  <2>1. Orphans' \subseteq Orphans
    BY <1>1 DEF StartAnalysis, ProfileTypes, Orphans, Orphan, HoldingPC, AnalysisPC
  <2> QED BY <1>1, <2>1, OrphansKept DEF StartAnalysis, ProfileTypes
<1>2. CASE GitStarts(a)
  <2>1. Orphans' \subseteq Orphans
    BY <1>2 DEF GitStarts, ProfileTypes, Orphans, Orphan, HoldingPC, AnalysisPC
  <2> QED BY <1>2, <2>1, OrphansKept DEF GitStarts, ProfileTypes
<1>3. CASE GitEnds(a)
  <2>1. Orphans' \subseteq Orphans
    BY <1>3 DEF GitEnds, ProfileTypes, Orphans, Orphan, HoldingPC, AnalysisPC
  <2>2. profileFaults' \in Nat /\ profileFaults' >= profileFaults
    BY <1>3 DEF GitEnds, ProfileTypes, ProfileFault
  <2> QED BY <2>1, <2>2, OrphansKept
<1>4. CASE RemoveTree(a)
  <2>1. analysisPc[a] \in HoldingPC /\ stampOf[a] \in Stamps
    BY <1>0, <1>4 DEF RemoveTree, HoldingPC, AnalysisPC
  <2>2. CASE trees' = [trees EXCEPT ![stampOf[a]] = "none"] /\ UNCHANGED profileFaults
    <3>1. Orphans' \subseteq Orphans
      BY <1>4, <2>1, <2>2 DEF RemoveTree, ProfileTypes, Orphans, Orphan, HoldingPC, AnalysisPC
    <3> QED BY <2>2, <3>1, OrphansKept DEF ProfileTypes
  <2>3. CASE ProfileFault /\ UNCHANGED trees
    <3>1. Orphans' \subseteq Orphans \cup {stampOf[a]}
      BY <1>4, <2>1, <2>3 DEF RemoveTree, ProfileTypes, Orphans, Orphan, HoldingPC, AnalysisPC
    <3> QED BY <2>3, <3>1, OrphanMore DEF ProfileFault
  <2> QED BY <1>4, <2>2, <2>3 DEF RemoveTree
<1>5. ASSUME UNCHANGED <<stampOf, trees, profileFaults>>, analysisPc[a] \in HoldingPC, analysisPc'[a] \in HoldingPC,
             \A b \in Analyses \ {a} : analysisPc'[b] = analysisPc[b]
      PROVE  OrphansCounted'
  <2>1. Orphans' \subseteq Orphans
    BY <1>5 DEF Orphans, Orphan
  <2> QED BY <1>5, <2>1, OrphansKept DEF ProfileTypes
<1>6. CASE MeasureTree(a)
  BY <1>5, <1>6 DEF MeasureTree, ProfileTypes, HoldingPC, AnalysisPC
<1>7. CASE WalkTree(a)
  BY <1>5, <1>7 DEF WalkTree, ProfileTypes, HoldingPC, AnalysisPC
<1>8. CASE Detect(a)
  BY <1>5, <1>8 DEF Detect, ProfileTypes, HoldingPC, AnalysisPC
<1>9. CASE ReadManifests(a)
  BY <1>5, <1>9 DEF ReadManifests, OnError, ProfileTypes, HoldingPC, AnalysisPC
<1>10. CASE DetectShape(a)
  BY <1>5, <1>10 DEF DetectShape, ProfileTypes, HoldingPC, AnalysisPC
<1>11. CASE ListRoutes(a)
  BY <1>5, <1>11 DEF ListRoutes, ProfileTypes, HoldingPC, AnalysisPC
<1>12. CASE ListSchemes(a)
  BY <1>5, <1>12 DEF ListSchemes, ProfileTypes, HoldingPC, AnalysisPC
<1>13. CASE TestGuards(a)
  BY <1>5, <1>13 DEF TestGuards, ProfileTypes, HoldingPC, AnalysisPC
<1>14. CASE Prepared(a)
  BY <1>5, <1>14 DEF Prepared, ProfileTypes, HoldingPC, AnalysisPC
<1>15. CASE Dispose(a)
  BY <1>5, <1>15 DEF Dispose, ProfileTypes, HoldingPC, AnalysisPC
<1> QED BY <1>1, <1>2, <1>3, <1>4, <1>6, <1>7, <1>8, <1>9, <1>10, <1>11, <1>12, <1>13, <1>14, <1>15 DEF AnalysisStep

LEMMA TreesBegin == StaticInit => TreesInv
<1> SUFFICES ASSUME StaticInit PROVE TreesInv
  OBVIOUS
<1>1. ProfileTypes
  BY DEF StaticInit, ProfileInit, ProfileTypes, AnalysisPC
<1>2. Orphans = {}
  BY DEF StaticInit, ProfileInit, Orphans, Orphan
<1>3. profileFaults = 0 /\ IsFiniteSet({}) /\ Cardinality({}) = 0
  BY FS_EmptySet DEF StaticInit, ProfileInit
<1> QED BY <1>1, <1>2, <1>3 DEF TreesInv, OrphansCounted

LEMMA TreesStep == TreesInv /\ [StaticNext]_staticVars => TreesInv'
<1> SUFFICES ASSUME TreesInv, [StaticNext]_staticVars PROVE TreesInv'
  OBVIOUS
<1>0. ProfileTypes
  BY DEF TreesInv
<1>1. CASE \E a \in Analyses : AnalysisStep(a) \/ Dispose(a)
  BY <1>0, <1>1, TypesStep, OrphanSteps DEF TreesInv
<1>2. CASE Unprofiled /\ (StaticFine \/ ProfileFault)
  <2>1. ProfileTypes'
    BY <1>0, <1>2 DEF ProfileTypes, Unprofiled, StaticFine, ProfileFault
  <2>2. Orphans' = Orphans
    BY <1>2 DEF Orphans, Orphan, Unprofiled
  <2>3. profileFaults' \in Nat /\ profileFaults' >= profileFaults
    BY <1>0, <1>2 DEF ProfileTypes, StaticFine, ProfileFault
  <2> QED BY <1>0, <2>1, <2>2, <2>3, OrphansKept DEF TreesInv
<1>3. CASE UNCHANGED staticVars
  <2>1. Unprofiled /\ StaticFine
    BY <1>3 DEF staticVars, profileVars, Unprofiled, StaticFine
  <2>2. ProfileTypes'
    BY <1>0, <2>1 DEF ProfileTypes, Unprofiled, StaticFine
  <2>3. OrphansCounted' <=> OrphansCounted
    BY <2>1 DEF OrphansCounted, Orphans, Orphan, Unprofiled, StaticFine
  <2> QED BY <2>2, <2>3 DEF TreesInv
<1> QED BY <1>1, <1>2, <1>3, StaticSteps

LEMMA TreesAlways == StaticSpec => []TreesInv
BY TreesBegin, TreesStep, PTL DEF StaticSpec

LEMMA TreesTell == TreesInv => TreesAreReleased
<1> SUFFICES ASSUME TreesInv, \A a \in Analyses : AnalysisOver(a), ~KeepRepoDir
             PROVE  Cardinality({t \in Stamps : trees[t] # "none"}) <= profileFaults
  BY DEF TreesAreReleased
<1>1. Orphans = {t \in Stamps : trees[t] # "none"}
  BY DEF Orphans, Orphan, AnalysisOver, HoldingPC
<1> QED BY <1>1 DEF TreesInv, OrphansCounted

-----------------------------------------------------------------------------
(* Sorting: Up[x] is what precedes x.                                       *)
Ranks(S, Up) ==
  /\ IsFiniteSet(S) /\ Up \in [S -> SUBSET S]
  /\ \A x \in S : x \notin Up[x]
  /\ \A x \in S, y \in S : x # y => x \in Up[y] \/ y \in Up[x]
  /\ \A x \in S, y \in S : x \in Up[y] => Up[x] \subseteq Up[y]

LEMMA RankLess ==
  ASSUME NEW S, NEW Up, Ranks(S, Up), NEW x \in S, NEW y \in S, x \in Up[y]
  PROVE  Cardinality(Up[x]) < Cardinality(Up[y])
<1>1. IsFiniteSet(Up[y]) /\ Up[y] \in SUBSET S
  <2>1. Up[y] \in SUBSET S /\ IsFiniteSet(S)
    BY DEF Ranks
  <2> QED BY <2>1, FS_Subset
<1>2. Up[x] \in SUBSET Up[y] /\ Up[x] # Up[y]
  BY DEF Ranks
<1>3. IsFiniteSet(Up[x]) /\ Cardinality(Up[x]) <= Cardinality(Up[y]) /\ Cardinality(Up[x]) # Cardinality(Up[y])
  BY <1>1, <1>2, FS_Subset
<1>4. Cardinality(Up[x]) \in Nat /\ Cardinality(Up[y]) \in Nat
  BY <1>1, <1>3, FS_CardinalityType
<1> QED BY <1>3, <1>4

LEMMA RankIs ==
  ASSUME NEW S, NEW Up, Ranks(S, Up)
  PROVE  /\ Cardinality(S) \in Nat
         /\ \A x \in S : Cardinality(Up[x]) \in 0..(Cardinality(S) - 1)
         /\ \A x \in S, y \in S : x \in Up[y] <=> Cardinality(Up[x]) < Cardinality(Up[y])
         /\ \A k \in 1..Cardinality(S) : \E x \in S : Cardinality(Up[x]) = k - 1
<1> DEFINE n == Cardinality(S)
           Place == [x \in S |-> Cardinality(Up[x])]
<1>0. IsFiniteSet(S) /\ n \in Nat
  BY FS_CardinalityType DEF Ranks
<1>1. \A x \in S : Cardinality(Up[x]) \in 0..(n - 1)
  <2> TAKE x \in S
  <2>1. Up[x] \in SUBSET S /\ x \notin Up[x]
    BY DEF Ranks
  <2>2. IsFiniteSet(Up[x]) /\ Cardinality(Up[x]) <= n /\ (n = Cardinality(Up[x]) => S = Up[x])
    BY <1>0, <2>1, FS_Subset
  <2>3. Cardinality(Up[x]) \in Nat
    BY <2>2, FS_CardinalityType
  <2>4. Cardinality(Up[x]) # n
    BY <2>1, <2>2
  <2> HIDE DEF n
  <2> QED BY <1>0, <2>2, <2>3, <2>4
<1>2. \A x \in S, y \in S : x \in Up[y] => Cardinality(Up[x]) < Cardinality(Up[y])
  BY RankLess
<1>3. \A x \in S, y \in S : x \in Up[y] <=> Cardinality(Up[x]) < Cardinality(Up[y])
  <2> TAKE x \in S, y \in S
  <2> SUFFICES ASSUME Cardinality(Up[x]) < Cardinality(Up[y]) PROVE x \in Up[y]
    BY <1>2
  <2>1. Cardinality(Up[x]) \in Nat /\ Cardinality(Up[y]) \in Nat
    BY <1>1
  <2>2. x # y /\ ~(Cardinality(Up[y]) < Cardinality(Up[x]))
    BY <2>1
  <2>3. y \notin Up[x]
    BY <1>2, <2>2
  <2> QED BY <2>2, <2>3 DEF Ranks
<1>4. \A x \in S, y \in S : Cardinality(Up[x]) = Cardinality(Up[y]) => x = y
  <2> TAKE x \in S, y \in S
  <2> SUFFICES ASSUME Cardinality(Up[x]) = Cardinality(Up[y]), x # y PROVE FALSE
    OBVIOUS
  <2>1. x \in Up[y] \/ y \in Up[x]
    BY DEF Ranks
  <2>2. Cardinality(Up[x]) \in Nat /\ Cardinality(Up[y]) \in Nat
    BY <1>1
  <2> QED BY <1>2, <2>1, <2>2
<1> HIDE DEF n
<1>5. IsFiniteSet(0..(n - 1)) /\ Cardinality(0..(n - 1)) = n
  <2>1. 0 \in Int /\ n - 1 \in Int
    BY <1>0
  <2>2. IsFiniteSet(0..(n - 1)) /\ Cardinality(0..(n - 1)) = IF 0 > n - 1 THEN 0 ELSE n - 1 - 0 + 1
    BY <2>1, FS_Interval
  <2>3. (IF 0 > n - 1 THEN 0 ELSE n - 1 - 0 + 1) = n
    BY <1>0
  <2> QED BY <2>2, <2>3
<1>6. Place \in Injection(S, 0..(n - 1))
  <2>1. Place \in [S -> 0..(n - 1)]
    BY <1>1
  <2>2. \A x \in S, y \in S : Place[x] = Place[y] => x = y
    BY <1>4
  <2> QED BY <2>1, <2>2 DEF Injection, IsInjective
<1>7. Place \in Surjection(S, 0..(n - 1))
  <2>1. Cardinality(S) = Cardinality(0..(n - 1))
    BY <1>5 DEF n
  <2> HIDE DEF Place
  <2> QED BY <1>5, <1>6, <2>1, FS_Injection
<1>8. \A k \in 1..n : \E x \in S : Cardinality(Up[x]) = k - 1
  <2> TAKE k \in 1..n
  <2>1. k - 1 \in 0..(n - 1)
    BY <1>0
  <2>2. \E x \in S : Place[x] = k - 1
    BY <1>7, <2>1 DEF Surjection
  <2> QED BY <2>2
<1> QED BY <1>0, <1>1, <1>3, <1>8 DEF n

(* A list that has at k an element which k - 1 others precede is all of     *)
(* them, in order.                                                          *)
Sorted(order, S, Up) ==
  /\ order \in [1..Cardinality(S) -> S]
  /\ \A k \in 1..Cardinality(S) : Cardinality(Up[order[k]]) = k - 1

LEMMA SortedIs ==
  ASSUME NEW S, NEW Up, Ranks(S, Up), NEW order, Sorted(order, S, Up)
  PROVE  /\ Cardinality(S) \in Nat /\ DOMAIN order = 1..Cardinality(S)
         /\ order \in Seq(S) /\ Len(order) = Cardinality(S) /\ Cardinality(S) \in Nat
         /\ \A x \in S : \E k \in 1..Cardinality(S) : order[k] = x
         /\ \A k \in 1..Cardinality(S), l \in 1..Cardinality(S) :
              /\ order[k] \in S
              /\ order[k] = order[l] => k = l
              /\ order[k] \in Up[order[l]] <=> k < l
<1> DEFINE n == Cardinality(S)
<1>1. /\ n \in Nat
      /\ \A x \in S : Cardinality(Up[x]) \in 0..(n - 1)
      /\ \A x \in S, y \in S : x \in Up[y] <=> Cardinality(Up[x]) < Cardinality(Up[y])
  BY RankIs
<1>2. order \in [1..n -> S] /\ \A k \in 1..n : Cardinality(Up[order[k]]) = k - 1
  BY DEF Sorted
<1> HIDE DEF n
<1>3. ASSUME NEW x \in S PROVE \E k \in 1..n : order[k] = x
  <2> DEFINE c == Cardinality(Up[x])
  <2>1. c \in 0..(n - 1)
    BY <1>1
  <2>2. PICK k \in 1..n : k - 1 = c
    <3> HIDE DEF c
    <3>1. n \in Nat
      BY <1>1
    <3>2. c \in Int /\ 0 <= c /\ c <= n - 1
      BY <2>1, <3>1
    <3>3. c + 1 \in 1..n
      BY <3>1, <3>2
    <3>4. c + 1 - 1 = c
      BY <3>2
    <3> QED BY <3>1, <3>2, <3>3, <3>4
  <2>3. Cardinality(Up[order[k]]) = c /\ order[k] \in S
    BY <1>2, <2>2
  <2>4. ~(Cardinality(Up[x]) < Cardinality(Up[order[k]])) /\ ~(Cardinality(Up[order[k]]) < Cardinality(Up[x]))
    <3>1. c \in Nat
      BY <1>1, <2>1
    <3> QED BY <2>3, <3>1
  <2>5. x \notin Up[order[k]] /\ order[k] \notin Up[x]
    BY <1>1, <2>3, <2>4
  <2>6. order[k] = x
    BY <2>3, <2>5 DEF Ranks
  <2> QED BY <2>6
<1>4. ASSUME NEW k \in 1..n, NEW l \in 1..n
      PROVE  /\ order[k] \in S
             /\ order[k] = order[l] => k = l
             /\ order[k] \in Up[order[l]] <=> k < l
  <2>1. order[k] \in S /\ order[l] \in S /\ Cardinality(Up[order[k]]) = k - 1 /\ Cardinality(Up[order[l]]) = l - 1
    BY <1>2
  <2>2. order[k] \in Up[order[l]] <=> k - 1 < l - 1
    BY <1>1, <2>1
  <2> QED BY <1>1, <2>1, <2>2
<1>5. order \in Seq(S) /\ Len(order) = n /\ DOMAIN order = 1..n
  BY <1>1, <1>2, ListIs
<1> QED BY <1>1, <1>3, <1>4, <1>5 DEF n

-----------------------------------------------------------------------------
(* The tree of directories.  Below(d) is the smallest set that has the      *)
(* entries of d and of each directory in it; it is what the walk collects.  *)
Closed(X) == \A x \in X : IsDir(x) => Entries(x) \subseteq X
Below(d) == {p \in Paths : \A X \in SUBSET Paths : Entries(d) \subseteq X /\ Closed(X) => p \in X}
WalkOn(f) == [d \in Paths |-> Entries(d) \cup UNION {f[p] : p \in {q \in Entries(d) : IsDir(q)}}]

LEMMA BelowIs ==
  ASSUME NEW d \in Paths
  PROVE  /\ Entries(d) \subseteq Below(d) /\ Closed(Below(d)) /\ Below(d) \subseteq Paths
         /\ \A X \in SUBSET Paths : Entries(d) \subseteq X /\ Closed(X) => Below(d) \subseteq X
<1>0. \A x \in Paths : Entries(x) \subseteq Paths
  BY DEF Entries
<1>1. Entries(d) \subseteq Below(d)
  BY <1>0 DEF Below
<1>2. \A X \in SUBSET Paths : Entries(d) \subseteq X /\ Closed(X) => Below(d) \subseteq X
  BY DEF Below
<1>3. ASSUME NEW x \in Below(d), IsDir(x), NEW p \in Entries(x) PROVE p \in Below(d)
  <2>1. x \in Paths /\ p \in Paths
    BY <1>0, <1>3 DEF Below
  <2>2. ASSUME NEW X \in SUBSET Paths, Entries(d) \subseteq X, Closed(X) PROVE p \in X
    <3>1. x \in X
      BY <1>2, <1>3, <2>2
    <3> QED BY <1>3, <2>2, <3>1 DEF Closed
  <2> QED BY <2>1, <2>2 DEF Below
<1>4. Closed(Below(d))
  BY <1>3 DEF Closed
<1> QED BY <1>1, <1>2, <1>4 DEF Below

LEMMA BelowGoes ==
  ASSUME NEW d \in Paths
  PROVE  Below(d) = Entries(d) \cup UNION {Below(p) : p \in {q \in Entries(d) : IsDir(q)}}
<1> DEFINE Dirs == {q \in Entries(d) : IsDir(q)}
           R == Entries(d) \cup UNION {Below(p) : p \in Dirs}
<1>0. Dirs \subseteq Paths /\ Entries(d) \subseteq Paths
  BY DEF Entries
<1>1. ASSUME NEW p \in Dirs PROVE Below(p) \subseteq Below(d)
  <2>1. p \in Below(d) /\ IsDir(p) /\ p \in Paths
    BY <1>0, BelowIs
  <2>2. Entries(p) \subseteq Below(d) /\ Closed(Below(d)) /\ Below(d) \in SUBSET Paths
    BY <2>1, BelowIs DEF Closed
  <2> QED BY <2>1, <2>2, BelowIs
<1>2. R \subseteq Below(d)
  BY <1>1, BelowIs
<1>3. R \in SUBSET Paths
  BY <1>0, BelowIs
<1>4. ASSUME NEW x \in R, IsDir(x) PROVE Entries(x) \subseteq R
  <2>1. CASE x \in Entries(d)
    <3>1. x \in Dirs /\ x \in Paths
      BY <1>0, <1>4, <2>1
    <3> HIDE DEF Dirs
    <3>2. Entries(x) \subseteq Below(x)
      BY <3>1, BelowIs
    <3> QED BY <3>1, <3>2
  <2>2. CASE \E p \in Dirs : x \in Below(p)
    <3>1. PICK p \in Dirs : x \in Below(p)
      BY <2>2
    <3>2. Entries(x) \subseteq Below(p)
      BY <1>0, <1>4, <3>1, BelowIs DEF Closed
    <3> QED BY <3>1, <3>2
  <2> QED BY <2>1, <2>2
<1>5. Closed(R) /\ Entries(d) \subseteq R
  BY <1>4 DEF Closed
<1> HIDE DEF R, Dirs
<1>6. Below(d) \subseteq R
  BY <1>3, <1>5, BelowIs
<1> QED BY <1>2, <1>6 DEF R, Dirs

(* Whatever set of paths is taken, one of them has no entry in the set.     *)
LEMMA Bottommost ==
  ASSUME NEW S, S \subseteq Paths, S # {}
  PROVE  \E d \in S : \A p \in Paths \ {TopDir} : Info[p].parent = d => p \notin S
<1> SUFFICES ASSUME \A d \in S : \E p \in S : p # TopDir /\ Info[p].parent = d PROVE FALSE
  OBVIOUS
<1> DEFINE child == [d \in S |-> CHOOSE p \in S : p # TopDir /\ Info[p].parent = d]
<1>1. \A d \in S : child[d] \in S /\ child[d] # TopDir /\ Info[child[d]].parent = d
  OBVIOUS
<1> HIDE DEF child
<1>2. child \in Injection(S, S)
  <2>1. child \in [S -> S]
    BY <1>1 DEF child
  <2>2. \A d \in S, e \in S : child[d] = child[e] => d = e
    BY <1>1
  <2> QED BY <2>1, <2>2 DEF Injection, IsInjective
<1>3. child \in Surjection(S, S)
  <2>1. IsFiniteSet(S)
    <3> S \in SUBSET Paths
      OBVIOUS
    <3> QED BY TreeAssumption, FS_Subset
  <2> QED BY <1>2, <2>1, FS_Injection
<1>4. TopDir \notin S
  BY <1>1, <1>3 DEF Surjection
<1>5. PICK p \in S : Info[p].parent \notin S
  <2>1. S \in SUBSET (Paths \ {TopDir})
    BY <1>4
  <2> QED BY <2>1, TreeAssumption
<1>6. PICK d \in S : child[d] = p
  BY <1>3 DEF Surjection
<1> QED BY <1>1, <1>5, <1>6

(* The walk collects what is below the top directory.                       *)
LEMMA WalkIs == Walk = Below(TopDir)
<1> DEFINE below == CHOOSE f : f = WalkOn(f)
           g == [d \in Paths |-> Below(d)]
<1>1. Walk = below[TopDir]
  BY DEF Walk, WalkOn
<1>2. g = WalkOn(g)
  <2>1. ASSUME NEW d \in Paths
        PROVE  g[d] = Entries(d) \cup UNION {g[p] : p \in {q \in Entries(d) : IsDir(q)}}
    <3>1. {q \in Entries(d) : IsDir(q)} \subseteq Paths
      BY DEF Entries
    <3>2. \A p \in {q \in Entries(d) : IsDir(q)} : g[p] = Below(p)
      BY <3>1
    <3>3. UNION {g[p] : p \in {q \in Entries(d) : IsDir(q)}} = UNION {Below(p) : p \in {q \in Entries(d) : IsDir(q)}}
      BY <3>2
    <3> QED BY <3>3, BelowGoes
  <2> QED BY <2>1 DEF WalkOn
<1>3. below = WalkOn(below)
  BY <1>2
<1> HIDE DEF below, g
<1>4. \A d \in Paths : below[d] = Entries(d) \cup UNION {below[p] : p \in {q \in Entries(d) : IsDir(q)}}
  BY <1>3 DEF WalkOn
<1> DEFINE S == {d \in Paths : below[d] # Below(d)}
<1>5. SUFFICES ASSUME S # {} PROVE FALSE
  BY <1>1, TreeAssumption
<1>6. PICK d \in S : \A p \in Paths \ {TopDir} : Info[p].parent = d => p \notin S
  <2> S \subseteq Paths
    OBVIOUS
  <2> HIDE DEF S
  <2> QED BY <1>5, Bottommost
<1>7. \A p \in Entries(d) : below[p] = Below(p)
  BY <1>6 DEF Entries
<1>8. UNION {below[p] : p \in {q \in Entries(d) : IsDir(q)}} = UNION {Below(p) : p \in {q \in Entries(d) : IsDir(q)}}
  BY <1>7
<1> QED BY <1>4, <1>6, <1>8, BelowGoes

(* Up(p) is the smallest set that has p and whatever lies above it, short   *)
(* of the top directory.                                                    *)
Rising(X) == \A x \in X : Info[x].parent # TopDir => Info[x].parent \in X
Under == Paths \ {TopDir}
Upward(p) == {q \in Under : \A X \in SUBSET Under : p \in X /\ Rising(X) => q \in X}
ClimbOn(f) == [p \in Paths |-> IF p = TopDir THEN {} ELSE {p} \cup f[Info[p].parent]]

LEMMA UpwardGoes ==
  ASSUME NEW p \in Under
  PROVE  Upward(p) = {p} \cup (IF Info[p].parent = TopDir THEN {} ELSE Upward(Info[p].parent))
<1> DEFINE q == Info[p].parent
           R == {p} \cup (IF q = TopDir THEN {} ELSE Upward(q))
<1>1. \A x \in Under : Info[x].parent # TopDir => Info[x].parent \in Under
  BY TreeAssumption DEF Under
<1>2. ASSUME NEW x \in Under
      PROVE  /\ x \in Upward(x) /\ Upward(x) \subseteq Under
             /\ \A X \in SUBSET Under : x \in X /\ Rising(X) => Upward(x) \subseteq X
    BY DEF Upward
<1>3. ASSUME NEW x \in Under PROVE Rising(Upward(x))
  <2>1. ASSUME NEW y \in Upward(x), Info[y].parent # TopDir PROVE Info[y].parent \in Upward(x)
    <3>1. y \in Under /\ Info[y].parent \in Under
      BY <1>1, <2>1 DEF Upward
    <3>2. ASSUME NEW X \in SUBSET Under, x \in X, Rising(X) PROVE Info[y].parent \in X
      <4>1. y \in X
        BY <1>2, <2>1, <3>2
      <4> QED BY <2>1, <3>2, <4>1 DEF Rising
    <3> QED BY <3>1, <3>2 DEF Upward
  <2> QED BY <2>1 DEF Rising
<1>4. R \subseteq Upward(p)
  <2>1. p \in Upward(p) /\ Rising(Upward(p))
    BY <1>2, <1>3
  <2>2. CASE q # TopDir
    <3>1. q \in Upward(p) /\ q \in Under /\ Upward(p) \in SUBSET Under
      BY <1>1, <1>2, <2>1, <2>2 DEF Rising
    <3>2. Upward(q) \subseteq Upward(p)
      BY <1>2, <2>1, <3>1
    <3> QED BY <2>1, <2>2, <3>2
  <2> QED BY <2>1, <2>2
<1>5. R \in SUBSET Under /\ p \in R
  BY <1>1, <1>2
<1>6. Rising(R)
  <2>1. ASSUME NEW x \in R, Info[x].parent # TopDir PROVE Info[x].parent \in R
    <3>1. CASE x = p
      <4>1. q # TopDir /\ q \in Under
        BY <1>1, <2>1, <3>1
      <4> QED BY <1>2, <3>1, <4>1
    <3>2. CASE x # p
      <4>1. q # TopDir /\ q \in Under /\ x \in Upward(q)
        BY <1>1, <2>1, <3>2
      <4>2. Info[x].parent \in Upward(q)
        BY <1>3, <2>1, <4>1 DEF Rising
      <4> QED BY <4>1, <4>2
    <3> QED BY <3>1, <3>2
  <2> QED BY <2>1 DEF Rising
<1> HIDE DEF R
<1>7. Upward(p) \subseteq R
  BY <1>2, <1>5, <1>6
<1> QED BY <1>4, <1>7 DEF R

LEMMA AboveIs ==
  /\ AboveOf[TopDir] = {}
  /\ \A p \in Under : AboveOf[p] = {p} \cup AboveOf[Info[p].parent]
<1> DEFINE g == [p \in Paths |-> IF p = TopDir THEN {} ELSE Upward(p)]
<1>1. g = ClimbOn(g)
  <2>1. ASSUME NEW p \in Paths PROVE g[p] = IF p = TopDir THEN {} ELSE {p} \cup g[Info[p].parent]
    <3>1. CASE p = TopDir
      BY <3>1
    <3>2. CASE p # TopDir
      <4>1. p \in Under /\ Info[p].parent \in Paths
        BY <3>2, TreeAssumption DEF Under
      <4>2. g[Info[p].parent] = IF Info[p].parent = TopDir THEN {} ELSE Upward(Info[p].parent)
        BY <4>1
      <4>3. g[p] = Upward(p)
        BY <3>2
      <4> HIDE DEF g
      <4> QED BY <3>2, <4>1, <4>2, <4>3, UpwardGoes
    <3> QED BY <3>1, <3>2
  <2> QED BY <2>1 DEF ClimbOn
<1>2. AboveOf = CHOOSE f : f = ClimbOn(f)
  BY DEF AboveOf, ClimbOn
<1>3. AboveOf = ClimbOn(AboveOf)
  BY <1>1, <1>2
<1> HIDE DEF AboveOf
<1>4. \A p \in Paths : AboveOf[p] = IF p = TopDir THEN {} ELSE {p} \cup AboveOf[Info[p].parent]
  BY <1>3 DEF ClimbOn
<1> QED BY <1>4, TreeAssumption DEF Under

(* The files of the walk are those that nothing hides.                      *)
LEMMA WalkedIsSeen == FilesOf(Walk) = Seen
<1> DEFINE W == Below(TopDir)
<1>0. TopDir \in Paths /\ IsDir(TopDir)
  BY TreeAssumption DEF IsDir
<1>1. /\ Entries(TopDir) \subseteq W /\ Closed(W) /\ W \subseteq Paths
      /\ \A X \in SUBSET Paths : Entries(TopDir) \subseteq X /\ Closed(X) => W \subseteq X
  BY <1>0, BelowIs
<1> HIDE DEF W
<1>2. ASSUME NEW p \in W PROVE p \in Under /\ AboveOf[p] \subseteq Visible /\ Info[p].kind # "link"
  <2> DEFINE X == {x \in Under : AboveOf[x] \subseteq Visible /\ Info[x].kind # "link"}
  <2>1. ASSUME NEW d \in Paths, NEW x \in Entries(d), AboveOf[d] \subseteq Visible PROVE x \in X
    <3>1. x \in Under /\ Info[x].parent = d /\ x \in Visible /\ Info[x].kind # "link"
      BY DEF Entries, Under, Visible
    <3>2. AboveOf[x] = {x} \cup AboveOf[d]
      BY <3>1, AboveIs
    <3> QED BY <2>1, <3>1, <3>2
  <2>2. Entries(TopDir) \subseteq X
    BY <1>0, <2>1, AboveIs
  <2>3. Closed(X)
    BY <2>1 DEF Closed, Under
  <2>4. X \in SUBSET Paths
    BY DEF Under
  <2>5. p \in X
    BY <1>1, <2>2, <2>3, <2>4
  <2> QED BY <2>5
<1>3. ASSUME NEW p \in Under, AboveOf[p] \subseteq Visible PROVE p \in W
  <2> DEFINE U == {x \in Under : AboveOf[x] \subseteq Visible /\ x \notin W}
  <2>1. SUFFICES ASSUME U # {} PROVE FALSE
    BY <1>3
  <2>2. PICK x \in U : Info[x].parent \notin U
    <3> U \in SUBSET (Paths \ {TopDir})
      BY DEF Under
    <3> HIDE DEF U
    <3> QED BY <2>1, TreeAssumption
  <2> DEFINE d == Info[x].parent
  <2>3. d \in Paths /\ IsDir(d) /\ AboveOf[x] = {x} \cup AboveOf[d]
    BY TreeAssumption, AboveIs DEF Under, IsDir
  <2>4. x \in Entries(d)
    BY <2>3 DEF Entries, Under, Visible
  <2>5. d = TopDir \/ d \in W
    BY <2>2, <2>3 DEF Under
  <2>6. x \in W
    BY <1>1, <2>3, <2>4, <2>5 DEF Closed
  <2> QED BY <2>6
<1>4. ASSUME NEW p \in Paths PROVE p \in W /\ ~IsDir(p) <=> p \in Seen
  <2>1. CASE p \in W /\ ~IsDir(p)
    <3>1. Info[p].kind = "file"
      BY <1>2, <2>1, TreeAssumption DEF IsDir
    <3> QED BY <1>2, <2>1, <3>1 DEF Seen
  <2>2. CASE p \in Seen
    <3>1. Info[p].kind = "file" /\ p # TopDir /\ ~IsDir(p)
      BY <1>0, <2>2 DEF Seen, IsDir
    <3>2. p \in Under
      BY <3>1 DEF Under
    <3>3. AboveOf[p] \subseteq Visible
      BY <2>2 DEF Seen
    <3>4. p \in W
      BY <1>3, <3>2, <3>3
    <3> QED BY <2>2, <3>1, <3>4
  <2> QED BY <2>1, <2>2
<1>5. Seen \subseteq Paths
  BY DEF Seen
<1> QED BY <1>1, <1>4, <1>5, WalkIs DEF FilesOf, W

(* The list of the files, largest first.                                    *)
LEMMA FilesAre ==
  /\ BySize(Seen) \in Seq(Seen) /\ ToSet(BySize(Seen)) = Seen
  /\ \A i \in DOMAIN BySize(Seen), j \in DOMAIN BySize(Seen) :
       i < j => Info[BySize(Seen)[i]].size > Info[BySize(Seen)[j]].size
<1> DEFINE n == Cardinality(Seen)
           order == BySize(Seen)
           Up == [x \in Seen |-> {y \in Seen : Larger(y, x)}]
<1>1. Ranks(Seen, Up)
  <2>1. IsFiniteSet(Seen)
    <3>1. Seen \in SUBSET Paths /\ IsFiniteSet(Paths)
      BY TreeAssumption DEF Seen
    <3> QED BY <3>1, FS_Subset
  <2>2. \A x \in Seen : Info[x].size \in Nat
    BY TreeAssumption DEF Seen
  <2>3. \A x \in Seen, y \in Seen : x # y => Info[x].size # Info[y].size
    BY TreeAssumption DEF Seen
  <2> HIDE DEF Seen
  <2>4. \A x \in Seen, y \in Seen : x \in Up[y] <=> Info[x].size > Info[y].size
    BY DEF Larger
  <2>5. Up \in [Seen -> SUBSET Seen]
    OBVIOUS
  <2> HIDE DEF Up
  <2>6. \A x \in Seen, y \in Seen : x \in Up[y] => Up[x] \subseteq Up[y]
    BY <2>2, <2>4, <2>5
  <2>7. \A x \in Seen : x \notin Up[x]
    BY <2>2, <2>4
  <2>8. \A x \in Seen, y \in Seen : x # y => x \in Up[y] \/ y \in Up[x]
    BY <2>2, <2>3, <2>4
  <2> QED BY <2>1, <2>5, <2>6, <2>7, <2>8 DEF Ranks
<1>2. \A k \in 1..n : \E x \in Seen : Cardinality(Up[x]) = k - 1
  BY <1>1, RankIs
<1> HIDE DEF n, Seen
<1>3. \A k \in 1..n : order[k] \in Seen /\ Cardinality(Up[order[k]]) = k - 1
  <2> TAKE k \in 1..n
  <2>1. \E x \in Seen : Cardinality({y \in Seen : Larger(y, x)}) = k - 1
    BY <1>2
  <2>2. order[k] = CHOOSE x \in Seen : Cardinality({y \in Seen : Larger(y, x)}) = k - 1
    BY DEF BySize, InOrder, n
  <2>3. order[k] \in Seen /\ Cardinality({y \in Seen : Larger(y, order[k])}) = k - 1
    BY <2>1, <2>2
  <2> QED BY <2>3
<1>4. order \in [1..n -> Seen]
  BY <1>3 DEF BySize, InOrder, n
<1>5. Sorted(order, Seen, Up)
  BY <1>3, <1>4 DEF Sorted, n
<1>6. \A x \in Seen, y \in Seen : x \in Up[y] <=> Info[x].size > Info[y].size
  BY DEF Larger
<1> HIDE DEF order, Up
<1>7. /\ DOMAIN order = 1..n /\ order \in Seq(Seen)
      /\ \A x \in Seen : \E k \in 1..n : order[k] = x
      /\ \A k \in 1..n, l \in 1..n : order[k] \in Seen /\ (order[k] \in Up[order[l]] <=> k < l)
  BY <1>1, <1>5, SortedIs DEF n
<1>8. ToSet(order) = Seen
  BY <1>7 DEF ToSet
<1> QED BY <1>6, <1>7, <1>8 DEF order

(* Sorting places of a list.                                                *)
LEMMA PlacesFinite ==
  ASSUME NEW n \in Nat, NEW S, S \subseteq 1..n
  PROVE  IsFiniteSet(S)
<1>1. IsFiniteSet(1..n)
  <2>1. 1 \in Int /\ n \in Int
    OBVIOUS
  <2> QED BY <2>1, FS_Interval
<1>2. S \in SUBSET (1..n)
  OBVIOUS
<1> QED BY <1>1, <1>2, FS_Subset

(* The technologies listed are the names of the signatures with evidence.   *)
LEMMA TechnologiesAre ==
  ASSUME NEW facts
  PROVE  ToSet(Technologies(facts)) = {s.name : s \in {x \in ToSet(Signals) : x.facts \cap facts # {}}}
<1> DEFINE S == {i \in DOMAIN Signals : Signals[i].facts \cap facts # {}}
           n == Cardinality(S)
           order == InOrder(S, Before)
           Up == [i \in S |-> {j \in S : Before(j, i)}]
<1>0. Signals \in Seq(ToSet(Signals)) /\ DOMAIN Signals = 1..Len(Signals) /\ Len(Signals) \in Nat
  <2>1. Signals \in Seq(ToSet(Signals))
    BY SignalsAssumption
  <2> QED BY <2>1
<1>1. \A i \in DOMAIN Signals : i \in Nat /\ Rank(i) \in Nat /\ Signals[i].confidence \in Nat
  <2> TAKE i \in DOMAIN Signals
  <2>1. Signals[i] \in ToSet(Signals)
    BY <1>0 DEF ToSet
  <2>2. Signals[i].category \in ToSet(CategoryOrder) /\ Signals[i].confidence \in Nat
    BY <2>1, SignalsAssumption
  <2>3. PICK k \in DOMAIN CategoryOrder : CategoryOrder[k] = Signals[i].category
    BY <2>2 DEF ToSet
  <2>4. Rank(i) \in DOMAIN CategoryOrder
    BY <2>3 DEF Rank
  <2>5. CategoryOrder \in Seq(ToSet(CategoryOrder))
    BY SignalsAssumption
  <2>6. DOMAIN CategoryOrder = 1..Len(CategoryOrder) /\ Len(CategoryOrder) \in Nat
    BY <2>5
  <2> QED BY <1>0, <2>2, <2>4, <2>6
<1>2. Ranks(S, Up)
  <2>1. IsFiniteSet(S)
    <3> S \subseteq 1..Len(Signals)
      BY <1>0
    <3> HIDE DEF S
    <3> QED BY <1>0, PlacesFinite
  <2>2. \A i \in S : i \in Nat /\ Rank(i) \in Nat /\ Signals[i].confidence \in Nat
    BY <1>1
  <2> HIDE DEF S
  <2>3. \A i \in S, j \in S : j \in Up[i] <=> Before(j, i)
    OBVIOUS
  <2>4. Up \in [S -> SUBSET S]
    OBVIOUS
  <2> HIDE DEF Up
  <2>5. \A i \in S, j \in S : i # j => Before(i, j) \/ Before(j, i)
    BY <2>2 DEF Before
  <2>6. \A i \in S : ~Before(i, i)
    BY <2>2 DEF Before
  <2>7. \A i \in S, j \in S, k \in S : Before(i, j) /\ Before(j, k) => Before(i, k)
    BY <2>2 DEF Before
  <2>8. \A x \in S, y \in S : x \in Up[y] => Up[x] \subseteq Up[y]
    BY <2>3, <2>4, <2>7
  <2>9. \A x \in S : x \notin Up[x]
    BY <2>3, <2>6
  <2>10. \A x \in S, y \in S : x # y => x \in Up[y] \/ y \in Up[x]
    BY <2>3, <2>5
  <2> QED BY <2>1, <2>4, <2>8, <2>9, <2>10 DEF Ranks
<1>3. \A k \in 1..n : \E x \in S : Cardinality(Up[x]) = k - 1
  BY <1>2, RankIs
<1>4. ToSet(Technologies(facts)) = {Signals[order[k]].name : k \in 1..n}
  <2>1. DOMAIN order = 1..n
    BY DEF InOrder
  <2>2. Technologies(facts) = [k \in DOMAIN order |-> Signals[order[k]].name]
    BY DEF Technologies
  <2> HIDE DEF n, order
  <2> QED BY <2>1, <2>2 DEF ToSet
<1>5. {s.name : s \in {x \in ToSet(Signals) : x.facts \cap facts # {}}} = {Signals[i].name : i \in S}
  BY DEF ToSet
<1> HIDE DEF n, S
<1>6. \A k \in 1..n : order[k] \in S /\ Cardinality(Up[order[k]]) = k - 1
  <2> TAKE k \in 1..n
  <2>1. \E x \in S : Cardinality({y \in S : Before(y, x)}) = k - 1
    BY <1>3
  <2>2. order[k] = CHOOSE x \in S : Cardinality({y \in S : Before(y, x)}) = k - 1
    BY DEF InOrder, n
  <2>3. order[k] \in S /\ Cardinality({y \in S : Before(y, order[k])}) = k - 1
    BY <2>1, <2>2
  <2> QED BY <2>3
<1>7. order \in [1..n -> S]
  BY <1>6 DEF InOrder, n
<1>8. Sorted(order, S, Up)
  BY <1>6, <1>7 DEF Sorted, n
<1> HIDE DEF order, Up
<1>9. \A k \in 1..n : order[k] \in S
  BY <1>6
<1>10. \A x \in S : \E k \in 1..n : order[k] = x
  BY <1>2, <1>8, SortedIs DEF n
<1> QED BY <1>4, <1>5, <1>9, <1>10

LEMMA MinOfTwo ==
  ASSUME NEW n \in Nat, NEW m \in Nat
  PROVE  Min({n, m}) \in Nat /\ Min({n, m}) <= n /\ Min({n, m}) <= m /\ (n <= m => Min({n, m}) = n)
<1>1. \E x \in {n, m} : \A y \in {n, m} : x <= y
  OBVIOUS
<1>2. Min({n, m}) \in {n, m} /\ \A y \in {n, m} : Min({n, m}) <= y
  BY <1>1 DEF Min
<1> HIDE DEF Min
<1> QED BY <1>2

(* The pairs of a place and a place in the list there.                      *)
PairsOf(P, n, D) ==
  /\ n \in Nat /\ \A i \in 1..n : \E m \in Nat : D[i] = 1..m
  /\ \A x \in P : \E i \in 1..n : \E k \in D[i] : x = <<i, k>>

LEMMA PairsFinite ==
  ASSUME NEW P, NEW n, NEW D, PairsOf(P, n, D)
  PROVE  IsFiniteSet(P)
<1> USE DEF PairsOf
<1> DEFINE T == [i \in 1..n |-> {<<i, k>> : k \in D[i]}]
           R == {T[i] : i \in 1..n}
<1>1. \A i \in 1..n : IsFiniteSet(T[i])
  <2> TAKE i \in 1..n
  <2>1. PICK m \in Nat : D[i] = 1..m
    OBVIOUS
  <2>2. IsFiniteSet(1..m)
    <3>1. 1 \in Int /\ m \in Int
      OBVIOUS
    <3> QED BY <3>1, FS_Interval
  <2> DEFINE f == [k \in 1..m |-> <<i, k>>]
  <2>3. f \in Surjection(1..m, T[i])
    BY <2>1 DEF Surjection
  <2> HIDE DEF f, T
  <2> QED BY <2>2, <2>3, FS_Surjection
<1> HIDE DEF T
<1>2. IsFiniteSet(R)
  <2>1. IsFiniteSet(1..n)
    <3>1. 1 \in Int /\ n \in Int
      OBVIOUS
    <3> QED BY <3>1, FS_Interval
  <2> DEFINE f == [i \in 1..n |-> T[i]]
  <2>2. f \in Surjection(1..n, R)
    BY DEF Surjection
  <2> HIDE DEF f, R
  <2> QED BY <2>1, <2>2, FS_Surjection
<1>3. \A t \in R : IsFiniteSet(t)
  BY <1>1
<1> HIDE DEF R
<1>4. IsFiniteSet(UNION R)
  BY <1>2, <1>3, FS_UNION
<1>5. P \subseteq UNION R
  <2> SUFFICES ASSUME NEW x \in P PROVE x \in UNION R
    OBVIOUS
  <2>1. PICK i \in 1..n : \E k \in D[i] : x = <<i, k>>
    OBVIOUS
  <2>2. x \in T[i] /\ T[i] \in R
    BY <2>1 DEF T, R
  <2> QED BY <2>2
<1> HIDE DEF R
<1>6. P \in SUBSET (UNION R)
  BY <1>5
<1> QED BY <1>4, <1>6, FS_Subset

(* The routes of a list of files: the places where they are declared, and   *)
(* where one is declared first.                                             *)
RouteAt(files, x) == Info[files[x[1]]].routes[x[2]]
DeclaredAt(files) == UNION {{i} \X DOMAIN Info[files[i]].routes : i \in DOMAIN files}
FirstAt(files) ==
  {x \in DeclaredAt(files) : \A y \in DeclaredAt(files) : Earlier(y, x) => RouteAt(files, y) # RouteAt(files, x)}
RoutesIn(files) == UNION {ToSet(Info[p].routes) : p \in ToSet(files)}

LEMMA DeclaredIs ==
  ASSUME NEW files \in Seq(Seen)
  PROVE  /\ IsFiniteSet(FirstAt(files)) /\ FirstAt(files) \subseteq DeclaredAt(files)
         /\ DOMAIN files = 1..Len(files) /\ Len(files) \in Nat
         /\ \A x \in DeclaredAt(files) :
              /\ x = <<x[1], x[2]>> /\ x[1] \in Nat /\ x[2] \in Nat /\ x[1] \in DOMAIN files /\ files[x[1]] \in Seen
              /\ RouteAt(files, x) \in ToSet(Info[files[x[1]]].routes)
         /\ \A i \in DOMAIN files : \A r \in ToSet(Info[files[i]].routes) :
              \E k \in DOMAIN Info[files[i]].routes : <<i, k>> \in DeclaredAt(files) /\ RouteAt(files, <<i, k>>) = r
<1> DEFINE D == [i \in 1..Len(files) |-> DOMAIN Info[files[i]].routes]
<1>1. DOMAIN files = 1..Len(files) /\ Len(files) \in Nat /\ \A i \in DOMAIN files : files[i] \in Seen
  OBVIOUS
<1>2. ASSUME NEW i \in DOMAIN files
      PROVE  /\ DOMAIN Info[files[i]].routes = 1..Len(Info[files[i]].routes)
             /\ Len(Info[files[i]].routes) \in Nat
  <2>1. files[i] \in Paths
    BY <1>1 DEF Seen
  <2>2. Info[files[i]].routes \in Seq(ToSet(Info[files[i]].routes))
    BY <2>1, TreeAssumption
  <2> QED BY <2>2
<1>3. ASSUME NEW x \in DeclaredAt(files)
      PROVE  /\ x[1] \in DOMAIN files /\ x[2] \in DOMAIN Info[files[x[1]]].routes /\ x = <<x[1], x[2]>>
  <2>1. PICK i \in DOMAIN files : x \in {i} \X DOMAIN Info[files[i]].routes
    BY DEF DeclaredAt
  <2>2. x[1] = i /\ x[2] \in DOMAIN Info[files[i]].routes /\ x = <<x[1], x[2]>>
    BY <2>1
  <2> QED BY <2>2
<1>4. ASSUME NEW x \in DeclaredAt(files)
      PROVE  /\ x = <<x[1], x[2]>> /\ x[1] \in Nat /\ x[2] \in Nat /\ x[1] \in DOMAIN files /\ files[x[1]] \in Seen
             /\ RouteAt(files, x) \in ToSet(Info[files[x[1]]].routes)
  <2>1. x[1] \in 1..Len(files) /\ x[2] \in 1..Len(Info[files[x[1]]].routes) /\ Len(Info[files[x[1]]].routes) \in Nat
    BY <1>1, <1>2, <1>3
  <2>2. x[1] \in Nat /\ x[2] \in Nat
    BY <1>1, <2>1
  <2>3. RouteAt(files, x) \in ToSet(Info[files[x[1]]].routes)
    BY <1>3 DEF RouteAt, ToSet
  <2> QED BY <1>1, <1>3, <2>2, <2>3
<1>5. ASSUME NEW i \in DOMAIN files, NEW r \in ToSet(Info[files[i]].routes)
      PROVE \E k \in DOMAIN Info[files[i]].routes : <<i, k>> \in DeclaredAt(files) /\ RouteAt(files, <<i, k>>) = r
  <2>1. PICK k \in DOMAIN Info[files[i]].routes : Info[files[i]].routes[k] = r
    BY <1>5 DEF ToSet
  <2>2. <<i, k>> \in DeclaredAt(files)
    BY DEF DeclaredAt
  <2>3. RouteAt(files, <<i, k>>) = r
    BY <2>1 DEF RouteAt
  <2> QED BY <2>2, <2>3
<1>6. FirstAt(files) \subseteq DeclaredAt(files)
  BY DEF FirstAt
<1>7. IsFiniteSet(FirstAt(files))
  <2>1. \A i \in 1..Len(files) : \E m \in Nat : D[i] = 1..m
    BY <1>1, <1>2
  <2>2. \A x \in FirstAt(files) : \E i \in 1..Len(files) : \E k \in D[i] : x = <<i, k>>
    BY <1>1, <1>3, <1>6
  <2> HIDE DEF D
  <2>3. PairsOf(FirstAt(files), Len(files), D)
    BY <1>1, <2>1, <2>2 DEF PairsOf
  <2> QED BY <2>3, PairsFinite
<1> QED BY <1>1, <1>4, <1>5, <1>6, <1>7

(* Every route is declared somewhere first, and only there.                 *)
LEMMA FirstHas ==
  ASSUME NEW files \in Seq(Seen), NEW r, NEW z \in DeclaredAt(files), RouteAt(files, z) = r
  PROVE  \E x \in FirstAt(files) : RouteAt(files, x) = r
<1> DEFINE Of == {x \in DeclaredAt(files) : RouteAt(files, x) = r}
           I == {x[1] : x \in Of}
<1>1. \A x \in DeclaredAt(files) : x = <<x[1], x[2]>> /\ x[1] \in Nat /\ x[2] \in Nat
  BY DeclaredIs
<1>2. PICK i \in I : \A j \in I : i <= j
  <2>1. I \subseteq Nat /\ I # {}
    BY <1>1
  <2> HIDE DEF I
  <2> QED BY <2>1, LeastOf
<1> DEFINE K == {x[2] : x \in {y \in Of : y[1] = i}}
<1>3. PICK k \in K : \A l \in K : k <= l
  <2>1. K \subseteq Nat /\ K # {}
    BY <1>1, <1>2
  <2> HIDE DEF K
  <2> QED BY <2>1, LeastOf
<1>4. PICK x \in Of : x[1] = i /\ x[2] = k
  BY <1>3
<1>5. ASSUME NEW y \in Of PROVE ~Earlier(y, x)
  <2>1. y[1] \in Nat /\ y[2] \in Nat /\ i \in Nat /\ k \in Nat
    BY <1>1, <1>4
  <2>2. i <= y[1]
    BY <1>2
  <2>3. y[1] = i => k <= y[2]
    BY <1>3
  <2> QED BY <1>4, <2>1, <2>2, <2>3 DEF Earlier
<1>6. x \in FirstAt(files)
  BY <1>4, <1>5 DEF FirstAt
<1> QED BY <1>4, <1>6

LEMMA FirstOnce ==
  ASSUME NEW files \in Seq(Seen), NEW x \in FirstAt(files), NEW y \in FirstAt(files),
         RouteAt(files, x) = RouteAt(files, y)
  PROVE  x = y
<1>1. /\ x = <<x[1], x[2]>> /\ x[1] \in Nat /\ x[2] \in Nat
      /\ y = <<y[1], y[2]>> /\ y[1] \in Nat /\ y[2] \in Nat
  BY DeclaredIs
<1>2. ~Earlier(x, y) /\ ~Earlier(y, x)
  BY DEF FirstAt
<1>3. x[1] = y[1] /\ x[2] = y[2]
  BY <1>1, <1>2 DEF Earlier
<1> QED BY <1>1, <1>3

LEMMA FirstRanks ==
  ASSUME NEW files \in Seq(Seen)
  PROVE  Ranks(FirstAt(files), [x \in FirstAt(files) |-> {y \in FirstAt(files) : Earlier(y, x)}])
<1> DEFINE S == FirstAt(files)
           Up == [x \in S |-> {y \in S : Earlier(y, x)}]
<1>1. IsFiniteSet(S)
  BY DeclaredIs
<1>2. \A x \in S : x = <<x[1], x[2]>> /\ x[1] \in Nat /\ x[2] \in Nat
  BY DeclaredIs
<1> HIDE DEF S
<1>3. \A x \in S, y \in S : y \in Up[x] <=> Earlier(y, x)
  OBVIOUS
<1>4. Up \in [S -> SUBSET S]
  OBVIOUS
<1> HIDE DEF Up
<1>5. \A x \in S, y \in S : x # y => Earlier(x, y) \/ Earlier(y, x)
  <2> SUFFICES ASSUME NEW x \in S, NEW y \in S, ~Earlier(x, y), ~Earlier(y, x) PROVE x = y
    OBVIOUS
  <2>1. x[1] = y[1] /\ x[2] = y[2]
    BY <1>2 DEF Earlier
  <2> QED BY <1>2, <2>1
<1>6. \A x \in S : ~Earlier(x, x)
  BY <1>2 DEF Earlier
<1>7. ASSUME NEW x \in S, NEW y \in S, NEW z \in S, Earlier(x, y), Earlier(y, z) PROVE Earlier(x, z)
  <2>1. /\ x[1] \in Nat /\ x[2] \in Nat /\ y[1] \in Nat /\ y[2] \in Nat /\ z[1] \in Nat /\ z[2] \in Nat
    BY <1>2
  <2> QED BY <1>7, <2>1 DEF Earlier
<1>8. \A x \in S, y \in S : x \in Up[y] => Up[x] \subseteq Up[y]
  BY <1>3, <1>4, <1>7
<1>9. \A x \in S : x \notin Up[x]
  BY <1>3, <1>6
<1>10. \A x \in S, y \in S : x # y => x \in Up[y] \/ y \in Up[x]
  BY <1>3, <1>5
<1>11. Ranks(S, Up)
  BY <1>1, <1>4, <1>8, <1>9, <1>10 DEF Ranks
<1> QED BY <1>11 DEF S, Up

(* The list of the routes, of which the first MaxEndpoints are kept.        *)
MetIn(files) == InOrder(FirstAt(files), Earlier)

LEMMA MetIs ==
  ASSUME NEW files \in Seq(Seen)
  PROVE  LET n == Cardinality(FirstAt(files)) IN
         /\ n \in Nat /\ \A k \in 1..n : MetIn(files)[k] \in FirstAt(files)
         /\ \A k \in 1..n, l \in 1..n : MetIn(files)[k] = MetIn(files)[l] => k = l
         /\ \A x \in FirstAt(files) : \E k \in 1..n : MetIn(files)[k] = x
<1> DEFINE S == FirstAt(files)
           n == Cardinality(S)
           order == MetIn(files)
           Up == [x \in S |-> {y \in S : Earlier(y, x)}]
<1>1. Ranks(S, Up)
  BY FirstRanks
<1>2. \A k \in 1..n : \E x \in S : Cardinality(Up[x]) = k - 1
  <2> HIDE DEF Up, S
  <2> QED BY <1>1, RankIs
<1> HIDE DEF n, S
<1>3. \A k \in 1..n : order[k] \in S /\ Cardinality(Up[order[k]]) = k - 1
  <2> TAKE k \in 1..n
  <2>1. \E x \in S : Cardinality({y \in S : Earlier(y, x)}) = k - 1
    BY <1>2
  <2>2. order[k] = CHOOSE x \in S : Cardinality({y \in S : Earlier(y, x)}) = k - 1
    BY DEF MetIn, InOrder, n, S
  <2>3. order[k] \in S /\ Cardinality({y \in S : Earlier(y, order[k])}) = k - 1
    BY <2>1, <2>2
  <2> QED BY <2>3
<1>4. order \in [1..n -> S]
  BY <1>3 DEF MetIn, InOrder, n, S
<1>5. Sorted(order, S, Up)
  BY <1>3, <1>4 DEF Sorted, n
<1> HIDE DEF order, Up
<1>6. /\ n \in Nat /\ \A k \in 1..n : order[k] \in S
      /\ \A k \in 1..n, l \in 1..n : order[k] = order[l] => k = l
      /\ \A x \in S : \E k \in 1..n : order[k] = x
  BY <1>1, <1>5, SortedIs DEF n
<1> QED BY <1>6 DEF order, n, S

LEMMA RoutesAre == RoutesAreExact(RoutesOf(BySize(Seen)))
<1> DEFINE files == BySize(Seen)
           S == FirstAt(files)
           n == Cardinality(S)
           m == Min({n, MaxEndpoints})
           Route(x) == RouteAt(files, x)
           met == MetIn(files)
           api == RoutesOf(files)
           listed == {api[i][1] : i \in DOMAIN api}
           routes == UNION {ToSet(Info[p].routes) : p \in Seen}
<1>0. /\ files \in Seq(Seen) /\ ToSet(files) = Seen
      /\ \A i \in DOMAIN files, j \in DOMAIN files : i < j => Info[files[i]].size > Info[files[j]].size
  BY FilesAre
<1> HIDE DEF files
<1>1. api = [k \in 1..m |-> <<Route(met[k]), files[met[k][1]]>>]
  BY DEF RoutesOf, MetIn, FirstAt, DeclaredAt, RouteAt
<1>2. /\ n \in Nat /\ \A k \in 1..n : met[k] \in S
      /\ \A k \in 1..n, l \in 1..n : met[k] = met[l] => k = l
      /\ \A x \in S : \E k \in 1..n : met[k] = x
  BY <1>0, MetIs
<1>3. m \in Nat /\ m <= n /\ (n <= MaxEndpoints => m = n) /\ 1..m \subseteq 1..n
  <2>1. MaxEndpoints \in Nat
    BY ProfileAssumption
  <2> HIDE DEF n
  <2>2. m \in Nat /\ m <= n /\ (n <= MaxEndpoints => m = n)
    BY <1>2, <2>1, MinOfTwo
  <2> HIDE DEF m
  <2> QED BY <1>2, <2>2
<1>4. /\ IsFiniteSet(S)
      /\ \A x \in S : /\ x[1] \in Nat /\ x[1] \in DOMAIN files /\ files[x[1]] \in Seen
                      /\ Route(x) \in ToSet(Info[files[x[1]]].routes)
  BY <1>0, DeclaredIs
<1>5. \A x \in S, y \in S : Route(x) = Route(y) => x = y
  BY <1>0, FirstOnce
<1>6. \A x \in S : Route(x) \in routes
  BY <1>4
<1>7. ASSUME NEW r \in routes PROVE \E x \in S : Route(x) = r
  <2>1. PICK p \in Seen : r \in ToSet(Info[p].routes)
    OBVIOUS
  <2>2. PICK i \in DOMAIN files : files[i] = p
    BY <1>0 DEF ToSet
  <2>3. PICK k \in DOMAIN Info[files[i]].routes : <<i, k>> \in DeclaredAt(files) /\ RouteAt(files, <<i, k>>) = r
    BY <1>0, <2>1, <2>2, DeclaredIs
  <2> QED BY <1>0, <2>3, FirstHas
<1>8. ASSUME NEW x \in S, NEW p \in Seen, Route(x) \in ToSet(Info[p].routes)
      PROVE  Info[p].size <= Info[files[x[1]]].size
  <2>1. PICK j \in DOMAIN files : files[j] = p
    BY <1>0 DEF ToSet
  <2>2. PICK k \in DOMAIN Info[files[j]].routes : <<j, k>> \in DeclaredAt(files) /\ RouteAt(files, <<j, k>>) = Route(x)
    BY <1>0, <1>8, <2>1, DeclaredIs
  <2>3. ~Earlier(<<j, k>>, x)
    BY <2>2 DEF FirstAt
  <2>4. j \in Nat /\ x[1] \in Nat /\ x[1] \in DOMAIN files /\ files[x[1]] \in Seen
    BY <1>0, <1>4, <2>2, DeclaredIs
  <2>5. ~(j < x[1])
    BY <2>3 DEF Earlier
  <2>6. Info[files[j]].size \in Nat
    BY <2>1, TreeAssumption DEF Seen
  <2>7. CASE j = x[1]
    BY <2>1, <2>6, <2>7
  <2>8. CASE j # x[1]
    <3>1. x[1] < j
      BY <2>4, <2>5, <2>8
    <3>2. Info[files[x[1]]].size > Info[files[j]].size
      BY <1>0, <2>4, <3>1
    <3>3. Info[files[x[1]]].size \in Nat
      BY <2>4, TreeAssumption DEF Seen
    <3> QED BY <2>1, <2>6, <3>2, <3>3
  <2> QED BY <2>7, <2>8
<1> HIDE DEF S, Route, met, routes
<1>9. DOMAIN api = 1..m /\ Len(api) = m /\ \A k \in 1..m : api[k][1] = Route(met[k]) /\ api[k][2] = files[met[k][1]]
  <2> HIDE DEF m, api
  <2> QED BY <1>1, <1>3
<1> HIDE DEF m, api
<1>10. listed = {Route(met[k]) : k \in 1..m}
  BY <1>9
<1>11. listed \subseteq routes
  BY <1>2, <1>3, <1>6, <1>10
<1>12. Cardinality(listed) = m
  <2> DEFINE f == [k \in 1..m |-> Route(met[k])]
  <2>1. f \in Surjection(1..m, listed)
    BY <1>10 DEF Surjection
  <2>2. f \in Injection(1..m, listed)
    <3>1. \A k \in 1..m, l \in 1..m : f[k] = f[l] => k = l
      BY <1>2, <1>3, <1>5
    <3> QED BY <2>1, <3>1 DEF Injection, IsInjective, Surjection
  <2>3. IsFiniteSet(1..m) /\ Cardinality(1..m) = m
    <3>1. 1 \in Int /\ m \in Int /\ m \in Nat
      BY <1>3
    <3>2. IsFiniteSet(1..m) /\ Cardinality(1..m) = IF 1 > m THEN 0 ELSE m - 1 + 1
      BY <3>1, FS_Interval
    <3>3. (IF 1 > m THEN 0 ELSE m - 1 + 1) = m
      BY <3>1
    <3> QED BY <3>2, <3>3
  <2> HIDE DEF f, listed
  <2> QED BY <2>1, <2>2, <2>3, FS_Surjection
<1>13. Cardinality(routes) = n
  <2> DEFINE f == [x \in S |-> Route(x)]
  <2>1. f \in Surjection(S, routes)
    BY <1>6, <1>7 DEF Surjection
  <2>2. f \in Injection(S, routes)
    BY <1>5, <2>1 DEF Injection, IsInjective, Surjection
  <2> HIDE DEF f
  <2> QED BY <1>4, <2>1, <2>2, FS_Surjection DEF n
<1>14. Cardinality(routes) <= MaxEndpoints => listed = routes
  <2> SUFFICES ASSUME n <= MaxEndpoints, NEW r \in routes PROVE r \in listed
    BY <1>11, <1>13
  <2>1. PICK x \in S : Route(x) = r
    BY <1>7
  <2>2. PICK k \in 1..n : met[k] = x
    BY <1>2
  <2> QED BY <1>3, <1>10, <2>1, <2>2
<1>15. ASSUME NEW i \in DOMAIN api, NEW p \in Seen, api[i][1] \in ToSet(Info[p].routes)
       PROVE  Info[p].size <= Info[api[i][2]].size
  <2>1. i \in 1..n /\ api[i][1] = Route(met[i]) /\ api[i][2] = files[met[i][1]] /\ met[i] \in S
    BY <1>2, <1>3, <1>9
  <2> HIDE DEF n, listed
  <2> QED BY <1>8, <1>15, <2>1
<1> QED BY <1>9, <1>11, <1>12, <1>14, <1>15 DEF RoutesAreExact, api, files, routes

(* A list of what another has at some of its places.                        *)
LEMMA FilteredIs ==
  ASSUME NEW T, NEW seq \in Seq(T), NEW I, I \subseteq DOMAIN seq
  PROVE  Filtered(seq, I) \in Seq(T) /\ ToSet(Filtered(seq, I)) = {seq[i] : i \in I}
<1> DEFINE n == Cardinality(I)
           order == InOrder(I, Sooner)
           Up == [i \in I |-> {j \in I : Sooner(j, i)}]
<1>0. DOMAIN seq = 1..Len(seq) /\ Len(seq) \in Nat /\ I \subseteq 1..Len(seq)
  OBVIOUS
<1>1. Ranks(I, Up)
  <2>1. IsFiniteSet(I)
    BY <1>0, PlacesFinite
  <2>2. \A i \in I : i \in Nat
    BY <1>0
  <2>3. Up \in [I -> SUBSET I]
    OBVIOUS
  <2> QED BY <2>1, <2>2, <2>3 DEF Ranks, Sooner
<1>2. \A k \in 1..n : \E x \in I : Cardinality(Up[x]) = k - 1
  BY <1>1, RankIs
<1>3. Filtered(seq, I) = [k \in DOMAIN order |-> seq[order[k]]] /\ DOMAIN order = 1..n
  BY DEF Filtered, InOrder
<1> HIDE DEF n
<1>4. \A k \in 1..n : order[k] \in I /\ Cardinality(Up[order[k]]) = k - 1
  <2> TAKE k \in 1..n
  <2>1. \E x \in I : Cardinality({y \in I : Sooner(y, x)}) = k - 1
    BY <1>2
  <2>2. order[k] = CHOOSE x \in I : Cardinality({y \in I : Sooner(y, x)}) = k - 1
    BY DEF InOrder, n
  <2>3. order[k] \in I /\ Cardinality({y \in I : Sooner(y, order[k])}) = k - 1
    BY <2>1, <2>2
  <2> QED BY <2>3
<1>5. order \in [1..n -> I]
  BY <1>4 DEF InOrder, n
<1>6. Sorted(order, I, Up)
  BY <1>4, <1>5 DEF Sorted, n
<1> HIDE DEF order, Up
<1>7. n \in Nat /\ \A x \in I : \E k \in 1..n : order[k] = x
  BY <1>1, <1>6, SortedIs DEF n
<1>8. \A i \in I : seq[i] \in T
  BY <1>0
<1> DEFINE new == [k \in 1..n |-> seq[order[k]]]
<1>9. new \in [1..n -> T]
  BY <1>4, <1>8
<1>10. new \in Seq(T) /\ DOMAIN new = 1..n
  <2> HIDE DEF new
  <2> QED BY <1>7, <1>9, ListIs
<1>11. ToSet(new) = {seq[i] : i \in I}
  BY <1>4, <1>7 DEF ToSet
<1> QED BY <1>3, <1>10, <1>11

-----------------------------------------------------------------------------
(* What a call with a directory of its own has of the repository: its tree  *)
(* from the clone to the last analyzer, and what each of them returned.     *)
ProfileFields == {"files", "dirs", "tech", "ecosystems", "shape", "api", "schemes", "guards", "next"}
TreePC == {"size", "walk", "technology", "dependencies", "architecture", "api", "schemes", "guards", "ready"}
WalkedPC == {"technology", "dependencies", "architecture", "api", "schemes", "guards", "ready", "dispose", "done"}
DetectedPC == WalkedPC \ {"technology"}
ResolvedPC == DetectedPC \ {"dependencies"}
RoutedPC == ResolvedPC \ {"architecture", "api"}
GuardedFiles == {p \in Paths : Info[p].guards # {} \/ Info[p].named}
DeclaredBy(broken) ==
  LET Read(p) == Info[p].parent = TopDir /\ ~(broken /\ Info[p].name = "package.json")
  IN UNION {Info[p].deps : p \in {q \in Paths \ {TopDir} : Read(q)}}
EcosystemsIn == {m \in ToSet(Manifests) : \E p \in Paths : Info[p].parent = TopDir /\ Info[p].name = m}

ProfileAt(at, tree, prof, broken) ==
  /\ at \in TreePC => tree = "whole"
  /\ prof = [x \in ProfileFields |-> prof[x]]
  /\ prof.files \in Seq(Seen) /\ prof.next \in Nat \ {0} /\ prof.guards \in Seq(GuardedFiles)
  /\ at \in WalkedPC => prof.files = BySize(Seen)
  /\ at \in DetectedPC => prof.tech = Technologies(Facts(Seen, prof.dirs, DeclaredBy(broken)))
  /\ at \in ResolvedPC => ~broken /\ prof.ecosystems = EcosystemsIn
  /\ at \in RoutedPC => prof.api = RoutesOf(BySize(Seen))

ProfileOf(a) == ProfileAt(analysisPc[a], trees[stampOf[a]], profiles[a], checkout.broken)

ProfileInv ==
  /\ ProfileTypes /\ profiles = [a \in Analyses |-> profiles[a]]
  /\ \A a \in Analyses : analysisPc[a] = "idle" => stampOf[a] = 0
  /\ \A a \in Analyses : ~Shares(a) => ProfileOf(a)

(* What a step of one call leaves of the others.                            *)
LEMMA OthersStay ==
  ASSUME ProfileTypes, profiles = [b \in Analyses |-> profiles[b]], NEW a \in Analyses, AnalysisStep(a) \/ Dispose(a)
  PROVE  /\ \A b \in Analyses \ {a} : /\ analysisPc'[b] = analysisPc[b] /\ stampOf'[b] = stampOf[b]
                                     /\ profiles'[b] = profiles[b]
         /\ analysisPc[a] # "idle" => stampOf' = stampOf
         /\ analysisPc[a] # "idle" => analysisPc'[a] # "idle"
         /\ \A t \in Stamps : t # stampOf[a] => trees'[t] = trees[t]
         /\ checkout' = checkout /\ profiles' = [b \in Analyses |-> profiles'[b]]
<1> USE DEF ProfileTypes, AnalysisPC, Analysing
<1>1. CASE StartAnalysis(a)
  BY <1>1 DEF StartAnalysis
<1>2. CASE GitStarts(a)
  BY <1>2 DEF GitStarts
<1>3. CASE GitEnds(a)
  BY <1>3 DEF GitEnds
<1>4. CASE MeasureTree(a)
  BY <1>4 DEF MeasureTree
<1>5. CASE RemoveTree(a)
  BY <1>5 DEF RemoveTree
<1>6. CASE WalkTree(a)
  BY <1>6 DEF WalkTree
<1>7. CASE Detect(a)
  BY <1>7 DEF Detect
<1>8. CASE ReadManifests(a)
  BY <1>8 DEF ReadManifests, OnError
<1>9. CASE DetectShape(a)
  BY <1>9 DEF DetectShape
<1>10. CASE ListRoutes(a)
  BY <1>10 DEF ListRoutes
<1>11. CASE ListSchemes(a)
  BY <1>11 DEF ListSchemes
<1>12. CASE TestGuards(a)
  BY <1>12 DEF TestGuards
<1>13. CASE Prepared(a)
  BY <1>13 DEF Prepared
<1>14. CASE Dispose(a)
  BY <1>14 DEF Dispose
<1> QED BY <1>1, <1>2, <1>3, <1>4, <1>5, <1>6, <1>7, <1>8, <1>9, <1>10, <1>11, <1>12, <1>13, <1>14 DEF AnalysisStep

LEMMA DeclaredIsBy ==
  ASSUME NEW a, Readable(a)
  PROVE  Declared(a) = DeclaredBy(checkout.broken)
BY DEF Declared, DeclaredBy

(* The steps that leave the profile alone.                                  *)
LEMMA TreeSteps ==
  ASSUME ProfileTypes, profiles = [b \in Analyses |-> profiles[b]], NEW a \in Analyses, ProfileOf(a), 
         StartAnalysis(a) \/ GitStarts(a) \/ GitEnds(a) \/ MeasureTree(a) \/ RemoveTree(a) \/ Prepared(a) \/ Dispose(a)
  PROVE  ProfileOf(a)'
<1> DEFINE prof == profiles[a]
<1>0. ProfileAt(analysisPc[a], trees[stampOf[a]], prof, checkout.broken)
  BY DEF ProfileOf
<1>1. profiles' = profiles /\ checkout' = checkout
  BY DEF StartAnalysis, GitStarts, GitEnds, MeasureTree, RemoveTree, Prepared, Dispose
<1> HIDE DEF prof
<1>2. ASSUME analysisPc'[a] \in TreePC => trees'[stampOf'[a]] = "whole",
             analysisPc'[a] \in WalkedPC => analysisPc[a] \in RoutedPC
      PROVE  ProfileOf(a)'
  <2>1. profiles'[a] = prof
    BY <1>1 DEF prof
  <2>2. checkout'.broken = checkout.broken
    BY <1>1
  <2> QED BY <1>0, <1>2, <2>1, <2>2 DEF ProfileOf, ProfileAt, WalkedPC, DetectedPC, ResolvedPC, RoutedPC
<1>3. CASE StartAnalysis(a)
  BY <1>0, <1>2, <1>3 DEF StartAnalysis, Analysing, ProfileTypes, ProfileAt, TreePC, WalkedPC, DetectedPC, ResolvedPC, RoutedPC
<1>4. CASE GitStarts(a)
  BY <1>0, <1>2, <1>4 DEF GitStarts, Analysing, ProfileTypes, ProfileAt, TreePC, WalkedPC, DetectedPC, ResolvedPC, RoutedPC
<1>5. CASE GitEnds(a)
  BY <1>0, <1>2, <1>5 DEF GitEnds, Analysing, ProfileTypes, ProfileAt, TreePC, WalkedPC, DetectedPC, ResolvedPC, RoutedPC
<1>6. CASE MeasureTree(a)
  BY <1>0, <1>2, <1>6 DEF MeasureTree, Analysing, ProfileTypes, ProfileAt, TreePC, WalkedPC, DetectedPC, ResolvedPC, RoutedPC
<1>7. CASE RemoveTree(a)
  BY <1>0, <1>2, <1>7 DEF RemoveTree, Analysing, ProfileTypes, ProfileAt, TreePC, WalkedPC, DetectedPC, ResolvedPC, RoutedPC
<1>8. CASE Prepared(a)
  BY <1>0, <1>2, <1>8 DEF Prepared, Analysing, ProfileTypes, ProfileAt, TreePC, WalkedPC, DetectedPC, ResolvedPC, RoutedPC
<1>9. CASE Dispose(a)
  BY <1>0, <1>2, <1>9 DEF Dispose, Analysing, ProfileTypes, ProfileAt, TreePC, WalkedPC, DetectedPC, ResolvedPC, RoutedPC
<1> QED BY <1>3, <1>4, <1>5, <1>6, <1>7, <1>8, <1>9

LEMMA WalkStep ==
  ASSUME ProfileTypes, profiles = [b \in Analyses |-> profiles[b]], NEW a \in Analyses, ProfileOf(a), WalkTree(a)
  PROVE  ProfileOf(a)'
<1> DEFINE prof == profiles[a]
           new == [prof EXCEPT !.files = BySize(FilesOf(Walk)), !.dirs = Walk \ FilesOf(Walk)]
<1>0. ProfileAt(analysisPc[a], trees[stampOf[a]], prof, checkout.broken)
  BY DEF ProfileOf
<1>1. analysisPc[a] = "walk" /\ analysisPc'[a] = "technology" /\ trees' = trees /\ stampOf' = stampOf /\ checkout' = checkout
  BY DEF WalkTree, Analysing, ProfileTypes
<1> HIDE DEF prof
<1>3. Readable(a) /\ prof = [x \in ProfileFields |-> prof[x]]
  BY <1>0, <1>1 DEF ProfileAt, Readable, TreePC
<1>2. profiles'[a] = new
  BY <1>3 DEF WalkTree, prof
<1>5. /\ new = [x \in ProfileFields |-> new[x]]
      /\ new.files = BySize(Seen) /\ new.files \in Seq(Seen) /\ new.next = prof.next /\ new.guards = prof.guards
  BY <1>3, WalkedIsSeen, FilesAre DEF ProfileFields
<1> HIDE DEF new
<1> QED BY <1>0, <1>1, <1>2, <1>5 DEF ProfileOf, ProfileAt, TreePC, WalkedPC, DetectedPC, ResolvedPC, RoutedPC

LEMMA DetectStep ==
  ASSUME ProfileTypes, profiles = [b \in Analyses |-> profiles[b]], NEW a \in Analyses, ProfileOf(a), Detect(a)
  PROVE  ProfileOf(a)'
<1> DEFINE prof == profiles[a]
           new == [prof EXCEPT !.tech = Technologies(Facts(Listed(a), prof.dirs, Declared(a)))]
<1>0. ProfileAt(analysisPc[a], trees[stampOf[a]], prof, checkout.broken)
  BY DEF ProfileOf
<1>1. analysisPc[a] = "technology" /\ analysisPc'[a] = "dependencies" /\ trees' = trees /\ stampOf' = stampOf /\ checkout' = checkout
  BY DEF Detect, Analysing, ProfileTypes
<1>2. profiles'[a] = new
  BY DEF Detect
<1> HIDE DEF prof
<1>3. Readable(a) /\ prof.files = BySize(Seen) /\ prof = [x \in ProfileFields |-> prof[x]]
  BY <1>0, <1>1 DEF ProfileAt, Readable, TreePC, WalkedPC
<1>4. Listed(a) = Seen /\ Declared(a) = DeclaredBy(checkout.broken)
  BY <1>3, DeclaredIsBy, FilesAre DEF Listed, prof
<1>5. /\ new = [x \in ProfileFields |-> new[x]]
      /\ new.tech = Technologies(Facts(Seen, prof.dirs, DeclaredBy(checkout.broken)))
      /\ new.files = prof.files /\ new.next = prof.next /\ new.guards = prof.guards
      /\ new.dirs = prof.dirs /\ new.ecosystems = prof.ecosystems /\ new.api = prof.api
  BY <1>3, <1>4 DEF ProfileFields
<1> HIDE DEF new
<1> QED BY <1>0, <1>1, <1>2, <1>5 DEF ProfileOf, ProfileAt, TreePC, WalkedPC, DetectedPC, ResolvedPC, RoutedPC

LEMMA ManifestsStep ==
  ASSUME ProfileTypes, profiles = [b \in Analyses |-> profiles[b]], NEW a \in Analyses, ProfileOf(a), ReadManifests(a)
  PROVE  ProfileOf(a)'
<1> DEFINE prof == profiles[a]
           new == [prof EXCEPT !.ecosystems = EcosystemsIn]
<1>0. ProfileAt(analysisPc[a], trees[stampOf[a]], prof, checkout.broken)
  BY DEF ProfileOf
<1>1. analysisPc[a] = "dependencies" /\ trees' = trees /\ stampOf' = stampOf /\ checkout' = checkout
  BY DEF ReadManifests, Analysing, ProfileTypes
<1> HIDE DEF prof
<1>3. Readable(a) /\ prof = [x \in ProfileFields |-> prof[x]]
  BY <1>0, <1>1 DEF ProfileAt, Readable, TreePC
<1>4. CASE checkout.broken
  <2>1. analysisPc'[a] = "discard" /\ profiles' = profiles
    BY <1>3, <1>4 DEF ReadManifests, OnError, Analysing, ProfileTypes
  <2>2. profiles'[a] = prof
    BY <2>1 DEF prof
  <2> QED BY <1>0, <1>1, <2>1, <2>2 DEF ProfileOf, ProfileAt, TreePC, WalkedPC, DetectedPC, ResolvedPC, RoutedPC
<1>5. CASE ~checkout.broken
  <2>1. analysisPc'[a] = "architecture"
    BY <1>3, <1>5 DEF ReadManifests, Analysing, ProfileTypes
  <2>2. profiles'[a] = new
    BY <1>3, <1>5 DEF ReadManifests, EcosystemsIn, prof
  <2>3. /\ new = [x \in ProfileFields |-> new[x]] /\ new.ecosystems = EcosystemsIn
        /\ new.files = prof.files /\ new.next = prof.next /\ new.guards = prof.guards
        /\ new.dirs = prof.dirs /\ new.tech = prof.tech /\ new.api = prof.api
    BY <1>3 DEF ProfileFields
  <2> HIDE DEF new
  <2> QED BY <1>0, <1>1, <1>5, <2>1, <2>2, <2>3 DEF ProfileOf, ProfileAt, TreePC, WalkedPC, DetectedPC, ResolvedPC, RoutedPC
<1> QED BY <1>4, <1>5

LEMMA ShapeStep ==
  ASSUME ProfileTypes, profiles = [b \in Analyses |-> profiles[b]], NEW a \in Analyses, ProfileOf(a), DetectShape(a)
  PROVE  ProfileOf(a)'
<1> DEFINE prof == profiles[a]
           new == [prof EXCEPT !.shape = Primary(Shapes(Listed(a), prof.dirs))]
<1>0. ProfileAt(analysisPc[a], trees[stampOf[a]], prof, checkout.broken)
  BY DEF ProfileOf
<1>1. analysisPc[a] = "architecture" /\ analysisPc'[a] = "api" /\ trees' = trees /\ stampOf' = stampOf /\ checkout' = checkout
  BY DEF DetectShape, Analysing, ProfileTypes
<1>2. profiles'[a] = new
  BY DEF DetectShape
<1> HIDE DEF prof
<1>3. Readable(a) /\ prof = [x \in ProfileFields |-> prof[x]]
  BY <1>0, <1>1 DEF ProfileAt, Readable, TreePC
<1>5. /\ new = [x \in ProfileFields |-> new[x]]
      /\ new.files = prof.files /\ new.next = prof.next /\ new.guards = prof.guards
      /\ new.dirs = prof.dirs /\ new.tech = prof.tech /\ new.ecosystems = prof.ecosystems /\ new.api = prof.api
  BY <1>3 DEF ProfileFields
<1> HIDE DEF new
<1> QED BY <1>0, <1>1, <1>2, <1>5 DEF ProfileOf, ProfileAt, TreePC, WalkedPC, DetectedPC, ResolvedPC, RoutedPC

LEMMA RoutesStep ==
  ASSUME ProfileTypes, profiles = [b \in Analyses |-> profiles[b]], NEW a \in Analyses, ProfileOf(a), ListRoutes(a)
  PROVE  ProfileOf(a)'
<1> DEFINE prof == profiles[a]
           new == [prof EXCEPT !.api = RoutesOf(BySize(Seen))]
<1>0. ProfileAt(analysisPc[a], trees[stampOf[a]], prof, checkout.broken)
  BY DEF ProfileOf
<1>1. analysisPc[a] = "api" /\ analysisPc'[a] = "schemes" /\ trees' = trees /\ stampOf' = stampOf /\ checkout' = checkout
  BY DEF ListRoutes, Analysing, ProfileTypes
<1> HIDE DEF prof
<1>3. Readable(a) /\ prof = [x \in ProfileFields |-> prof[x]]
  BY <1>0, <1>1 DEF ProfileAt, Readable, TreePC
<1>4. prof.files = BySize(Seen)
  BY <1>0, <1>1 DEF ProfileAt, WalkedPC
<1>2. profiles'[a] = new
  BY <1>3, <1>4 DEF ListRoutes, prof
<1>5. /\ new = [x \in ProfileFields |-> new[x]] /\ new.api = RoutesOf(BySize(Seen))
      /\ new.files = prof.files /\ new.next = prof.next /\ new.guards = prof.guards
      /\ new.dirs = prof.dirs /\ new.tech = prof.tech /\ new.ecosystems = prof.ecosystems
  BY <1>3 DEF ProfileFields
<1> HIDE DEF new
<1> QED BY <1>0, <1>1, <1>2, <1>5 DEF ProfileOf, ProfileAt, TreePC, WalkedPC, DetectedPC, ResolvedPC, RoutedPC

LEMMA SchemesStep ==
  ASSUME ProfileTypes, profiles = [b \in Analyses |-> profiles[b]], NEW a \in Analyses, ProfileOf(a), ListSchemes(a)
  PROVE  ProfileOf(a)'
<1> DEFINE prof == profiles[a]
           new == [prof EXCEPT !.schemes = {SchemeOf[d] : d \in Declared(a)} \ {"none"}]
<1>0. ProfileAt(analysisPc[a], trees[stampOf[a]], prof, checkout.broken)
  BY DEF ProfileOf
<1>1. analysisPc[a] = "schemes" /\ analysisPc'[a] = "guards" /\ trees' = trees /\ stampOf' = stampOf /\ checkout' = checkout
  BY DEF ListSchemes, Analysing, ProfileTypes
<1>2. profiles'[a] = new
  BY DEF ListSchemes
<1> HIDE DEF prof
<1>3. Readable(a) /\ prof = [x \in ProfileFields |-> prof[x]]
  BY <1>0, <1>1 DEF ProfileAt, Readable, TreePC
<1>5. /\ new = [x \in ProfileFields |-> new[x]]
      /\ new.files = prof.files /\ new.next = prof.next /\ new.guards = prof.guards
      /\ new.dirs = prof.dirs /\ new.tech = prof.tech /\ new.ecosystems = prof.ecosystems /\ new.api = prof.api
  BY <1>3 DEF ProfileFields
<1> HIDE DEF new
<1> QED BY <1>0, <1>1, <1>2, <1>5 DEF ProfileOf, ProfileAt, TreePC, WalkedPC, DetectedPC, ResolvedPC, RoutedPC

LEMMA GuardsStep ==
  ASSUME ProfileTypes, profiles = [b \in Analyses |-> profiles[b]], NEW a \in Analyses, ProfileOf(a), TestGuards(a)
  PROVE  ProfileOf(a)'
<1> DEFINE prof == profiles[a]
           file == prof.files[prof.next]
           tested == Info[file].source /\ ~Info[file].named /\ Readable(a)
           ahead == {g \in Info[file].guards : g >= guardIndex}
           found == Info[file].source /\ (Info[file].named \/ (tested /\ ahead # {}))
           new == [prof EXCEPT !.next = @ + 1, !.guards = IF found THEN Append(@, file) ELSE @]
<1>0. ProfileAt(analysisPc[a], trees[stampOf[a]], prof, checkout.broken)
  BY DEF ProfileOf
<1>1. analysisPc[a] = "guards" /\ analysisPc'[a] = "guards" /\ trees' = trees /\ stampOf' = stampOf /\ checkout' = checkout
  BY DEF TestGuards, Analysing, ProfileTypes
<1>3. Readable(a) /\ prof = [x \in ProfileFields |-> prof[x]]
  BY <1>0, <1>1 DEF ProfileAt, Readable, TreePC
<1>2. profiles'[a] = new
  BY <1>3 DEF TestGuards
<1> HIDE DEF prof
<1>4. /\ prof.next \in Nat \ {0} /\ prof.files \in Seq(Seen) /\ prof.next \in 1..Len(prof.files)
      /\ prof.guards \in Seq(GuardedFiles)
  <2>1. prof.next \in Nat \ {0} /\ prof.files \in Seq(Seen) /\ prof.guards \in Seq(GuardedFiles)
    BY <1>0 DEF ProfileAt
  <2>2. ~(prof.next > Len(prof.files))
    BY DEF TestGuards, GuardsOver, prof
  <2> QED BY <2>1, <2>2
<1>6. found => file \in GuardedFiles
  <2>1. file \in Paths
    <3>1. file \in Seen
      BY <1>4
    <3> QED BY <3>1 DEF Seen
  <2> QED BY <2>1 DEF GuardedFiles
<1> HIDE DEF found, file
<1>5. /\ new = [x \in ProfileFields |-> new[x]] /\ new.files \in Seq(Seen)
      /\ new.next \in Nat \ {0} /\ new.guards \in Seq(GuardedFiles)
      /\ new.files = prof.files /\ new.dirs = prof.dirs /\ new.tech = prof.tech
      /\ new.ecosystems = prof.ecosystems /\ new.api = prof.api
  <2>1. new = [x \in ProfileFields |-> new[x]]
    BY <1>3 DEF ProfileFields
  <2>2. new.next = prof.next + 1 /\ new.guards = IF found THEN Append(prof.guards, file) ELSE prof.guards
    BY <1>3 DEF ProfileFields
  <2>3. /\ new.files = prof.files /\ new.dirs = prof.dirs /\ new.tech = prof.tech
        /\ new.ecosystems = prof.ecosystems /\ new.api = prof.api
    BY <1>3 DEF ProfileFields
  <2> HIDE DEF new
  <2>4. new.next \in Nat \ {0}
    BY <1>4, <2>2
  <2>5. new.guards \in Seq(GuardedFiles)
    BY <1>4, <1>6, <2>2
  <2> QED BY <1>4, <2>1, <2>3, <2>4, <2>5
<1> HIDE DEF new
<1> QED BY <1>0, <1>1, <1>2, <1>5 DEF ProfileOf, ProfileAt, TreePC, WalkedPC, DetectedPC, ResolvedPC, RoutedPC


LEMMA OwnSteps ==
  ASSUME ProfileTypes, profiles = [b \in Analyses |-> profiles[b]], NEW a \in Analyses, ProfileOf(a),
         AnalysisStep(a) \/ Dispose(a)
  PROVE  ProfileOf(a)'
BY TreeSteps, WalkStep, DetectStep, ManifestsStep, ShapeStep, RoutesStep, SchemesStep, GuardsStep DEF AnalysisStep

(* Once two calls share a directory they do so for good.                    *)
LEMMA SharesStays ==
  ASSUME ProfileInv, NEW a \in Analyses, AnalysisStep(a) \/ Dispose(a), NEW b \in Analyses, Shares(b)
  PROVE  Shares(b)'
<1>1. PICK c \in Analyses \ {b} : stampOf[c] = stampOf[b] /\ stampOf[b] # 0
  BY DEF Shares
<1>2. \A d \in Analyses : stampOf[d] # 0 => stampOf'[d] = stampOf[d]
  <2>1. /\ \A d \in Analyses \ {a} : stampOf'[d] = stampOf[d]
        /\ analysisPc[a] # "idle" => stampOf' = stampOf
    BY OthersStay DEF ProfileInv
  <2> QED BY <2>1 DEF ProfileInv
<1>3. stampOf'[c] = stampOf'[b] /\ stampOf'[b] # 0
  BY <1>1, <1>2
<1> QED BY <1>3 DEF Shares

LEMMA ProfileSteps ==
  ASSUME ProfileInv, NEW a \in Analyses, AnalysisStep(a) \/ Dispose(a)
  PROVE  ProfileInv'
<1>0. ProfileTypes /\ profiles = [b \in Analyses |-> profiles[b]]
  BY DEF ProfileInv
<1>1. ProfileTypes'
  BY <1>0, TypesStep
<1>2. /\ \A b \in Analyses \ {a} : /\ analysisPc'[b] = analysisPc[b] /\ stampOf'[b] = stampOf[b]
                                   /\ profiles'[b] = profiles[b]
      /\ analysisPc[a] # "idle" => stampOf' = stampOf
      /\ analysisPc[a] # "idle" => analysisPc'[a] # "idle"
      /\ \A t \in Stamps : t # stampOf[a] => trees'[t] = trees[t]
      /\ checkout' = checkout /\ profiles' = [b \in Analyses |-> profiles'[b]]
  BY <1>0, OthersStay
<1>3. analysisPc[a] = "idle" => analysisPc'[a] # "idle"
  BY <1>0 DEF AnalysisStep, Dispose, StartAnalysis, GitStarts, GitEnds, MeasureTree, RemoveTree, WalkTree, Detect,
       ReadManifests, OnError, DetectShape, ListRoutes, ListSchemes, TestGuards, Prepared, Analysing, ProfileTypes
<1>4. \A b \in Analyses : analysisPc'[b] = "idle" => stampOf'[b] = 0
  BY <1>2, <1>3 DEF ProfileInv
<1>5. ASSUME NEW b \in Analyses, ~Shares(b)' PROVE ProfileOf(b)'
  <2>1. ~Shares(b)
    BY <1>5, SharesStays
  <2>2. ProfileOf(b)
    BY <2>1 DEF ProfileInv
  <2>3. CASE b = a
    BY <1>0, <2>2, <2>3, OwnSteps
  <2>4. CASE b # a
    <3>1. analysisPc'[b] = analysisPc[b] /\ stampOf'[b] = stampOf[b] /\ profiles'[b] = profiles[b] /\ checkout' = checkout
      BY <1>2, <2>4
    <3>2. analysisPc[b] \in TreePC => trees'[stampOf[b]] = trees[stampOf[b]]
      <4> SUFFICES ASSUME analysisPc[b] \in TreePC PROVE trees'[stampOf[b]] = trees[stampOf[b]]
        OBVIOUS
      <4>1. stampOf[b] \in Stamps /\ stampOf[b] # 0
        <5>1. stampOf[b] \in Stamps
          BY <1>0 DEF ProfileTypes, TreePC
        <5> QED BY <5>1, ProfileAssumption
      <4>2. stampOf[a] # stampOf[b]
        BY <2>1, <2>4, <4>1 DEF Shares
      <4> QED BY <1>2, <4>1, <4>2
    <3> QED BY <2>2, <3>1, <3>2 DEF ProfileOf, ProfileAt
  <2> QED BY <2>3, <2>4
<1> QED BY <1>1, <1>2, <1>4, <1>5 DEF ProfileInv

LEMMA ProfileBegins == StaticInit => ProfileInv
<1> SUFFICES ASSUME StaticInit PROVE ProfileInv
  OBVIOUS
<1>1. ProfileTypes
  BY DEF StaticInit, ProfileInit, ProfileTypes, AnalysisPC
<1>2. profiles = [a \in Analyses |-> profiles[a]] /\ \A a \in Analyses : analysisPc[a] = "idle" /\ stampOf[a] = 0
  BY DEF StaticInit, ProfileInit
<1>3. ASSUME NEW a \in Analyses PROVE ProfileOf(a)
  <2>1. profiles[a] = NoProfile /\ analysisPc[a] = "idle"
    BY <1>2 DEF StaticInit, ProfileInit
  <2>2. /\ NoProfile = [x \in ProfileFields |-> NoProfile[x]]
        /\ NoProfile.files = <<>> /\ NoProfile.next = 1 /\ NoProfile.guards = <<>>
    BY DEF NoProfile, ProfileFields
  <2>3. <<>> \in Seq(Seen) /\ <<>> \in Seq(GuardedFiles) /\ 1 \in Nat \ {0}
    OBVIOUS
  <2> HIDE DEF NoProfile
  <2> QED BY <2>1, <2>2, <2>3 DEF ProfileOf, ProfileAt, TreePC, WalkedPC, DetectedPC, ResolvedPC, RoutedPC
<1> QED BY <1>1, <1>2, <1>3 DEF ProfileInv

LEMMA ProfileStep == ProfileInv /\ [StaticNext]_staticVars => ProfileInv'
<1> SUFFICES ASSUME ProfileInv, [StaticNext]_staticVars PROVE ProfileInv'
  OBVIOUS
<1>1. CASE \E a \in Analyses : AnalysisStep(a) \/ Dispose(a)
  BY <1>1, ProfileSteps
<1>2. CASE Unprofiled /\ (StaticFine \/ ProfileFault \/ UNCHANGED staticVars)
  <2>1. ProfileTypes'
    BY <1>2 DEF ProfileInv, ProfileTypes, Unprofiled, StaticFine, ProfileFault, staticVars, profileVars
  <2> QED BY <1>2, <2>1 DEF ProfileInv, ProfileOf, Shares, Unprofiled
<1>3. UNCHANGED staticVars => Unprofiled
  BY DEF staticVars, profileVars, Unprofiled
<1> QED BY <1>1, <1>2, <1>3, StaticSteps

LEMMA ProfileAlways == StaticSpec => []ProfileInv
BY ProfileBegins, ProfileStep, PTL DEF StaticSpec

(* The manifests that are read: all of them, once package.json is not       *)
(* malformed, or the call would have failed.                                *)
LEMMA ProfileTells == ProfileInv => ProfileIsExact
<1> SUFFICES ASSUME ProfileInv, NEW a \in Analyses, ProfileDone(a), ~Shares(a)
             PROVE  /\ Listed(a) = Seen
                    /\ ToSet(profiles[a].tech) =
                         {s.name : s \in {x \in ToSet(Signals) : x.facts \cap Facts(Seen, profiles[a].dirs, TopDeps) # {}}}
                    /\ RoutesAreExact(profiles[a].api)
                    /\ \A p \in ToSet(profiles[a].guards) : Info[p].guards # {} \/ Info[p].named
  BY DEF ProfileIsExact
<1>1. ProfileAt(analysisPc[a], trees[stampOf[a]], profiles[a], checkout.broken) /\ analysisPc[a] \in RoutedPC
  BY DEF ProfileInv, ProfileOf, ProfileDone, RoutedPC, ResolvedPC, DetectedPC, WalkedPC
<1>2. /\ profiles[a].files = BySize(Seen) /\ ~checkout.broken
      /\ profiles[a].tech = Technologies(Facts(Seen, profiles[a].dirs, DeclaredBy(checkout.broken)))
      /\ profiles[a].api = RoutesOf(BySize(Seen)) /\ profiles[a].guards \in Seq(GuardedFiles)
  BY <1>1 DEF ProfileAt, RoutedPC, ResolvedPC, DetectedPC, WalkedPC
<1>3. Listed(a) = Seen
  BY <1>2, FilesAre DEF Listed
<1>4. DeclaredBy(checkout.broken) = TopDeps
  BY <1>2 DEF DeclaredBy, TopDeps
<1>5. ToSet(profiles[a].tech) =
        {s.name : s \in {x \in ToSet(Signals) : x.facts \cap Facts(Seen, profiles[a].dirs, TopDeps) # {}}}
  BY <1>2, <1>4, TechnologiesAre
<1>6. RoutesAreExact(profiles[a].api)
  BY <1>2, RoutesAre
<1>7. \A p \in ToSet(profiles[a].guards) : p \in GuardedFiles
  BY <1>2 DEF ToSet
<1> QED BY <1>3, <1>5, <1>6, <1>7 DEF GuardedFiles

-----------------------------------------------------------------------------
(* A report of a static scan: the findings its scanners may report, which   *)
(* are of the kind of the rows they are merged into.                        *)
FindingFields == {"at", "type", "severity", "scanner", "confidence", "cwe", "references"}
Reported == UNION {ToSet(Reports[s]) : s \in ToSet(Scanners)}
Finding == [at : {f.at : f \in Reported}, type : {f.type : f \in Reported},
            severity : {SeverityOf[f.severity] : f \in Reported}, scanner : ToSet(Scanners), confidence : Nat,
            cwe : {f.cwe : f \in Reported}, references : SUBSET UNION {f.references : f \in Reported}]
FindingKeys == {f.at : f \in Reported} \X {f.type : f \in Reported} \X {SeverityOf[f.severity] : f \in Reported}
RowMaps == UNION {[K -> Finding] : K \in SUBSET FindingKeys}

LEMMA FindingIs ==
  /\ IdRank \in [ToSet(Scanners) -> Nat] /\ IsInjective(IdRank)
  /\ \A f \in Finding : FindingKey(f) \in FindingKeys /\ f.confidence \in Nat
                        /\ f.scanner \in ToSet(Scanners) /\ IdRank[f.scanner] \in Nat
<1>1. IdRank \in [ToSet(Scanners) -> Nat] /\ IsInjective(IdRank)
  BY StaticAssumption
<1>2. ASSUME NEW f \in Finding
      PROVE  FindingKey(f) \in FindingKeys /\ f.confidence \in Nat /\ f.scanner \in ToSet(Scanners)
  BY DEF Finding, FindingKey, FindingKeys
<1> QED BY <1>1, <1>2

(* What a scanner's run is kept of is what it reported, unified.            *)
LEMMA NormalizedIs ==
  ASSUME NEW s \in ToSet(Scanners)
  PROVE  Normalized(s) \in Seq(Finding) /\ \A f \in ToSet(Normalized(s)) : f.scanner = s
<1> DEFINE I == {i \in DOMAIN Reports[s] : Kept(Reports[s][i])}
           reports == Filtered(Reports[s], I)
           Unified(r) == [at |-> r.at, type |-> r.type, severity |-> SeverityOf[r.severity], scanner |-> s,
                          confidence |-> IF r.confidence = 0 THEN UsualConfidence[s] ELSE r.confidence,
                          cwe |-> r.cwe, references |-> r.references]
           new == [i \in DOMAIN reports |-> Unified(reports[i])]
<1>1. /\ Reports[s] \in Seq(ToSet(Reports[s])) /\ UsualConfidence[s] \in Nat
      /\ \A f \in ToSet(Reports[s]) : f.confidence \in Nat
  BY ScannersAssumption
<1>2. reports \in Seq(ToSet(Reports[s]))
  <2>1. I \subseteq DOMAIN Reports[s]
    OBVIOUS
  <2> HIDE DEF I
  <2> QED BY <1>1, <2>1, FilteredIs
<1>3. ASSUME NEW r \in ToSet(Reports[s]) PROVE Unified(r) \in Finding /\ Unified(r).scanner = s
  <2>1. r \in Reported
    BY DEF Reported
  <2>2. (IF r.confidence = 0 THEN UsualConfidence[s] ELSE r.confidence) \in Nat
    BY <1>1
  <2>3. r.at \in {f.at : f \in Reported} /\ r.type \in {f.type : f \in Reported} /\ r.cwe \in {f.cwe : f \in Reported}
    BY <2>1
  <2>4. SeverityOf[r.severity] \in {SeverityOf[f.severity] : f \in Reported}
    BY <2>1
  <2>5. r.references \in SUBSET UNION {f.references : f \in Reported}
    BY <2>1
  <2> HIDE DEF Reported
  <2> QED BY <2>2, <2>3, <2>4, <2>5 DEF Finding
<1> HIDE DEF reports, Unified
<1>4. DOMAIN reports = 1..Len(reports) /\ Len(reports) \in Nat /\ \A i \in DOMAIN reports : reports[i] \in ToSet(Reports[s])
  BY <1>2
<1>5. new \in [1..Len(reports) -> Finding]
  BY <1>3, <1>4
<1>6. new \in Seq(Finding) /\ \A i \in DOMAIN new : new[i].scanner = s
  <2>1. \A i \in DOMAIN new : new[i].scanner = s
    BY <1>3, <1>4
  <2> HIDE DEF new
  <2> QED BY <1>4, <1>5, <2>1, ListIs
<1>7. Normalized(s) = new
  BY DEF Normalized, reports, Unified
<1> HIDE DEF new
<1> QED BY <1>6, <1>7 DEF ToSet

(* One finding merged into the rows.                                        *)
Replaced(old, f) ==
  LET refs == old.references \cup f.references
  IN IF ShouldReplace(old, f) THEN [f EXCEPT !.references = refs, !.cwe = IF @ = "none" THEN old.cwe ELSE @]
     ELSE [old EXCEPT !.references = refs]

LEMMA MergeIs ==
  ASSUME NEW map, NEW f
  PROVE  /\ DOMAIN MergeFinding(map, f) = DOMAIN map \cup {FindingKey(f)}
         /\ MergeFinding(map, f) = [x \in DOMAIN MergeFinding(map, f) |-> MergeFinding(map, f)[x]]
         /\ \A x \in DOMAIN map : x # FindingKey(f) => MergeFinding(map, f)[x] = map[x]
         /\ MergeFinding(map, f)[FindingKey(f)] =
              IF FindingKey(f) \in DOMAIN map THEN Replaced(map[FindingKey(f)], f) ELSE f
<1> DEFINE k == FindingKey(f)
<1>1. MergeFinding(map, f) =
        [x \in DOMAIN map \cup {k} |-> IF x # k THEN map[x] ELSE IF k \in DOMAIN map THEN Replaced(map[k], f) ELSE f]
  BY DEF MergeFinding, Replaced
<1> HIDE DEF k
<1>2. /\ DOMAIN MergeFinding(map, f) = DOMAIN map \cup {k}
      /\ MergeFinding(map, f) = [x \in DOMAIN MergeFinding(map, f) |-> MergeFinding(map, f)[x]]
      /\ \A x \in DOMAIN map : x # k => MergeFinding(map, f)[x] = map[x]
      /\ MergeFinding(map, f)[k] = IF k \in DOMAIN map THEN Replaced(map[k], f) ELSE f
  BY <1>1
<1> QED BY <1>2 DEF k

LEMMA ReplacedIs ==
  ASSUME NEW old \in Finding, NEW f \in Finding
  PROVE  /\ Replaced(old, f) \in Finding
         /\ Replaced(old, f).references = old.references \cup f.references
         /\ Replaced(old, f).cwe \in {old.cwe, f.cwe}
         /\ ShouldReplace(old, f) => Replaced(old, f).scanner = f.scanner /\ Replaced(old, f).confidence = f.confidence
         /\ ~ShouldReplace(old, f) => Replaced(old, f).scanner = old.scanner /\ Replaced(old, f).confidence = old.confidence
<1>1. CASE ShouldReplace(old, f)
  BY <1>1 DEF Replaced, Finding
<1>2. CASE ~ShouldReplace(old, f)
  BY <1>2 DEF Replaced, Finding
<1> QED BY <1>1, <1>2

LEMMA MergeType ==
  ASSUME NEW map \in RowMaps, NEW f \in Finding
  PROVE  MergeFinding(map, f) \in RowMaps
<1> DEFINE k == FindingKey(f)
           new == MergeFinding(map, f)
<1>1. PICK K \in SUBSET FindingKeys : map \in [K -> Finding]
  BY DEF RowMaps
<1>2. k \in FindingKeys
  BY FindingIs
<1>3. DOMAIN new = K \cup {k} /\ new = [x \in DOMAIN new |-> new[x]]
  BY <1>1, MergeIs
<1>4. ASSUME NEW x \in K \cup {k} PROVE new[x] \in Finding
  <2>1. CASE x # k
    <3>1. x \in K /\ x \in DOMAIN map /\ map[x] \in Finding
      BY <1>1, <1>4, <2>1
    <3>2. \A y \in DOMAIN map : y # k => new[y] = map[y]
      BY MergeIs
    <3> QED BY <2>1, <3>1, <3>2
  <2>2. CASE x = k
    <3>1. new[x] = IF k \in DOMAIN map THEN Replaced(map[k], f) ELSE f
      BY <2>2, MergeIs
    <3>2. k \in DOMAIN map => Replaced(map[k], f) \in Finding
      BY <1>1, ReplacedIs
    <3> QED BY <3>1, <3>2
  <2> QED BY <2>1, <2>2
<1> HIDE DEF k, new
<1>5. new \in [K \cup {k} -> Finding]
  BY <1>3, <1>4
<1>6. K \cup {k} \in SUBSET FindingKeys
  BY <1>1, <1>2
<1> QED BY <1>5, <1>6 DEF RowMaps, new

(* What the row of the findings at the places of I has to be.               *)
RowOf(line, found, I) ==
  /\ line \in Finding
  /\ \E i \in I : line.scanner = found[i].scanner /\ line.confidence = found[i].confidence
  /\ \A i \in I : /\ found[i].confidence <= line.confidence
                  /\ found[i].confidence = line.confidence => IdRank[line.scanner] <= IdRank[found[i].scanner]
  /\ line.references = UNION {found[i].references : i \in I}
  /\ line.cwe \in {found[i].cwe : i \in I}

LEMMA FirstRow ==
  ASSUME NEW found, NEW n \in Nat, found[n] \in Finding
  PROVE  RowOf(found[n], found, {n})
<1>1. found[n].confidence \in Nat /\ IdRank[found[n].scanner] \in Nat
  BY FindingIs
<1> QED BY <1>1 DEF RowOf

LEMMA NextRow ==
  ASSUME NEW found, NEW n \in Nat, found[n] \in Finding, NEW I, \A i \in I : found[i] \in Finding,
         NEW old, RowOf(old, found, I)
  PROVE  RowOf(Replaced(old, found[n]), found, I \cup {n})
<1> DEFINE f == found[n]
           new == Replaced(old, f)
           J == I \cup {n}
           C(x) == x.confidence
           R(x) == IdRank[x.scanner]
<1>0. old \in Finding /\ f \in Finding
  BY DEF RowOf
<1>1. /\ new \in Finding /\ new.references = old.references \cup f.references /\ new.cwe \in {old.cwe, f.cwe}
      /\ ShouldReplace(old, f) => new.scanner = f.scanner /\ new.confidence = f.confidence
      /\ ~ShouldReplace(old, f) => new.scanner = old.scanner /\ new.confidence = old.confidence
  BY <1>0, ReplacedIs
<1>2. C(f) \in Nat /\ R(f) \in Nat /\ C(old) \in Nat /\ R(old) \in Nat /\ \A i \in I : C(found[i]) \in Nat /\ R(found[i]) \in Nat
  BY <1>0, FindingIs
<1>3. /\ \E i \in I : old.scanner = found[i].scanner /\ old.confidence = found[i].confidence
      /\ \A i \in I : C(found[i]) <= C(old) /\ (C(found[i]) = C(old) => R(old) <= R(found[i]))
      /\ old.references = UNION {found[i].references : i \in I}
      /\ old.cwe \in {found[i].cwe : i \in I}
  BY DEF RowOf
<1>4. ShouldReplace(old, f) <=> C(f) > C(old) \/ (C(f) = C(old) /\ R(f) < R(old))
  BY DEF ShouldReplace
<1> HIDE DEF new
<1>5. new.references = UNION {found[i].references : i \in J}
  BY <1>1, <1>3
<1>6. new.cwe \in {found[i].cwe : i \in J}
  BY <1>1, <1>3
<1>7. \E i \in J : new.scanner = found[i].scanner /\ new.confidence = found[i].confidence
  BY <1>1, <1>3
<1>8. C(new) = (IF ShouldReplace(old, f) THEN C(f) ELSE C(old)) /\ R(new) = (IF ShouldReplace(old, f) THEN R(f) ELSE R(old))
  BY <1>1
<1>9. ASSUME NEW i \in J PROVE C(found[i]) <= C(new) /\ (C(found[i]) = C(new) => R(new) <= R(found[i]))
  <2>1. C(f) <= C(new) /\ (C(f) = C(new) => R(new) <= R(f))
    <3> HIDE DEF f, C, R
    <3> QED BY <1>2, <1>4, <1>8
  <2>2. C(old) <= C(new) /\ (C(old) = C(new) => R(new) <= R(old)) /\ C(new) \in Nat /\ R(new) \in Nat
    <3> HIDE DEF f, C, R
    <3> QED BY <1>2, <1>4, <1>8
  <2>3. CASE i = n
    BY <2>1, <2>3
  <2>4. CASE i \in I
    <3> DEFINE c == C(found[i])
               r == R(found[i])
               co == C(old)
               ro == R(old)
               cn == C(new)
               rn == R(new)
    <3>1. c \in Nat /\ r \in Nat /\ co \in Nat /\ ro \in Nat /\ cn \in Nat /\ rn \in Nat
      BY <1>2, <2>2, <2>4
    <3>2. c <= co /\ (c = co => ro <= r) /\ co <= cn /\ (co = cn => rn <= ro)
      BY <1>3, <2>2, <2>4
    <3> HIDE DEF c, r, co, ro, cn, rn
    <3>3. c <= cn /\ (c = cn => rn <= r)
      BY <3>1, <3>2
    <3> QED BY <3>3 DEF c, r, cn, rn
  <2> QED BY <2>3, <2>4
<1> QED BY <1>1, <1>5, <1>6, <1>7, <1>9 DEF RowOf, new

(* The rows after the first n findings.                                     *)
KeyedAs(k, found, n) == {i \in 1..n : FindingKey(found[i]) = k}
RowsAre(map, found, n) ==
  /\ DOMAIN map = {FindingKey(found[i]) : i \in 1..n}
  /\ \A k \in DOMAIN map : RowOf(map[k], found, KeyedAs(k, found, n))

LEMMA RowsGrow ==
  ASSUME NEW found, NEW n \in Nat \ {0}, \A i \in 1..n : found[i] \in Finding, NEW map, RowsAre(map, found, n - 1)
  PROVE  RowsAre(MergeFinding(map, found[n]), found, n)
<1> DEFINE f == found[n]
           k == FindingKey(f)
           new == MergeFinding(map, f)
<1>1. 1..n = 1..n-1 \cup {n} /\ n \in 1..n /\ n \in Nat /\ n - 1 \in Nat
  OBVIOUS
<1>2. DOMAIN new = DOMAIN map \cup {k}
  BY MergeIs
<1>3. DOMAIN map = {FindingKey(found[i]) : i \in 1..n-1}
  BY DEF RowsAre
<1>4. DOMAIN new = {FindingKey(found[i]) : i \in 1..n}
  <2> HIDE DEF new
  <2> QED BY <1>1, <1>2, <1>3
<1>5. ASSUME NEW x \in DOMAIN map, x # k PROVE RowOf(new[x], found, KeyedAs(x, found, n))
  <2>1. new[x] = map[x]
    <3>1. \A y \in DOMAIN map : y # k => new[y] = map[y]
      BY MergeIs
    <3> QED BY <1>5, <3>1
  <2>2. KeyedAs(x, found, n) = KeyedAs(x, found, n - 1)
    BY <1>1, <1>5 DEF KeyedAs
  <2>3. RowOf(map[x], found, KeyedAs(x, found, n - 1))
    BY DEF RowsAre
  <2> QED BY <2>1, <2>2, <2>3
<1>6. RowOf(new[k], found, KeyedAs(k, found, n))
  <2>0. KeyedAs(k, found, n) = KeyedAs(k, found, n - 1) \cup {n}
    BY <1>1 DEF KeyedAs
  <2>1. CASE k \in DOMAIN map
    <3>1. new[k] = Replaced(map[k], f)
      BY <2>1, MergeIs
    <3>2. RowOf(map[k], found, KeyedAs(k, found, n - 1))
      BY <2>1 DEF RowsAre
    <3>3. \A i \in KeyedAs(k, found, n - 1) : found[i] \in Finding
      BY <1>1 DEF KeyedAs
    <3>4. found[n] \in Finding
      BY <1>1
    <3> HIDE DEF k, new
    <3>5. RowOf(Replaced(map[k], f), found, KeyedAs(k, found, n - 1) \cup {n})
      BY <1>1, <3>2, <3>3, <3>4, NextRow
    <3> QED BY <2>0, <3>1, <3>5
  <2>2. CASE k \notin DOMAIN map
    <3>1. new[k] = f
      BY <2>2, MergeIs
    <3>2. KeyedAs(k, found, n - 1) = {}
      BY <1>3, <2>2 DEF KeyedAs
    <3>3. RowOf(found[n], found, {n})
      BY <1>1, FirstRow
    <3> HIDE DEF k, new
    <3> QED BY <2>0, <3>1, <3>2, <3>3
  <2> QED BY <2>1, <2>2
<1> HIDE DEF new, k
<1>7. \A x \in DOMAIN new : RowOf(new[x], found, KeyedAs(x, found, n))
  BY <1>2, <1>5, <1>6
<1> QED BY <1>4, <1>7 DEF RowsAre, new

LEMMA DeduplicatedIs ==
  ASSUME NEW found \in Seq(Finding)
  PROVE  RowsAre(Deduplicated(found), found, Len(found))
<1> DEFINE n == Len(found)
           Step(f) == [i \in 0..n |-> IF i = 0 THEN <<>>
                         ELSE CHOOSE m \in {MergeFinding(x, found[i]) : x \in {f[i - 1]}} : TRUE]
           to == CHOOSE f : f = Step(f)
           F == [k \in 1..n |-> [x \in RowMaps |-> MergeFinding(x, found[k])]]
<1>1. n \in Nat /\ \A k \in 1..n : found[k] \in Finding
  OBVIOUS
<1>2. Deduplicated(found) = to[n]
  BY DEF Deduplicated
<1>3. <<>> \in RowMaps
  <2>1. <<>> \in [{} -> Finding]
    OBVIOUS
  <2> QED BY <2>1 DEF RowMaps
<1> HIDE DEF n
<1>4. \A k \in 1..n : \A x \in RowMaps : F[k][x] = MergeFinding(x, found[k]) /\ F[k][x] \in RowMaps
  BY <1>1, MergeType
<1> HIDE DEF F
<1>5. PICK g \in [0..n -> RowMaps] : Goes(g, F, <<>>, n)
  BY <1>1, <1>3, <1>4, FoldGoes
<1>6. \A k \in 1..n : g[k] = MergeFinding(g[k-1], found[k])
  <2> TAKE k \in 1..n
  <2>1. k - 1 \in 0..n /\ g[k-1] \in RowMaps
    BY <1>1
  <2> QED BY <1>4, <1>5, <2>1 DEF Goes
<1>7. g = Step(g)
  <2>1. g[0] = <<>>
    BY <1>5 DEF Goes
  <2>2. ASSUME NEW k \in 0..n
        PROVE  g[k] = IF k = 0 THEN <<>> ELSE CHOOSE m \in {MergeFinding(x, found[k]) : x \in {g[k-1]}} : TRUE
    <3>1. k # 0 => k \in 1..n
      BY <1>1
    <3>2. k # 0 => g[k] = MergeFinding(g[k-1], found[k])
      BY <1>6, <3>1
    <3> QED BY <2>1, <3>2
  <2>3. g = [k \in 0..n |-> g[k]]
    OBVIOUS
  <2> QED BY <2>2, <2>3
<1>8. to = Step(to)
  BY <1>7
<1> HIDE DEF to
<1>9. to[0] = <<>> /\ \A k \in 1..n : to[k] = MergeFinding(to[k-1], found[k])
  <2>1. to[0] = <<>>
    BY <1>1, <1>8
  <2>2. ASSUME NEW k \in 1..n PROVE to[k] = MergeFinding(to[k-1], found[k])
    <3>1. k \in 0..n /\ k # 0
      BY <1>1
    <3>2. to[k] = CHOOSE m \in {MergeFinding(x, found[k]) : x \in {to[k-1]}} : TRUE
      BY <1>8, <3>1
    <3> QED BY <3>2
  <2> QED BY <2>1, <2>2
<1> HIDE DEF Step
<1> DEFINE T == {k \in 0..n : RowsAre(to[k], found, k)}
<1>10. 0 \in T
  <2>1. DOMAIN to[0] = {} /\ 1..0 = {}
    BY <1>9
  <2>2. RowsAre(to[0], found, 0)
    BY <2>1 DEF RowsAre
  <2> QED BY <1>1, <2>2
<1>11. ASSUME NEW k \in 1..n, k - 1 \in T PROVE k \in T
  <2>1. k \in Nat \ {0} /\ \A i \in 1..k : found[i] \in Finding
    BY <1>1
  <2>2. RowsAre(MergeFinding(to[k-1], found[k]), found, k)
    BY <1>11, <2>1, RowsGrow
  <2> QED BY <1>9, <2>2
<1>12. n \in T
  <2> HIDE DEF T
  <2> n \in 0..n
    BY <1>1
  <2> QED BY <1>1, <1>10, <1>11, Climbs
<1> QED BY <1>2, <1>12 DEF n

(* Lists put end to end hold what each of them holds.                       *)
LEMMA JoinedHas ==
  ASSUME NEW S, NEW x \in Seq(S), NEW y \in Seq(S)
  PROVE  x \o y \in Seq(S) /\ ToSet(x \o y) = ToSet(x) \cup ToSet(y)
<1>1. /\ x \o y \in Seq(S) /\ DOMAIN (x \o y) = 1..(Len(x) + Len(y))
      /\ DOMAIN x = 1..Len(x) /\ DOMAIN y = 1..Len(y) /\ Len(x) \in Nat /\ Len(y) \in Nat
      /\ \A i \in 1..Len(x) : (x \o y)[i] = x[i]
      /\ \A i \in 1..Len(y) : (x \o y)[Len(x) + i] = y[i]
  OBVIOUS
<1> DEFINE both == x \o y
           m == Len(x)
           l == Len(y)
<1> HIDE DEF both, m, l
<1>2. ASSUME NEW i \in 1..(m + l) PROVE both[i] \in ToSet(x) \cup ToSet(y)
  <2>1. CASE i \in 1..m
    BY <1>1, <2>1 DEF ToSet, both, m
  <2>2. CASE i \notin 1..m
    <3>1. PICK j \in 1..l : i = m + j
      <4>1. m \in Nat /\ l \in Nat
        BY <1>1 DEF m, l
      <4>2. i - m \in 1..l /\ i = m + (i - m)
        BY <1>2, <2>2, <4>1
      <4> QED BY <4>2
    <3>2. both[i] = y[j] /\ j \in DOMAIN y
      BY <1>1, <3>1 DEF both, m, l
    <3> QED BY <3>2 DEF ToSet
  <2> QED BY <2>1, <2>2
<1>3. ASSUME NEW i \in 1..m PROVE x[i] \in ToSet(both)
  <2>1. i \in 1..(m + l) /\ both[i] = x[i]
    BY <1>1 DEF both, m, l
  <2> QED BY <1>1, <2>1 DEF ToSet, both, m, l
<1>4. ASSUME NEW i \in 1..l PROVE y[i] \in ToSet(both)
  <2>1. m + i \in 1..(m + l) /\ both[m + i] = y[i]
    BY <1>1 DEF both, m, l
  <2> QED BY <1>1, <2>1 DEF ToSet, both, m, l
<1>5. ToSet(both) \subseteq ToSet(x) \cup ToSet(y)
  BY <1>1, <1>2 DEF ToSet, both, m, l
<1>6. ToSet(x) \subseteq ToSet(both) /\ ToSet(y) \subseteq ToSet(both)
  BY <1>1, <1>3, <1>4 DEF ToSet, m, l
<1> QED BY <1>1, <1>5, <1>6 DEF both

LEMMA FlatHas ==
  ASSUME NEW S, NEW n \in Nat, NEW seqs \in [1..n -> Seq(S)]
  PROVE  FlattenSeq(seqs) \in Seq(S) /\ ToSet(FlattenSeq(seqs)) = UNION {ToSet(seqs[i]) : i \in 1..n}
<1>0. FlattenSeq(seqs) \in Seq(S)
  BY FlatIs
<1>1. seqs \in Seq(Seq(S)) /\ Len(seqs) = n
  BY ListIs
<1>2. CASE n = 0
  <2>1. FlattenSeq(seqs) = seqs
    BY <1>1, <1>2 DEF FlattenSeq
  <2>2. DOMAIN seqs = {} /\ 1..n = {}
    BY <1>2
  <2>3. ToSet(seqs) = {}
    BY <2>2 DEF ToSet
  <2>4. UNION {ToSet(seqs[i]) : i \in 1..n} = {}
    BY <2>2
  <2> QED BY <1>0, <2>1, <2>3, <2>4
<1>3. CASE n # 0
  <2> DEFINE Joined(x, y) == x \o y
             Step(f) == [i \in 1..n |-> IF i = 1 THEN seqs[i] ELSE Joined(f[i-1], seqs[i])]
             to == CHOOSE f : f = Step(f)
             F == [k \in 1..n |-> [x \in Seq(S) |-> Joined(x, seqs[k])]]
             Held(k) == UNION {ToSet(seqs[i]) : i \in 1..k}
  <2>1. FlattenSeq(seqs) = to[n]
    BY <1>1, <1>3 DEF FlattenSeq
  <2>2. \A x \in Seq(S) : \A y \in Seq(S) : Joined(x, y) \in Seq(S) /\ ToSet(Joined(x, y)) = ToSet(x) \cup ToSet(y)
    BY JoinedHas
  <2>3. \A x \in Seq(S) : Joined(<<>>, x) = x
    OBVIOUS
  <2> HIDE DEF Joined
  <2>4. <<>> \in Seq(S) /\ \A k \in 1..n : seqs[k] \in Seq(S)
    OBVIOUS
  <2>5. \A k \in 1..n : \A x \in Seq(S) : F[k][x] = Joined(x, seqs[k]) /\ F[k][x] \in Seq(S)
    BY <2>2, <2>4
  <2> HIDE DEF F
  <2>6. PICK g \in [0..n -> Seq(S)] : Goes(g, F, <<>>, n)
    BY <2>4, <2>5, FoldGoes
  <2>7. \A k \in 1..n : g[k] = Joined(g[k-1], seqs[k])
    <3> TAKE k \in 1..n
    <3>1. k - 1 \in 0..n /\ g[k-1] \in Seq(S)
      OBVIOUS
    <3> QED BY <2>5, <2>6, <3>1 DEF Goes
  <2>8. 1 \in 1..n /\ g[1] = seqs[1]
    <3>1. 1 \in 1..n /\ g[0] = <<>> /\ 1 - 1 = 0
      BY <1>3, <2>6 DEF Goes
    <3>2. g[1] = Joined(g[1-1], seqs[1])
      BY <2>7, <3>1
    <3> QED BY <2>3, <2>4, <3>1, <3>2
  <2> DEFINE h == [k \in 1..n |-> g[k]]
  <2>9. h = Step(h)
    <3>1. ASSUME NEW k \in 1..n PROVE h[k] = IF k = 1 THEN seqs[k] ELSE Joined(h[k-1], seqs[k])
      <4>1. k # 1 => k - 1 \in 1..n
        OBVIOUS
      <4> QED BY <2>7, <2>8, <4>1
    <3> QED BY <3>1
  <2>10. to = Step(to)
    BY <2>9
  <2> HIDE DEF to
  <2>11. \A k \in 1..n : to[k] = IF k = 1 THEN seqs[k] ELSE Joined(to[k-1], seqs[k])
    BY <2>10
  <2> HIDE DEF Step
  <2> DEFINE T == {k \in 0..n : k # 0 => to[k] \in Seq(S) /\ ToSet(to[k]) = Held(k)}
  <2>12. ASSUME NEW k \in 1..n, k - 1 \in T PROVE k \in T
    <3>1. CASE k = 1
      <4>1. to[k] = seqs[k] /\ seqs[k] \in Seq(S)
        BY <2>4, <2>11, <3>1
      <4>2. 1..k = {k}
        BY <3>1
      <4>3. Held(k) = ToSet(seqs[k])
        BY <4>2
      <4> QED BY <4>1, <4>3
    <3>2. CASE k # 1
      <4>1. to[k-1] \in Seq(S) /\ ToSet(to[k-1]) = Held(k-1)
        BY <2>12, <3>2
      <4>2. to[k] = Joined(to[k-1], seqs[k]) /\ seqs[k] \in Seq(S)
        BY <2>4, <2>11, <3>2
      <4>3. to[k] \in Seq(S) /\ ToSet(to[k]) = ToSet(to[k-1]) \cup ToSet(seqs[k])
        BY <2>2, <4>1, <4>2
      <4>4. 1..k = 1..k-1 \cup {k}
        OBVIOUS
      <4>5. Held(k) = Held(k-1) \cup ToSet(seqs[k])
        BY <4>4
      <4> HIDE DEF Held
      <4>6. to[k] \in Seq(S) /\ ToSet(to[k]) = Held(k)
        BY <4>1, <4>3, <4>5
      <4> QED BY <4>6
    <3> QED BY <3>1, <3>2
  <2>13. 0 \in T /\ n \in 0..n
    OBVIOUS
  <2>14. n \in T
    <3> HIDE DEF T
    <3> QED BY <2>12, <2>13, Climbs
  <2> QED BY <1>0, <1>3, <2>1, <2>14
<1> QED BY <1>2, <1>3

-----------------------------------------------------------------------------
(* What a static scan has after every step: the scanners it ran, what they  *)
(* printed, and the rows it saved.  From the row on the analysis is through *)
(* and its profile does not change.                                         *)
Run == {r \in [scanner : ToSet(Scanners), status : {"completed", "failed"}, printed : BOOLEAN, findings : Seq(Finding)] :
          r.findings = IF r.printed THEN Normalized(r.scanner) ELSE <<>>}
BeforeScan == {"idle", "answer", "refused", "prepare", "create", "mark"}
Working == {"create", "mark", "scan", "repository", "link", "findings", "finish", "failing"}
AfterScan == {"repository", "link", "findings", "finish"}
Found(log) == FlattenSeq([i \in DOMAIN log |-> log[i].findings])

ReportAt(at, an, line, log, saved, chosen) ==
  /\ at \in Working => an = "ready"
  /\ at = "closing" => an \in {"ready", "dispose"}
  /\ line = "COMPLETED" => at \in {"closing", "over"} /\ an \in {"ready", "dispose", "done"}
  /\ at \in BeforeScan => log = <<>>
  /\ log \in Seq(Run) /\ Len(log) <= Len(chosen) /\ \A i \in DOMAIN log : log[i].scanner = chosen[i]
  /\ at \in AfterScan \/ line = "COMPLETED" => Len(log) = Len(chosen)
  /\ at = "finish" \/ line = "COMPLETED" => saved = Deduplicated(Found(log))
  /\ line = "COMPLETED" => \A i \in DOMAIN log : log[i].status # "failed"

ReportOf(a) == ReportAt(staticPc[a], analysisPc[a], workedRow[a], runs[a], savedRows[a], Selected(a))

StaticTypes ==
  /\ staticPc \in [StaticScans -> StaticPC]
  /\ workedRow \in [StaticScans -> {"none", "PENDING", "RUNNING", "COMPLETED", "FAILED"}]
  /\ runs = [a \in StaticScans |-> runs[a]] /\ savedRows = [a \in StaticScans |-> savedRows[a]]

ReportInv == ProfileInv /\ StaticTypes /\ \A a \in StaticScans : ReportOf(a)

Chosen(tech, ecosystems) ==
  Filtered(Scanners, {i \in DOMAIN Scanners : Applies(AppliesTo[Scanners[i]], tech, ecosystems)})

LEMMA ChosenIs ==
  ASSUME NEW tech, NEW ecosystems
  PROVE  /\ Chosen(tech, ecosystems) \in Seq(ToSet(Scanners))
         /\ ToSet(Chosen(tech, ecosystems)) = {s \in ToSet(Scanners) : Applies(AppliesTo[s], tech, ecosystems)}
<1> DEFINE I == {i \in DOMAIN Scanners : Applies(AppliesTo[Scanners[i]], tech, ecosystems)}
<1>1. Scanners \in Seq(ToSet(Scanners)) /\ I \subseteq DOMAIN Scanners
  BY ScannersAssumption
<1>2. Chosen(tech, ecosystems) = Filtered(Scanners, I)
  BY DEF Chosen
<1>3. {Scanners[i] : i \in I} = {s \in ToSet(Scanners) : Applies(AppliesTo[s], tech, ecosystems)}
  BY DEF ToSet
<1> HIDE DEF I
<1> QED BY <1>1, <1>2, <1>3, FilteredIs

LEMMA SelectedIs ==
  ASSUME NEW a
  PROVE  /\ Selected(a) = Chosen(profiles[a].tech, profiles[a].ecosystems)
         /\ Selected(a)' = Chosen(profiles'[a].tech, profiles'[a].ecosystems)
BY DEF Selected, Chosen

LEMMA AllFindingsIs ==
  ASSUME NEW a
  PROVE  AllFindings(a) = Found(runs[a])
BY DEF AllFindings, Found

(* A scan's own steps.                                                      *)
LEMMA PreparingStays ==
  ASSUME ProfileInv, StaticTypes, NEW a \in StaticScans, ReportOf(a), Preparing(a)
  PROVE  ReportOf(a)'
<1>1. staticPc[a] = "prepare" /\ workedRow[a] # "COMPLETED" /\ runs[a] = <<>>
  BY DEF ReportOf, ReportAt, Preparing, BeforeScan
<1>2. staticPc'[a] \in {"create", "over", "prepare"} /\ (staticPc'[a] = "create" => analysisPc'[a] = "ready")
  BY DEF Preparing, StaticTypes
<1>3. workedRow' = workedRow /\ runs' = runs
  BY DEF Preparing, scanVars
<1>4. Selected(a)' \in Seq(ToSet(Scanners))
  BY SelectedIs, ChosenIs
<1>5. <<>> \in Seq(Run) /\ Len(<<>>) = 0 /\ DOMAIN <<>> = {} /\ Len(Selected(a)') \in Nat
  BY <1>4
<1>6. ReportAt(staticPc'[a], analysisPc'[a], workedRow[a], <<>>, savedRows'[a], Selected(a)')
  BY <1>1, <1>2, <1>5 DEF ReportAt, Working, BeforeScan, AfterScan
<1> QED BY <1>1, <1>3, <1>6 DEF ReportOf

(* The steps between: they move the scan on and save or tell of its end.    *)
LEMMA UnprofiledSteps ==
  ASSUME ProfileInv, StaticTypes, NEW a \in StaticScans, ReportOf(a),
         \/ AskStaticScan(a) \/ AnswerStaticScan(a) \/ CreateStaticScan(a) \/ MarkStaticScan(a) \/ ScannersOver(a)
         \/ StoreStep(a) \/ SaveFindings(a) \/ FinishStaticScan(a) \/ StaticScanFails(a)
  PROVE  ReportOf(a)'
<1> DEFINE chosen == Selected(a)
<1>0. /\ staticPc[a] \notin {"closing", "over"} => workedRow[a] # "COMPLETED"
      /\ ReportAt(staticPc[a], analysisPc[a], workedRow[a], runs[a], savedRows[a], chosen)
  BY DEF ReportOf, ReportAt
<1>2. Unprofiled /\ runs' = runs
  BY DEF AskStaticScan, AnswerStaticScan, CreateStaticScan, MarkStaticScan, ScannersOver, StoreStep, SaveFindings,
       FinishStaticScan, StaticScanFails, scanVars
<1>3. analysisPc'[a] = analysisPc[a] /\ Selected(a)' = chosen
  BY <1>2, SelectedIs DEF Unprofiled
<1> HIDE DEF chosen
<1> SUFFICES ReportAt(staticPc'[a], analysisPc[a], workedRow'[a], runs[a], savedRows'[a], chosen)
  BY <1>2, <1>3 DEF ReportOf
<1> USE DEF StaticTypes, Scanning, scanVars, Working, BeforeScan, AfterScan
<1>4. CASE AskStaticScan(a)
  BY <1>0, <1>4 DEF AskStaticScan, ReportAt
<1>5. CASE AnswerStaticScan(a)
  BY <1>0, <1>5 DEF AnswerStaticScan, ReportAt
<1>6. CASE CreateStaticScan(a)
  BY <1>0, <1>6 DEF CreateStaticScan, ReportAt
<1>7. CASE MarkStaticScan(a)
  BY <1>0, <1>7 DEF MarkStaticScan, ReportAt
<1>8. CASE ScannersOver(a)
  BY <1>0, <1>8 DEF ScannersOver, ReportAt, chosen
<1>9. CASE StoreStep(a)
  BY <1>0, <1>9 DEF StoreStep, ReportAt
<1>10. CASE SaveFindings(a)
  <2>1. \/ staticPc'[a] = "finish" /\ savedRows'[a] = Deduplicated(Found(runs[a]))
        \/ staticPc'[a] = "failing" /\ savedRows' = savedRows
    <3>1. CASE Scanning(a, "findings", "finish") /\ \E map \in {Deduplicated(AllFindings(a))} : savedRows' = [savedRows EXCEPT ![a] = map]
      BY <3>1, AllFindingsIs
    <3>2. CASE Scanning(a, "findings", "failing") /\ UNCHANGED savedRows
      BY <3>2
    <3> QED BY <1>10, <3>1, <3>2 DEF SaveFindings
  <2>2. staticPc[a] = "findings" /\ workedRow' = workedRow
    BY <1>10 DEF SaveFindings
  <2> QED BY <1>0, <2>1, <2>2 DEF ReportAt
<1>11. CASE FinishStaticScan(a)
  BY <1>0, <1>11 DEF FinishStaticScan, ReportAt
<1>12. CASE StaticScanFails(a)
  BY <1>0, <1>12 DEF StaticScanFails, ReportAt
<1> QED BY <1>4, <1>5, <1>6, <1>7, <1>8, <1>9, <1>10, <1>11, <1>12

(* Every run is of the next scanner chosen, and has its findings unless it  *)
(* printed nothing.                                                         *)
LEMMA RunStep ==
  ASSUME ProfileInv, StaticTypes, NEW a \in StaticScans, ReportOf(a), RunScanner(a)
  PROVE  ReportOf(a)'
<1> DEFINE chosen == Selected(a)
           log == runs[a]
           scanner == chosen[Len(log) + 1]
<1>0. ReportAt("scan", analysisPc[a], workedRow[a], log, savedRows[a], chosen) /\ staticPc[a] = "scan"
  BY DEF ReportOf, ReportAt, RunScanner
<1>1. /\ Unprofiled /\ staticPc' = staticPc /\ workedRow' = workedRow /\ savedRows' = savedRows
      /\ Len(log) < Len(chosen)
  BY DEF RunScanner
<1>2. analysisPc'[a] = analysisPc[a] /\ Selected(a)' = chosen
  BY <1>1, SelectedIs DEF Unprofiled
<1>3. chosen \in Seq(ToSet(Scanners)) /\ log \in Seq(Run)
  BY <1>0, SelectedIs, ChosenIs DEF ReportAt
<1>4. scanner \in ToSet(Scanners)
  <2> HIDE DEF chosen, log
  <2>1. Len(log) + 1 \in 1..Len(chosen)
    <3> DEFINE m == Len(log)
               l == Len(chosen)
    <3>1. m \in Nat /\ l \in Nat /\ m < l
      BY <1>1, <1>3
    <3> HIDE DEF m, l
    <3>2. m + 1 \in 1..l
      BY <3>1
    <3> QED BY <3>2 DEF m, l
  <2> QED BY <1>3, <2>1
<1> HIDE DEF chosen, scanner
<1>5. \E status \in {"completed", "failed"} : \E printed \in BOOLEAN : \E found \in {IF printed THEN Normalized(scanner) ELSE <<>>} :
        runs' = [runs EXCEPT ![a] = Append(@, [scanner |-> scanner, status |-> status,
                                               printed |-> printed, findings |-> found])]
  BY DEF RunScanner, scanner, chosen
<1>6. PICK r \in Run : runs'[a] = Append(log, r) /\ r.scanner = scanner
  <2>1. PICK status \in {"completed", "failed"}, printed \in BOOLEAN :
          runs' = [runs EXCEPT ![a] = Append(@, [scanner |-> scanner, status |-> status, printed |-> printed,
                                                 findings |-> IF printed THEN Normalized(scanner) ELSE <<>>])]
    BY <1>5
  <2> DEFINE r == [scanner |-> scanner, status |-> status, printed |-> printed,
                   findings |-> IF printed THEN Normalized(scanner) ELSE <<>>]
  <2>2. (IF printed THEN Normalized(scanner) ELSE <<>>) \in Seq(Finding)
    BY <1>4, NormalizedIs
  <2>3. r \in Run /\ r.scanner = scanner
    BY <1>4, <2>2 DEF Run
  <2>4. runs'[a] = Append(log, r)
    <3> HIDE DEF r
    <3>1. runs' = [runs EXCEPT ![a] = Append(@, r)]
      BY <2>1 DEF r
    <3> QED BY <3>1 DEF StaticTypes
  <2> QED BY <2>3, <2>4
<1> DEFINE new == Append(log, r)
<1>7. /\ new \in Seq(Run) /\ Len(new) = Len(log) + 1 /\ Len(new) <= Len(chosen)
      /\ \A i \in DOMAIN new : new[i].scanner = chosen[i]
  <2>0. \A i \in DOMAIN log : log[i].scanner = chosen[i]
    BY <1>0 DEF ReportAt
  <2> HIDE DEF log
  <2> DEFINE m == Len(log)
             l == Len(chosen)
  <2>1. new \in Seq(Run) /\ Len(new) = m + 1 /\ m \in Nat /\ l \in Nat /\ m < l /\ DOMAIN new = 1..m+1 /\ DOMAIN log = 1..m
        /\ new[m + 1] = r /\ \A i \in 1..m : new[i] = log[i]
    BY <1>1, <1>3
  <2>2. r.scanner = chosen[m + 1]
    BY <1>6 DEF scanner, log
  <2> HIDE DEF m, l, new
  <2>3. m + 1 <= l /\ \A i \in 1..m+1 : i = m + 1 \/ i \in 1..m
    BY <2>1
  <2> QED BY <2>0, <2>1, <2>2, <2>3 DEF l
<1> HIDE DEF new, log
<1>8. ReportAt("scan", analysisPc[a], workedRow[a], new, savedRows[a], chosen)
  BY <1>0, <1>7 DEF ReportAt, BeforeScan, AfterScan
<1> QED BY <1>0, <1>1, <1>2, <1>6, <1>8 DEF ReportOf, new

LEMMA ClosingStays ==
  ASSUME ProfileInv, StaticTypes, NEW a \in StaticScans, ReportOf(a), CloseStaticScan(a)
  PROVE  ReportOf(a)'
<1> DEFINE chosen == Selected(a)
<1>0. ReportAt("closing", analysisPc[a], workedRow[a], runs[a], savedRows[a], chosen) /\ staticPc[a] = "closing"
  BY DEF ReportOf, ReportAt, CloseStaticScan
<1>1. a \in Analyses /\ analysisPc \in [Analyses -> AnalysisPC]
  BY StaticAssumption DEF ProfileInv, ProfileTypes
<1>2. workedRow' = workedRow /\ runs' = runs /\ savedRows' = savedRows /\ profiles' = profiles
  BY DEF CloseStaticScan, scanVars, Dispose, RemoveTree
<1>3. Selected(a)' = chosen
  BY <1>2, SelectedIs
<1>4. \/ staticPc'[a] = "closing" /\ analysisPc'[a] = "dispose"
      \/ staticPc'[a] = "over" /\ analysisPc'[a] = "done"
  <2>1. CASE Dispose(a) /\ UNCHANGED staticPc
    BY <1>0, <1>1, <2>1 DEF Dispose, Analysing
  <2>2. CASE analysisPc[a] = "dispose" /\ RemoveTree(a) /\ staticPc' = [staticPc EXCEPT ![a] = "over"]
    <3>1. PICK end \in {<<"unclone", "again">>, <<"again", "failed">>, <<"discard", "failed">>, <<"dispose", "done">>} :
            Analysing(a, end[1], end[2])
      BY <2>2 DEF RemoveTree
    <3>2. end[1] = "dispose" /\ analysisPc'[a] = end[2]
      BY <1>1, <2>2, <3>1 DEF Analysing
    <3>3. analysisPc'[a] = "done"
      BY <3>1, <3>2
    <3> QED BY <2>2, <3>3 DEF StaticTypes
  <2> QED BY <2>1, <2>2 DEF CloseStaticScan
<1> HIDE DEF chosen
<1>5. ReportAt(staticPc'[a], analysisPc'[a], workedRow[a], runs[a], savedRows[a], chosen)
  <2> DEFINE at == staticPc'[a]
             an == analysisPc'[a]
  <2>1. at \in {"closing", "over"} /\ an \in {"dispose", "done"} /\ (at = "closing" => an = "dispose")
    BY <1>4
  <2> HIDE DEF at, an
  <2>2. at \notin Working /\ at \notin BeforeScan /\ at \notin AfterScan /\ at # "finish"
    BY <2>1 DEF Working, BeforeScan, AfterScan
  <2>3. ReportAt(at, an, workedRow[a], runs[a], savedRows[a], chosen)
    BY <1>0, <2>1, <2>2 DEF ReportAt
  <2> QED BY <2>3 DEF at, an
<1> QED BY <1>2, <1>3, <1>5 DEF ReportOf

LEMMA ReportSteps ==
  ASSUME ProfileInv, StaticTypes, NEW a \in StaticScans, ReportOf(a), StaticScanStep(a)
  PROVE  ReportOf(a)'
BY PreparingStays, UnprofiledSteps, RunStep, ClosingStays DEF StaticScanStep

LEMMA StaticTypesStep ==
  ASSUME StaticTypes, NEW a \in StaticScans, StaticScanStep(a)
  PROVE  /\ StaticTypes'
         /\ \A b \in StaticScans \ {a} : /\ staticPc'[b] = staticPc[b] /\ workedRow'[b] = workedRow[b]
                                         /\ runs'[b] = runs[b] /\ savedRows'[b] = savedRows[b]
<1> USE DEF StaticTypes, StaticPC, Scanning, scanVars
<1>1. CASE AskStaticScan(a)
  BY <1>1 DEF AskStaticScan
<1>2. CASE AnswerStaticScan(a)
  BY <1>2 DEF AnswerStaticScan
<1>3. CASE Preparing(a)
  BY <1>3 DEF Preparing
<1>4. CASE CreateStaticScan(a)
  BY <1>4 DEF CreateStaticScan
<1>5. CASE MarkStaticScan(a)
  BY <1>5 DEF MarkStaticScan
<1>6. CASE RunScanner(a)
  BY <1>6 DEF RunScanner
<1>7. CASE ScannersOver(a)
  BY <1>7 DEF ScannersOver
<1>8. CASE StoreStep(a)
  BY <1>8 DEF StoreStep
<1>9. CASE SaveFindings(a)
  BY <1>9 DEF SaveFindings
<1>10. CASE FinishStaticScan(a)
  BY <1>10 DEF FinishStaticScan
<1>11. CASE StaticScanFails(a)
  BY <1>11 DEF StaticScanFails
<1>12. CASE CloseStaticScan(a)
  BY <1>12 DEF CloseStaticScan
<1> QED BY <1>1, <1>2, <1>3, <1>4, <1>5, <1>6, <1>7, <1>8, <1>9, <1>10, <1>11, <1>12 DEF StaticScanStep

LEMMA ReportBegins == StaticInit => ReportInv
<1> SUFFICES ASSUME StaticInit PROVE ReportInv
  OBVIOUS
<1>1. ProfileInv
  BY ProfileBegins
<1>2. StaticTypes
  BY DEF StaticInit, StaticTypes, StaticPC
<1>3. ASSUME NEW a \in StaticScans PROVE ReportOf(a)
  <2>1. staticPc[a] = "idle" /\ workedRow[a] = "none" /\ runs[a] = <<>>
    BY DEF StaticInit
  <2>2. Selected(a) \in Seq(ToSet(Scanners))
    BY SelectedIs, ChosenIs
  <2>3. <<>> \in Seq(Run) /\ Len(<<>>) = 0 /\ DOMAIN <<>> = {} /\ Len(Selected(a)) \in Nat
    BY <2>2
  <2>4. ReportAt("idle", analysisPc[a], "none", <<>>, savedRows[a], Selected(a))
    BY <2>3 DEF ReportAt, Working, BeforeScan, AfterScan
  <2> QED BY <2>1, <2>4 DEF ReportOf
<1> QED BY <1>1, <1>2, <1>3 DEF ReportInv

LEMMA ReportStep == ReportInv /\ [StaticNext]_staticVars => ReportInv'
<1> SUFFICES ASSUME ReportInv, [StaticNext]_staticVars PROVE ReportInv'
  OBVIOUS
<1>0. ProfileInv /\ StaticTypes /\ ProfileTypes /\ profiles = [b \in Analyses |-> profiles[b]] /\ StaticScans \subseteq Analyses
  BY StaticAssumption DEF ReportInv, ProfileInv
<1>1. ProfileInv'
  BY <1>0, ProfileStep
<1>2. ASSUME NEW a \in StaticScans, StaticScanStep(a) PROVE ReportInv'
  <2>1. /\ StaticTypes'
        /\ \A b \in StaticScans \ {a} : /\ staticPc'[b] = staticPc[b] /\ workedRow'[b] = workedRow[b]
                                        /\ runs'[b] = runs[b] /\ savedRows'[b] = savedRows[b]
    BY <1>0, <1>2, StaticTypesStep
  <2>2. ReportOf(a)'
    BY <1>0, <1>2, ReportSteps DEF ReportInv
  <2>3. \A b \in Analyses \ {a} : analysisPc'[b] = analysisPc[b] /\ profiles'[b] = profiles[b]
    <3>1. CASE AnalysisStep(a) \/ Dispose(a)
      BY <1>0, <3>1, OthersStay
    <3>2. CASE Unprofiled
      BY <3>2 DEF Unprofiled
    <3>3. AnalysisStep(a) \/ Dispose(a) \/ Unprofiled
      BY <1>2 DEF StaticScanStep, AskStaticScan, AnswerStaticScan, Preparing, CreateStaticScan, MarkStaticScan,
           RunScanner, ScannersOver, StoreStep, SaveFindings, FinishStaticScan, StaticScanFails, CloseStaticScan, AnalysisStep
    <3> QED BY <3>1, <3>2, <3>3
  <2>4. ASSUME NEW b \in StaticScans, b # a PROVE ReportOf(b)'
    <3>1. ReportOf(b) /\ b \in Analyses \ {a}
      BY <1>0, <2>4 DEF ReportInv
    <3>2. Selected(b)' = Selected(b)
      BY <2>3, <3>1, SelectedIs
    <3> QED BY <2>1, <2>3, <2>4, <3>1, <3>2 DEF ReportOf
  <2> QED BY <1>1, <2>1, <2>2, <2>4 DEF ReportInv
<1>3. ASSUME NEW c \in Analyses \ StaticScans, PlainAnalysis(c) PROVE ReportInv'
  <2>1. UNCHANGED <<staticPc, workedRow, runs, savedRows>> /\ (AnalysisStep(c) \/ Dispose(c))
    BY <1>3 DEF PlainAnalysis, scanVars
  <2>2. \A b \in Analyses \ {c} : analysisPc'[b] = analysisPc[b] /\ profiles'[b] = profiles[b]
    BY <1>0, <2>1, OthersStay
  <2>3. ASSUME NEW b \in StaticScans PROVE ReportOf(b)'
    <3>1. ReportOf(b) /\ b \in Analyses \ {c}
      BY <1>0 DEF ReportInv
    <3>2. Selected(b)' = Selected(b)
      BY <2>2, <3>1, SelectedIs
    <3> QED BY <2>1, <2>2, <3>1, <3>2 DEF ReportOf
  <2>4. StaticTypes'
    BY <1>0, <2>1 DEF StaticTypes
  <2> QED BY <1>1, <2>3, <2>4 DEF ReportInv
<1>4. CASE UNCHANGED staticVars
  <2>1. UNCHANGED <<analysisPc, profiles, staticPc, workedRow, runs, savedRows>>
    BY <1>4 DEF staticVars, profileVars
  <2>2. ASSUME NEW b \in StaticScans PROVE ReportOf(b)'
    <3>1. Selected(b)' = Selected(b)
      BY <2>1, SelectedIs
    <3> QED BY <2>1, <3>1 DEF ReportInv, ReportOf
  <2>3. StaticTypes'
    BY <1>0, <2>1 DEF StaticTypes
  <2> QED BY <1>1, <2>2, <2>3 DEF ReportInv
<1> QED BY <1>2, <1>3, <1>4 DEF StaticNext

LEMMA ReportAlways == StaticSpec => []ReportInv
BY ReportBegins, ReportStep, PTL DEF StaticSpec

(* The scanners chosen from an exact profile are those the repository calls *)
(* for.                                                                     *)
LEMMA CalledAre ==
  ASSUME ProfileInv, NEW a \in Analyses, ~Shares(a), analysisPc[a] \in {"ready", "dispose", "done"}
  PROVE  LET names == {Info[p].name : p \in {q \in Paths \ {TopDir} : Info[q].parent = TopDir}}
             languages == {s.name : s \in {x \in ToSet(Signals) : \E p \in Listed(a) : <<"ext", Info[p].ext>> \in x.facts}}
             called == {s \in ToSet(Scanners) :
                          AppliesTo[s].name \in (IF AppliesTo[s].kind = "language" THEN languages ELSE names)}
         IN ToSet(Selected(a)) = called
<1> DEFINE names == {Info[p].name : p \in {q \in Paths \ {TopDir} : Info[q].parent = TopDir}}
           shown == {x \in ToSet(Signals) : \E p \in Listed(a) : <<"ext", Info[p].ext>> \in x.facts}
           languages == {s.name : s \in shown}
           called == {s \in ToSet(Scanners) :
                        AppliesTo[s].name \in (IF AppliesTo[s].kind = "language" THEN languages ELSE names)}
           deps == DeclaredBy(checkout.broken)
           facts == Facts(Seen, profiles[a].dirs, deps)
<1>1. ProfileAt(analysisPc[a], trees[stampOf[a]], profiles[a], checkout.broken)
  BY DEF ProfileInv, ProfileOf
<1>2. /\ profiles[a].files = BySize(Seen) /\ profiles[a].ecosystems = EcosystemsIn /\ profiles[a].tech = Technologies(facts)
  BY <1>1 DEF ProfileAt, RoutedPC, ResolvedPC, DetectedPC, WalkedPC
<1>3. Listed(a) = Seen
  BY <1>2, FilesAre DEF Listed
<1> HIDE DEF deps
<1>4. ToSet(profiles[a].tech) = {s.name : s \in {x \in ToSet(Signals) : x.facts \cap facts # {}}}
  BY <1>2, TechnologiesAre
<1>5. \A f \in facts : f[1] = "ext" => \E p \in Seen : f = <<"ext", Info[p].ext>>
  BY DEF Facts
<1>6. \A p \in Seen : <<"ext", Info[p].ext>> \in facts
  BY DEF Facts
<1> HIDE DEF facts
<1>7. ASSUME NEW s \in ToSet(Scanners), AppliesTo[s].kind = "language"
      PROVE  AppliesTo[s].name \in ToSet(profiles[a].tech) <=> AppliesTo[s].name \in languages
  <2>1. \A x \in ToSet(Signals) : x.name = AppliesTo[s].name => \A f \in x.facts : f[1] = "ext"
    BY <1>7, ScannersAssumption
  <2>2. ASSUME NEW x \in ToSet(Signals), x.name = AppliesTo[s].name
        PROVE  x.facts \cap facts # {} <=> \E p \in Seen : <<"ext", Info[p].ext>> \in x.facts
    <3>1. \A f \in x.facts : f[1] = "ext"
      BY <2>1, <2>2
    <3> QED BY <1>5, <1>6, <3>1
  <2>3. AppliesTo[s].name \in languages
          <=> \E x \in ToSet(Signals) : x.name = AppliesTo[s].name /\ \E p \in Seen : <<"ext", Info[p].ext>> \in x.facts
    BY <1>3
  <2> HIDE DEF languages
  <2>4. AppliesTo[s].name \in ToSet(profiles[a].tech)
          <=> \E x \in ToSet(Signals) : x.name = AppliesTo[s].name /\ x.facts \cap facts # {}
    BY <1>4
  <2> QED BY <2>2, <2>3, <2>4
<1>8. ASSUME NEW s \in ToSet(Scanners), AppliesTo[s].kind # "language"
      PROVE  AppliesTo[s].name \in profiles[a].ecosystems <=> AppliesTo[s].name \in names
  <2>1. AppliesTo[s].name \in ToSet(Manifests)
    BY <1>8, ScannersAssumption
  <2>2. TopDir \in Paths /\ Info[TopDir].parent # TopDir
    BY TreeAssumption
  <2> QED BY <1>2, <2>1, <2>2 DEF EcosystemsIn
<1>9. \A s \in ToSet(Scanners) :
        Applies(AppliesTo[s], profiles[a].tech, profiles[a].ecosystems)
          <=> AppliesTo[s].name \in (IF AppliesTo[s].kind = "language" THEN languages ELSE names)
  BY <1>7, <1>8 DEF Applies
<1>10. ToSet(Selected(a)) = {s \in ToSet(Scanners) : Applies(AppliesTo[s], profiles[a].tech, profiles[a].ecosystems)}
  BY SelectedIs, ChosenIs
<1> HIDE DEF names, languages
<1>11. ToSet(Selected(a)) = called
  BY <1>9, <1>10
<1> QED BY <1>11 DEF names, languages

(* What was found is what the scanners that answered found.                 *)
AnsweredIn(log) == {log[i].scanner : i \in {j \in DOMAIN log : log[j].printed}}
FoundBy(log) == UNION {ToSet(Normalized(s)) : s \in AnsweredIn(log)}

LEMMA FoundIs ==
  ASSUME NEW log \in Seq(Run)
  PROVE  Found(log) \in Seq(Finding) /\ ToSet(Found(log)) = FoundBy(log)
<1> DEFINE n == Len(log)
           seqs == [i \in 1..n |-> log[i].findings]
<1>1. n \in Nat /\ DOMAIN log = 1..n /\ \A i \in 1..n : log[i] \in Run
  OBVIOUS
<1>2. \A i \in 1..n : /\ log[i].findings \in Seq(Finding) /\ log[i].printed \in BOOLEAN
                      /\ log[i].findings = IF log[i].printed THEN Normalized(log[i].scanner) ELSE <<>>
  BY <1>1 DEF Run
<1> HIDE DEF n
<1>3. seqs \in [1..n -> Seq(Finding)] /\ Found(log) = FlattenSeq(seqs)
  BY <1>1, <1>2 DEF Found
<1>4. \A i \in 1..n : seqs[i] = log[i].findings
  OBVIOUS
<1> HIDE DEF seqs
<1>5. Found(log) \in Seq(Finding) /\ ToSet(Found(log)) = UNION {ToSet(seqs[i]) : i \in 1..n}
  BY <1>1, <1>3, FlatHas
<1>6. ToSet(<<>>) = {}
  BY DEF ToSet
<1>7. \A i \in 1..n : ToSet(seqs[i]) = IF log[i].printed THEN ToSet(Normalized(log[i].scanner)) ELSE {}
  BY <1>2, <1>4, <1>6
<1>8. UNION {ToSet(seqs[i]) : i \in 1..n} = FoundBy(log)
  BY <1>1, <1>7 DEF FoundBy, AnsweredIn
<1> QED BY <1>5, <1>8

OfKey(found, k) == {f \in found : FindingKey(f) = k}
BestOf(F) == {f \in F : \A g \in F : /\ g.confidence <= f.confidence
                                     /\ g.confidence = f.confidence => IdRank[f.scanner] <= IdRank[g.scanner]}
RowsOf(map, found) ==
  /\ DOMAIN map = {FindingKey(f) : f \in found}
  /\ \A k \in DOMAIN map :
       /\ \E f \in BestOf(OfKey(found, k)) : map[k].scanner = f.scanner /\ map[k].confidence = f.confidence
       /\ map[k].references = UNION {f.references : f \in OfKey(found, k)}
       /\ map[k].cwe \in {f.cwe : f \in OfKey(found, k)}

LEMMA SavedAre ==
  ASSUME NEW log \in Seq(Run), NEW map, map = Deduplicated(Found(log))
  PROVE  RowsOf(map, FoundBy(log))
<1> DEFINE list == Found(log)
           n == Len(list)
           found == FoundBy(log)
<1>1. list \in Seq(Finding) /\ ToSet(list) = found
  BY FoundIs
<1>2. RowsAre(map, list, n)
  BY <1>1, DeduplicatedIs
<1>3. n \in Nat /\ DOMAIN list = 1..n /\ \A i \in 1..n : list[i] \in Finding
  BY <1>1
<1>4. \A i \in 1..n : list[i] \in found
  BY <1>1, <1>3 DEF ToSet
<1>5. \A f \in found : \E i \in 1..n : f = list[i]
  BY <1>1, <1>3 DEF ToSet
<1> HIDE DEF list, n, found
<1>6. DOMAIN map = {FindingKey(f) : f \in found}
  BY <1>2, <1>4, <1>5 DEF RowsAre
<1>7. ASSUME NEW k \in DOMAIN map
      PROVE  /\ \E f \in BestOf(OfKey(found, k)) : map[k].scanner = f.scanner /\ map[k].confidence = f.confidence
             /\ map[k].references = UNION {f.references : f \in OfKey(found, k)}
             /\ map[k].cwe \in {f.cwe : f \in OfKey(found, k)}
  <2> DEFINE I == KeyedAs(k, list, n)
             line == map[k]
  <2>1. RowOf(line, list, I)
    BY <1>2 DEF RowsAre
  <2>2. \A i \in I : list[i] \in OfKey(found, k)
    BY <1>4 DEF KeyedAs, OfKey
  <2>3. \A f \in OfKey(found, k) : \E i \in I : f = list[i]
    BY <1>5 DEF KeyedAs, OfKey
  <2> HIDE DEF I, line
  <2>4. line.references = UNION {f.references : f \in OfKey(found, k)}
    <3>1. line.references = UNION {list[i].references : i \in I}
      BY <2>1 DEF RowOf
    <3> QED BY <2>2, <2>3, <3>1
  <2>5. line.cwe \in {f.cwe : f \in OfKey(found, k)}
    <3>1. line.cwe \in {list[i].cwe : i \in I}
      BY <2>1 DEF RowOf
    <3> QED BY <2>2, <3>1
  <2>6. PICK i \in I : line.scanner = list[i].scanner /\ line.confidence = list[i].confidence
    BY <2>1 DEF RowOf
  <2>7. \A j \in I : /\ list[j].confidence <= line.confidence
                     /\ list[j].confidence = line.confidence => IdRank[line.scanner] <= IdRank[list[j].scanner]
    BY <2>1 DEF RowOf
  <2>8. list[i] \in BestOf(OfKey(found, k))
    BY <2>2, <2>3, <2>6, <2>7 DEF BestOf
  <2> QED BY <2>4, <2>5, <2>6, <2>8 DEF line
<1> QED BY <1>6, <1>7 DEF RowsOf, found

LEMMA ReportTells == ReportInv => ReportIsExact
<1> SUFFICES ASSUME ReportInv, NEW a \in StaticScans, workedRow[a] = "COMPLETED", ~Shares(a)
             PROVE  RightScanners(a) /\ RightRows(a)
  BY DEF ReportIsExact
<1>1. ReportAt(staticPc[a], analysisPc[a], workedRow[a], runs[a], savedRows[a], Selected(a)) /\ ProfileInv /\ a \in Analyses
  BY StaticAssumption DEF ReportInv, ReportOf
<1>2. /\ analysisPc[a] \in {"ready", "dispose", "done"} /\ runs[a] \in Seq(Run) /\ Len(runs[a]) = Len(Selected(a))
      /\ \A i \in DOMAIN runs[a] : runs[a][i].scanner = Selected(a)[i] /\ runs[a][i].status # "failed"
      /\ savedRows[a] = Deduplicated(Found(runs[a]))
  BY <1>1 DEF ReportAt
<1>3. RightRows(a)
  <2>1. runs[a] \in Seq(Run) /\ savedRows[a] = Deduplicated(Found(runs[a]))
    BY <1>2
  <2>2. RowsOf(savedRows[a], FoundBy(runs[a]))
    BY <2>1, SavedAre
  <2> QED BY <2>2 DEF RowsOf, RightRows, OfKey, BestOf, FoundBy, AnsweredIn
<1>4. Selected(a) \in Seq(ToSet(Scanners))
  BY SelectedIs, ChosenIs
<1>5. {runs[a][i].scanner : i \in DOMAIN runs[a]} = ToSet(Selected(a))
  <2>1. DOMAIN runs[a] = DOMAIN Selected(a)
    BY <1>2, <1>4
  <2> QED BY <1>2, <2>1 DEF ToSet
<1>6. \A i \in DOMAIN runs[a] : runs[a][i].status = "completed"
  <2>1. \A i \in DOMAIN runs[a] : runs[a][i] \in Run
    BY <1>2
  <2> QED BY <1>2, <2>1 DEF Run
<1>7. RightScanners(a)
  BY <1>1, <1>2, <1>5, <1>6, CalledAre DEF RightScanners
<1> QED BY <1>3, <1>7

(* What a call with a directory of its own tells of the repository is       *)
(* exact: its files, the technologies they show, every route once.  A       *)
(* static scan that is COMPLETED ran every scanner called for, none failed, *)
(* and its rows are one per place, kind and severity found, with the best   *)
(* finding and all references.  And there are no more working trees left    *)
(* than removals failed (RepositoryProfileService, ScanService and          *)
(* KeyedFindingDeduplicator, whatever calls run beside each other).         *)
THEOREM ResultsHold == StaticSpec => []ResultsAreExact
<1>1. StaticSpec => []ProfileIsExact
  BY ProfileAlways, ProfileTells, PTL
<1>2. StaticSpec => []ReportIsExact
  BY ReportAlways, ReportTells, PTL
<1>3. StaticSpec => []TreesAreReleased
  BY TreesAlways, TreesTell, PTL
<1>4. ProfileIsExact /\ ReportIsExact /\ TreesAreReleased => ResultsAreExact
  BY DEF ResultsAreExact
<1> QED BY <1>1, <1>2, <1>3, <1>4, PTL

(* Types of the analysis and of the static scan, whoever shares a           *)
(* directory: the guard analyzer stays within the files of its own walk.    *)
UnwalkedPC == {"idle", "clone", "git", "size", "walk"}
ListTyped(at_, prof) ==
  /\ prof = [x \in ProfileFields |-> prof[x]]
  /\ prof.files \in Seq(Seen) /\ prof.next \in 1..(Len(prof.files) + 1)
  /\ at_ \in UnwalkedPC => prof.next = 1
ListsTyped == \A a \in Analyses : ListTyped(analysisPc[a], profiles[a])
CountsTyped == guardIndex \in Nat /\ profileFaults \in 0..MaxProfileFaults
AnalysisTyped == ListsTyped /\ CountsTyped

LEMMA ListStep ==
  ASSUME ProfileTypes, profiles = [b \in Analyses |-> profiles[b]], NEW a \in Analyses,
         ListTyped(analysisPc[a], profiles[a]), AnalysisStep(a) \/ Dispose(a)
  PROVE  ListTyped(analysisPc'[a], profiles'[a])
<1> DEFINE prof == profiles[a]
<1>0. /\ prof = [x \in ProfileFields |-> prof[x]] /\ prof.files \in Seq(Seen)
      /\ prof.next \in 1..(Len(prof.files) + 1) /\ (analysisPc[a] \in UnwalkedPC => prof.next = 1)
  BY DEF ListTyped
<1>1. CASE StartAnalysis(a) \/ GitStarts(a) \/ GitEnds(a) \/ MeasureTree(a) \/ RemoveTree(a) \/ Prepared(a) \/ Dispose(a)
  <2>1. profiles' = profiles
    BY <1>1 DEF StartAnalysis, GitStarts, GitEnds, MeasureTree, RemoveTree, Prepared, Dispose
  <2>2. analysisPc[a] \in UnwalkedPC \/ analysisPc'[a] \notin UnwalkedPC
    BY <1>1 DEF StartAnalysis, GitStarts, GitEnds, MeasureTree, RemoveTree, Prepared, Dispose, Analysing, ProfileTypes, UnwalkedPC
  <2> QED BY <1>0, <2>1, <2>2 DEF ListTyped
<1>2. CASE WalkTree(a)
  <2> DEFINE new == [prof EXCEPT !.files = BySize(FilesOf(Walk)), !.dirs = Walk \ FilesOf(Walk)]
  <2>1. analysisPc[a] = "walk" /\ analysisPc'[a] = "technology" /\ (profiles'[a] = prof \/ profiles'[a] = new)
    BY <1>2 DEF WalkTree, Analysing, ProfileTypes
  <2>2. /\ new = [x \in ProfileFields |-> new[x]] /\ new.files \in Seq(Seen) /\ new.next = prof.next
    BY <1>0, WalkedIsSeen, FilesAre DEF ProfileFields
  <2> HIDE DEF new
  <2>3. prof.next = 1
    BY <1>0, <2>1 DEF UnwalkedPC
  <2>4. 1 \in 1..(Len(new.files) + 1)
    BY <2>2
  <2>5. ListTyped("technology", new)
    BY <2>2, <2>3, <2>4 DEF ListTyped, UnwalkedPC
  <2>6. ListTyped("technology", prof)
    BY <1>0 DEF ListTyped, UnwalkedPC
  <2> QED BY <2>1, <2>5, <2>6
<1>3. CASE Detect(a) \/ ReadManifests(a) \/ DetectShape(a) \/ ListRoutes(a) \/ ListSchemes(a)
  <2>1. analysisPc'[a] \notin UnwalkedPC
    BY <1>3 DEF Detect, ReadManifests, OnError, DetectShape, ListRoutes, ListSchemes, Analysing, ProfileTypes, UnwalkedPC
  <2>2. \/ profiles'[a] = prof
        \/ \E v : \/ profiles'[a] = [prof EXCEPT !.tech = v] \/ profiles'[a] = [prof EXCEPT !.ecosystems = v]
                  \/ profiles'[a] = [prof EXCEPT !.shape = v] \/ profiles'[a] = [prof EXCEPT !.api = v]
                  \/ profiles'[a] = [prof EXCEPT !.schemes = v]
    BY <1>3 DEF Detect, ReadManifests, DetectShape, ListRoutes, ListSchemes
  <2> HIDE DEF prof
  <2>3. ASSUME NEW v, NEW new, new \in {[prof EXCEPT !.tech = v], [prof EXCEPT !.ecosystems = v], [prof EXCEPT !.shape = v],
                                        [prof EXCEPT !.api = v], [prof EXCEPT !.schemes = v]}
        PROVE  new = [x \in ProfileFields |-> new[x]] /\ new.files = prof.files /\ new.next = prof.next
    BY <1>0, <2>3 DEF ProfileFields
  <2> DEFINE Same(new) == new = [x \in ProfileFields |-> new[x]] /\ new.files = prof.files /\ new.next = prof.next
  <2>4. Same(profiles'[a])
    <3>1. Same(prof)
      BY <1>0
    <3>2. ASSUME NEW v
          PROVE  /\ Same([prof EXCEPT !.tech = v]) /\ Same([prof EXCEPT !.ecosystems = v]) /\ Same([prof EXCEPT !.shape = v])
                 /\ Same([prof EXCEPT !.api = v]) /\ Same([prof EXCEPT !.schemes = v])
      BY <2>3
    <3> HIDE DEF Same
    <3> QED BY <2>2, <3>1, <3>2
  <2> QED BY <1>0, <2>1, <2>4 DEF ListTyped
<1>4. CASE TestGuards(a)
  <2> DEFINE file == prof.files[prof.next]
             tested == Info[file].source /\ ~Info[file].named /\ Readable(a)
             ahead == {g \in Info[file].guards : g >= guardIndex}
             found == Info[file].source /\ (Info[file].named \/ (tested /\ ahead # {}))
             new == [prof EXCEPT !.next = @ + 1, !.guards = IF found THEN Append(@, file) ELSE @]
  <2>1. profiles'[a] = new /\ analysisPc'[a] = "guards" /\ ~(prof.next > Len(prof.files))
    BY <1>4 DEF TestGuards, Analysing, ProfileTypes, GuardsOver
  <2> HIDE DEF found, file
  <2>2. new = [x \in ProfileFields |-> new[x]] /\ new.files = prof.files /\ new.next = prof.next + 1
    BY <1>0 DEF ProfileFields
  <2> HIDE DEF new, prof
  <2>3. new.next \in 1..(Len(new.files) + 1)
    BY <1>0, <2>1, <2>2
  <2> QED BY <1>0, <2>1, <2>2, <2>3 DEF ListTyped, UnwalkedPC
<1> QED BY <1>1, <1>2, <1>3, <1>4 DEF AnalysisStep

LEMMA CountsStep ==
  ASSUME ProfileTypes, CountsTyped, NEW a \in Analyses, ListTyped(analysisPc[a], profiles[a]), AnalysisStep(a) \/ Dispose(a)
  PROVE  CountsTyped'
<1>0. guardIndex \in Nat /\ profileFaults \in 0..MaxProfileFaults /\ MaxProfileFaults \in Nat
  BY ProfileAssumption DEF CountsTyped
<1>1. profileFaults' = profileFaults \/ ProfileFault
  BY DEF AnalysisStep, Dispose, StartAnalysis, GitStarts, GitEnds, MeasureTree, RemoveTree, WalkTree, Detect,
       ReadManifests, DetectShape, ListRoutes, ListSchemes, TestGuards, Prepared
<1>2. profileFaults' \in 0..MaxProfileFaults
  BY <1>0, <1>1 DEF ProfileFault
<1>3. guardIndex' = guardIndex \/ TestGuards(a)
  BY DEF AnalysisStep, Dispose, StartAnalysis, GitStarts, GitEnds, MeasureTree, RemoveTree, WalkTree, Detect,
       ReadManifests, DetectShape, ListRoutes, ListSchemes, Prepared
<1>4. ASSUME TestGuards(a) PROVE guardIndex' \in Nat
  <2> DEFINE file == profiles[a].files[profiles[a].next]
             ahead == {g \in Info[file].guards : g >= guardIndex}
  <2>1. guardIndex' = guardIndex \/ guardIndex' = 0 \/ (ahead # {} /\ guardIndex' = Min(ahead) + 1)
    BY <1>4 DEF TestGuards
  <2>2. file \in Paths
    <3>1. /\ profiles[a].files \in Seq(Seen) /\ profiles[a].next \in 1..(Len(profiles[a].files) + 1)
          /\ ~(profiles[a].next > Len(profiles[a].files))
      BY <1>4 DEF ListTyped, TestGuards, GuardsOver
    <3>2. profiles[a].next \in 1..Len(profiles[a].files)
      BY <3>1
    <3>3. file \in Seen
      BY <3>1, <3>2
    <3> QED BY <3>3 DEF Seen
  <2> HIDE DEF file
  <2>3. ahead \subseteq Nat
    BY <2>2, TreeAssumption
  <2> HIDE DEF ahead
  <2>4. ahead # {} => Min(ahead) \in Nat
    <3> SUFFICES ASSUME ahead # {} PROVE Min(ahead) \in Nat
      OBVIOUS
    <3>1. \E x \in ahead : \A y \in ahead : x <= y
      BY <2>3, LeastOf
    <3> QED BY <2>3, <3>1 DEF Min
  <2> HIDE DEF Min
  <2> QED BY <1>0, <2>1, <2>4
<1> QED BY <1>0, <1>2, <1>3, <1>4 DEF CountsTyped

LEMMA AnalysisTypedStep == ProfileInv /\ AnalysisTyped /\ [StaticNext]_staticVars => AnalysisTyped'
<1> SUFFICES ASSUME ProfileInv, AnalysisTyped, [StaticNext]_staticVars PROVE AnalysisTyped'
  OBVIOUS
<1>0. ProfileTypes /\ profiles = [b \in Analyses |-> profiles[b]] /\ ListsTyped /\ CountsTyped
  BY DEF ProfileInv, AnalysisTyped
<1>1. ASSUME NEW a \in Analyses, AnalysisStep(a) \/ Dispose(a) PROVE AnalysisTyped'
  <2>1. ListTyped(analysisPc[a], profiles[a])
    BY <1>0 DEF ListsTyped
  <2>2. CountsTyped'
    BY <1>0, <1>1, <2>1, CountsStep
  <2>3. ListTyped(analysisPc'[a], profiles'[a])
    BY <1>0, <1>1, <2>1, ListStep
  <2>4. ASSUME NEW b \in Analyses PROVE ListTyped(analysisPc'[b], profiles'[b])
    <3>1. CASE b = a
      BY <2>3, <3>1
    <3>2. CASE b # a
      <4>1. analysisPc'[b] = analysisPc[b] /\ profiles'[b] = profiles[b]
        BY <1>0, <1>1, <3>2, OthersStay
      <4> QED BY <1>0, <4>1 DEF ListsTyped
    <3> QED BY <3>1, <3>2
  <2> QED BY <2>2, <2>4 DEF AnalysisTyped, ListsTyped
<1>2. CASE Unprofiled /\ (StaticFine \/ ProfileFault \/ UNCHANGED staticVars)
  <2>1. profileFaults' \in 0..MaxProfileFaults
    BY <1>0, <1>2, ProfileAssumption DEF CountsTyped, StaticFine, ProfileFault, staticVars, profileVars
  <2> QED BY <1>0, <1>2, <2>1 DEF AnalysisTyped, ListsTyped, CountsTyped, Unprofiled
<1>3. UNCHANGED staticVars => Unprofiled
  BY DEF staticVars, profileVars, Unprofiled
<1> QED BY <1>1, <1>2, <1>3, StaticSteps

(* A scan runs no scanner twice over: no more than there are.               *)
LEMMA FilteredShort ==
  ASSUME NEW T, NEW seq \in Seq(T), NEW I, I \subseteq DOMAIN seq
  PROVE  Len(Filtered(seq, I)) <= Len(seq)
<1> DEFINE n == Len(seq)
           m == Cardinality(I)
<1>1. n \in Nat /\ I \in SUBSET (1..n)
  OBVIOUS
<1>2. IsFiniteSet(1..n) /\ Cardinality(1..n) = n
  <2>1. 1 \in Int /\ n \in Int
    BY <1>1
  <2> HIDE DEF n
  <2>2. IsFiniteSet(1..n) /\ Cardinality(1..n) = IF 1 > n THEN 0 ELSE n - 1 + 1
    BY <2>1, FS_Interval
  <2>3. n - 1 + 1 = n /\ (1 > n => n = 0)
    BY <1>1
  <2> QED BY <2>2, <2>3
<1>3. m \in Nat /\ m <= n
  <2>1. IsFiniteSet(I) /\ Cardinality(I) <= Cardinality(1..n)
    BY <1>1, <1>2, FS_Subset
  <2> QED BY <1>2, <2>1, FS_CardinalityType
<1>4. DOMAIN Filtered(seq, I) = 1..m /\ Filtered(seq, I) \in Seq(T)
  <2>1. DOMAIN Filtered(seq, I) = 1..m
    BY DEF Filtered, InOrder
  <2>2. Filtered(seq, I) \in Seq(T)
    BY FilteredIs
  <2> QED BY <2>1, <2>2
<1> HIDE DEF m, n
<1>5. Len(Filtered(seq, I)) = m
  BY <1>3, <1>4
<1> QED BY <1>3, <1>5 DEF n

LEMMA RunsAreFew ==
  ASSUME ReportInv, NEW a \in StaticScans
  PROVE  Len(runs[a]) <= Len(Scanners)
<1> DEFINE I == {i \in DOMAIN Scanners : Applies(AppliesTo[Scanners[i]], profiles[a].tech, profiles[a].ecosystems)}
<1>1. Len(Selected(a)) <= Len(Scanners)
  <2>1. Selected(a) = Filtered(Scanners, I) /\ I \subseteq DOMAIN Scanners
    BY DEF Selected
  <2> HIDE DEF I
  <2> QED BY <2>1, ScannersAssumption, FilteredShort
<1>2. Len(Selected(a)) \in Nat /\ Len(Scanners) \in Nat
  BY ScannersAssumption, SelectedIs, ChosenIs
<1>3. runs[a] \in Seq(Run) /\ Len(runs[a]) <= Len(Selected(a))
  BY DEF ReportInv, ReportOf, ReportAt
<1>4. Len(runs[a]) \in Nat
  BY <1>3
<1> QED BY <1>1, <1>2, <1>3, <1>4

AnsweredTyped == answeredRow \in [StaticScans -> {"none", "PENDING"}]
LEMMA AnsweredStep == AnsweredTyped /\ [StaticNext]_staticVars => AnsweredTyped'
<1> SUFFICES ASSUME AnsweredTyped, [StaticNext]_staticVars PROVE AnsweredTyped'
  OBVIOUS
<1>1. answeredRow' = answeredRow \/ \E a \in StaticScans : answeredRow' = [answeredRow EXCEPT ![a] = "PENDING"]
  BY DEF StaticNext, StaticScanStep, AskStaticScan, AnswerStaticScan, Preparing, CreateStaticScan, MarkStaticScan,
     RunScanner, ScannersOver, StoreStep, SaveFindings, FinishStaticScan, StaticScanFails, CloseStaticScan, PlainAnalysis,
     scanVars, staticVars
<1> QED BY <1>1 DEF AnsweredTyped

(* Every variable of the analyses and of the static scans keeps its type,   *)
(* whoever shares a directory: the guard analyzer stays within the files    *)
(* of its own walk although its expression remembers where the last match   *)
(* ended, and no scan runs more scanners than there are.                    *)
THEOREM ScanTypes == StaticSpec => []StaticTypeOK
<1>1. ReportInv /\ AnalysisTyped /\ AnsweredTyped => StaticTypeOK
  <2> SUFFICES ASSUME ReportInv, AnalysisTyped, AnsweredTyped PROVE StaticTypeOK
    OBVIOUS
  <2>1. /\ analysisPc \in [Analyses -> AnalysisPC] /\ stampOf \in [Analyses -> Stamps \cup {0}]
        /\ trees \in [Stamps -> {"none", "partial", "whole"}]
    BY DEF ReportInv, ProfileInv, ProfileTypes
  <2>2. ASSUME NEW a \in Analyses
        PROVE  Listed(a) \subseteq Paths /\ profiles[a].next \in 1..(Len(profiles[a].files) + 1)
    <3>1. profiles[a].files \in Seq(Seen) /\ profiles[a].next \in 1..(Len(profiles[a].files) + 1)
      BY DEF AnalysisTyped, ListsTyped, ListTyped
    <3> QED BY <3>1 DEF Listed, ToSet, Seen
  <2>3. guardIndex \in Nat /\ profileFaults \in 0..MaxProfileFaults
    BY DEF AnalysisTyped, CountsTyped
  <2>4. ProfileTypeOK
    BY <2>1, <2>2, <2>3 DEF ProfileTypeOK
  <2> QED BY <2>4, RunsAreFew DEF StaticTypeOK, ReportInv, StaticTypes, AnsweredTyped
<1>2. StaticInit => AnalysisTyped /\ AnsweredTyped
  <2> SUFFICES ASSUME StaticInit PROVE AnalysisTyped /\ AnsweredTyped
    OBVIOUS
  <2>1. /\ NoProfile = [x \in ProfileFields |-> NoProfile[x]]
        /\ NoProfile.files = <<>> /\ NoProfile.next = 1
    BY DEF NoProfile, ProfileFields
  <2>2. <<>> \in Seq(Seen) /\ 1 \in 1..(Len(<<>>) + 1)
    OBVIOUS
  <2>3. ListTyped("idle", NoProfile)
    <3> HIDE DEF NoProfile
    <3> QED BY <2>1, <2>2 DEF ListTyped
  <2>4. \A a \in Analyses : analysisPc[a] = "idle" /\ profiles[a] = NoProfile
    BY DEF StaticInit, ProfileInit
  <2> HIDE DEF NoProfile
  <2>5. ListsTyped
    BY <2>3, <2>4 DEF ListsTyped
  <2>6. CountsTyped
    BY ProfileAssumption DEF StaticInit, ProfileInit, CountsTyped
  <2> QED BY <2>5, <2>6 DEF AnalysisTyped, AnsweredTyped, StaticInit
<1>3. StaticSpec => []ReportInv
  BY ReportAlways
<1>4. ReportInv => ProfileInv
  BY DEF ReportInv
<1> QED BY <1>1, <1>2, <1>3, <1>4, AnalysisTypedStep, AnsweredStep, PTL DEF StaticSpec
=============================================================================
