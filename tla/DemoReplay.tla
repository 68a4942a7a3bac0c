------------------------------ MODULE DemoReplay ------------------------------
(***************************************************************************)
(* The demonstration mode of the page: src/frontend/src/demo/demoRunner.ts *)
(* (a script of events on timers) and src/frontend/src/providers (the      *)
(* provider that folds the events into what it answers the page, and the   *)
(* one that chooses between demonstrations and real scans), with the part  *)
(* of hooks/useScanStore.ts that starts a scan and subscribes to it.       *)
(***************************************************************************)
EXTENDS Integers, Sequences, FiniteSets, SequencesExt

CONSTANTS Demos,        \* the demonstrations, each with a scan id of its own
          RealScan,     \* stands for the id of a scan on the backend
          FindingsIn,   \* demo -> its findings, in order
          PlannedIn,    \* demo -> the findings its targets are for, in order
          ExploitedIn,  \* demo -> the findings its exploits are for
          PatchedIn,    \* demo -> the findings its patches are for
          MarkedIn,     \* demo -> the findings whose id says "a03" or "sqli"
          Scenarios,    \* scenarios a demo is started with
          Speeds,       \* speed multipliers, in tenths
          MaxStarts     \* bound on the scans started from the page

(* The patches that a scenario of failure rejects.                         *)
Fails(d, f, i) == f \in MarkedIn[d] \/ i = 2

(* Of the fixtures: no finding has two patches; what is patched was        *)
(* exploited, what is exploited planned for, what is planned for found; and *)
(* some patch is one that a scenario of failure rejects.                   *)
ASSUME DemoAssumption ==
  /\ RealScan \notin Demos /\ "none" \notin Demos /\ MaxStarts \in Nat /\ Speeds \subseteq Nat \ {0}
  /\ Scenarios \subseteq {"full_approved", "critic_rejected", "baseline_failed"}
  /\ \A d \in Demos :
       /\ \A list \in {FindingsIn[d], PlannedIn[d], ExploitedIn[d], PatchedIn[d]} : list \in Seq(ToSet(list))
       /\ IsInjective(PatchedIn[d]) /\ "none" \notin ToSet(FindingsIn[d])
       /\ ToSet(PatchedIn[d]) \subseteq ToSet(ExploitedIn[d]) /\ ToSet(ExploitedIn[d]) \subseteq ToSet(PlannedIn[d])
       /\ ToSet(PlannedIn[d]) \subseteq ToSet(FindingsIn[d])
       /\ \E i \in DOMAIN PatchedIn[d] : Fails(d, PatchedIn[d][i], i)

VARIABLES show,      \* the runner: what it plays and how many events it has emitted
          status,    \* finding -> its status, "unseen" before it is revealed
          revealed,  \* "targets", "endpoints", "exploits", "patches", "pulls" -> findings
          scanState, \* the provider's scanState
          opened,  \* the page's activeScanId
          effectOn,  \* the scan its effect has subscribed to
          booked,    \* what was started last
          again,     \* it was started from the page of the same scan
          missed,    \* an event of this showing was heard by nobody
          starts

demoVars == <<show, status, revealed, scanState, opened, effectOn, booked, again, missed, starts>>

Names == UNION {{FindingsIn[d][i] : i \in DOMAIN FindingsIn[d]} : d \in Demos}
NoShow == [demo |-> "none", scenario |-> "none", speed |-> 0, seq |-> 0]
Kinds == {"targets", "endpoints", "exploits", "patches", "pulls"}
FindingStatuses ==
  {"unseen", "DISCOVERED", "PLANNED", "VERIFYING", "EXPLOIT_CONFIRMED", "PATCHED", "CRITIC_VERIFIED", "EXPLOIT_REJECTED"}

-----------------------------------------------------------------------------
(* The script.  Times are in tenths of a second.                           *)

Timed(time, type, on) == [time |-> time, type |-> type, on |-> on]
(* The script for the members of a sequence: the parts of the i-th, each an *)
(* offset and a type, count from a time that moves by a step per member.    *)
Each(s, start, step, parts) ==
  FlattenSeq([i \in DOMAIN s |-> [k \in DOMAIN parts[i] |->
    Timed(start + (i - 1) * step + parts[i][k][1], parts[i][k][2], s[i])]])
Alike(s, parts) == [i \in DOMAIN s |-> parts]

ScannerDone(d) == 85 + Len(FindingsIn[d]) * 15 + 10
ScanScript(d) ==
  <<Timed(5, "SCAN_STARTED", "none"), Timed(20, "ANALYZER_STARTED", "none"),
    Timed(50, "ANALYZER_COMPLETED", "none"), Timed(70, "SCANNER_STARTED", "none")>>
  \o Each(FindingsIn[d], 85, 15, Alike(FindingsIn[d], << <<0, "SCANNER_FINDING_DISCOVERED">> >>))
  \o <<Timed(ScannerDone(d), "SCANNER_COMPLETED", "none")>>

SandboxScript(d) ==
  <<Timed(ScannerDone(d) + 15, "SANDBOX_PROVISIONING", "none"), Timed(ScannerDone(d) + 45, "SANDBOX_READY", "none")>>

ScoutStart(d) == ScannerDone(d) + 60
ScoutDone(d) == ScoutStart(d) + 10 + Len(FindingsIn[d]) * 25 + 10
ScoutScript(d) ==
  <<Timed(ScoutStart(d), "SCOUT_STARTED", "none")>>
  \o Each(FindingsIn[d], ScoutStart(d) + 10, 25, Alike(FindingsIn[d],
       << <<0, "SCOUT_TARGET_STARTED">>, <<8, "SCOUT_ENDPOINT_DISCOVERED">>,
          <<16, "SCOUT_EVIDENCE_COLLECTED">>, <<22, "SCOUT_TARGET_COMPLETED">> >>))
  \o <<Timed(ScoutDone(d), "SCOUT_COMPLETED", "none")>>

PlannerStart(d) == ScoutDone(d) + 15
PlannerDone(d) == PlannerStart(d) + 10 + Len(PlannedIn[d]) * 15 + 10
PlannerScript(d) ==
  <<Timed(PlannerStart(d), "PLANNER_STARTED", "none")>>
  \o Each(PlannedIn[d], PlannerStart(d) + 10, 15, Alike(PlannedIn[d], << <<0, "PLANNER_COMPLETED">> >>))
  \o <<Timed(PlannerDone(d), "PLANNER_COMPLETED", "none")>>

SniperStart(d) == PlannerDone(d) + 15
SniperDone(d) == SniperStart(d) + 10 + Len(ExploitedIn[d]) * 25 + 10
SniperScript(d) ==
  <<Timed(SniperStart(d), "SNIPER_STARTED", "none")>>
  \o Each(ExploitedIn[d], SniperStart(d) + 10, 25, Alike(ExploitedIn[d],
       << <<0, "SNIPER_TARGET_SELECTED">>, <<15, "SNIPER_CONFIRMED">> >>))
  \o <<Timed(SniperDone(d), "SNIPER_VERIFICATION_COMPLETED", "none")>>

EngineerStart(d) == SniperDone(d) + 15
EngineerDone(d) == EngineerStart(d) + 10 + Len(PatchedIn[d]) * 25 + 10
EngineerScript(d) ==
  <<Timed(EngineerStart(d), "ENGINEER_STARTED", "none")>>
  \o Each(PatchedIn[d], EngineerStart(d) + 10, 25, Alike(PatchedIn[d],
       << <<0, "ENGINEER_RAG_STARTED">>, <<15, "ENGINEER_PATCH_GENERATED">> >>))
  \o <<Timed(EngineerDone(d) - 5, "ENGINEER_COMPLETED", "none")>>

(* The review of one patch: the second, and those marked, fail as the      *)
(* scenario says.                                                          *)
BaselineFails ==
  << <<0, "BASELINE_CHECK_STARTED">>, <<8, "BASELINE_CHECK_COMPLETED">>, <<14, "CRITIC_REJECTED">> >>
ChecksRun ==
  << <<0, "BASELINE_CHECK_STARTED">>, <<6, "BASELINE_CHECK_COMPLETED">>, <<12, "PATCH_APPLY_STARTED">>,
     <<18, "PATCH_APPLIED">>, <<24, "BUILD_COMPLETED">>, <<30, "TESTS_COMPLETED">> >>
Judgement(rejected) ==
  IF rejected THEN << <<36, "CRITIC_REJECTED">> >>
  ELSE << <<34, "EXPLOIT_RETEST_COMPLETED">>, <<38, "CRITIC_APPROVED">>, <<42, "REMEDIATION_PR_CREATED">> >>
Review(d, sc, f, i) ==
  IF sc = "baseline_failed" /\ Fails(d, f, i) THEN BaselineFails
  ELSE ChecksRun \o Judgement(sc = "critic_rejected" /\ Fails(d, f, i))
CriticStart(d) == EngineerDone(d) + 15
CriticDone(d) == CriticStart(d) + 10 + Len(PatchedIn[d]) * 40 + 10
CriticScript(d, sc) ==
  <<Timed(CriticStart(d), "CRITIC_STARTED", "none")>>
  \o Each(PatchedIn[d], CriticStart(d) + 10, 40,
          [i \in DOMAIN PatchedIn[d] |-> Review(d, sc, PatchedIn[d][i], i)])
  \o <<Timed(CriticDone(d) - 5, "CRITIC_COMPLETED", "none"),
       Timed(CriticDone(d), IF sc = "full_approved" THEN "SCAN_COMPLETED" ELSE "SCAN_FAILED", "none")>>

Script(d, sc) ==
  ScanScript(d) \o SandboxScript(d) \o ScoutScript(d) \o PlannerScript(d) \o SniperScript(d) \o EngineerScript(d)
  \o CriticScript(d, sc)

(* The timers: no event waits less than a tenth of a second however fast   *)
(* the demo runs, and timers that are due together fire as they were set.  *)
Delay(time, speed) == LET ms == (time * 1000) \div speed IN IF ms < 100 THEN 100 ELSE ms
Timers(d, sc, sp) ==
  LET s == Script(d, sc)
      due(i) == Delay(s[i].time, sp)
  IN [k \in DOMAIN s |-> s[CHOOSE i \in DOMAIN s :
        Cardinality({j \in DOMAIN s : due(j) < due(i) \/ (due(j) = due(i) /\ j < i)}) = k - 1]]
Playbill == [d \in Demos |-> [sc \in Scenarios |-> [sp \in Speeds |-> Timers(d, sc, sp)]]]

-----------------------------------------------------------------------------
(* The provider.                                                           *)
NothingRevealed == [k \in Kinds |-> {}]
ResetRevealed ==
  /\ status' = [f \in Names |-> "unseen"] /\ revealed' = NothingRevealed /\ scanState' = "RUNNING"

DemoInit ==
  /\ show = NoShow /\ status = [f \in Names |-> "unseen"] /\ revealed = NothingRevealed /\ scanState = "IDLE"
  /\ opened = "none" /\ effectOn = "none" /\ booked = NoShow
  /\ again = FALSE /\ missed = FALSE /\ starts = 0

Reveal(kind, f) == revealed' = [revealed EXCEPT ![kind] = @ \cup {f}]
(* A finding that is revealed takes a status; others are left alone.       *)
Marks(f, s) == status' = [status EXCEPT ![f] = IF @ = "unseen" THEN @ ELSE s]
Quiet == UNCHANGED <<status, revealed, scanState>>

HandleStreamEvent(e) ==
  CASE e.type = "SCAN_STARTED" -> ResetRevealed
    [] e.type = "SCANNER_STARTED" -> status' = [f \in Names |-> "unseen"] /\ UNCHANGED <<revealed, scanState>>
    [] e.type = "SCANNER_FINDING_DISCOVERED" ->
         /\ status' = [status EXCEPT ![e.on] = IF @ = "unseen" THEN "DISCOVERED" ELSE @]
         /\ UNCHANGED <<revealed, scanState>>
    [] e.type = "SCOUT_ENDPOINT_DISCOVERED" -> Reveal("endpoints", e.on) /\ UNCHANGED <<status, scanState>>
    [] e.type = "PLANNER_COMPLETED" ->
         LET planned == revealed.targets \cup ({e.on} \ {"none"}) IN
         /\ revealed' = [revealed EXCEPT !.targets = planned]
         /\ status' = [f \in Names |-> IF f \in planned /\ status[f] = "DISCOVERED" THEN "PLANNED" ELSE status[f]]
         /\ UNCHANGED scanState
    [] e.type = "SNIPER_TARGET_SELECTED" -> Marks(e.on, "VERIFYING") /\ UNCHANGED <<revealed, scanState>>
    [] e.type = "SNIPER_CONFIRMED" -> Marks(e.on, "EXPLOIT_CONFIRMED") /\ Reveal("exploits", e.on) /\ UNCHANGED scanState
    [] e.type = "ENGINEER_PATCH_GENERATED" -> Marks(e.on, "PATCHED") /\ Reveal("patches", e.on) /\ UNCHANGED scanState
    [] e.type = "CRITIC_APPROVED" -> Marks(e.on, "CRITIC_VERIFIED") /\ UNCHANGED <<revealed, scanState>>
    [] e.type = "REMEDIATION_PR_CREATED" ->
         /\ IF e.on \in revealed.patches THEN Reveal("pulls", e.on) ELSE UNCHANGED revealed
         /\ UNCHANGED <<status, scanState>>
    [] e.type = "CRITIC_REJECTED" -> Marks(e.on, "EXPLOIT_REJECTED") /\ UNCHANGED <<revealed, scanState>>
    [] e.type = "SCAN_COMPLETED" -> scanState' = "COMPLETED" /\ UNCHANGED <<status, revealed>>
    [] e.type = "SCAN_FAILED" -> scanState' = "FAILED" /\ UNCHANGED <<status, revealed>>
    [] OTHER -> Quiet

(* The next timer of the runner.  Unsubscribing does not stop the runner:  *)
(* what it emits while nobody listens is lost.                             *)
Program == Playbill[show.demo][show.scenario][show.speed]
Playing == show # NoShow /\ show.seq < Len(Program)
Fire ==
  /\ Playing /\ show' = [show EXCEPT !.seq = @ + 1]
  /\ \/ /\ effectOn \in Demos /\ UNCHANGED missed
        /\ HandleStreamEvent(Program[show.seq + 1])
     \/ effectOn \notin Demos /\ missed' = TRUE /\ Quiet
  /\ UNCHANGED <<opened, effectOn, booked, again, starts>>

LeavesRunner(d, sc, sp) ==
  /\ booked' = [demo |-> d, scenario |-> sc, speed |-> sp, seq |-> 0]
  /\ UNCHANGED show /\ ResetRevealed
(* setDemoConfig() and startScan(): the runner before is stopped, the one  *)
(* after is started by the first to subscribe.                             *)
BookDemo(d, sc, sp) ==
  /\ booked' = [demo |-> d, scenario |-> sc, speed |-> sp, seq |-> 0]
  /\ show' = NoShow /\ ResetRevealed

(* createScan() of the page, whose effects have run by the next click: it  *)
(* attaches to the scan id the provider answers, which is the demo's own.  *)
StartDemo(d, sc, sp) ==
  /\ starts < MaxStarts /\ starts' = starts + 1 /\ opened = effectOn
  /\ BookDemo(d, sc, sp)
  /\ opened' = d /\ again' = (opened = d)
  /\ UNCHANGED <<effectOn, missed>>

(* A scan on the backend leaves the demo's runner alone.                   *)
StartReal ==
  /\ starts < MaxStarts /\ starts' = starts + 1 /\ opened = effectOn
  /\ opened' = RealScan
  /\ UNCHANGED <<show, status, revealed, scanState, effectOn, booked, again, missed>>

(* The effect runs when the id it depends on has changed, and subscribes.  *)
Subscribe ==
  /\ opened # effectOn /\ effectOn' = opened
  /\ \/ opened \in Demos /\ show = NoShow /\ show' = booked /\ missed' = FALSE /\ ResetRevealed
     \/ (opened \notin Demos \/ show # NoShow) /\ UNCHANGED <<show, missed>> /\ Quiet
  /\ UNCHANGED <<opened, booked, again, starts>>

DemoNext ==
  \/ Fire \/ Subscribe \/ StartReal
  \/ \E d \in Demos, sc \in Scenarios, sp \in Speeds : StartDemo(d, sc, sp)
DemoSpec == DemoInit /\ [][DemoNext]_demoVars

-----------------------------------------------------------------------------
(* Types of the variables.                                                 *)
DemoTypeOK ==
  /\ show = NoShow \/ show.seq \in 0..Len(Program)
  /\ status \in [Names -> FindingStatuses] /\ \A k \in Kinds : revealed[k] \subseteq Names
  /\ scanState \in {"IDLE", "RUNNING", "COMPLETED", "FAILED"}
  /\ opened \in Demos \cup {RealScan, "none"} /\ effectOn \in Demos \cup {RealScan, "none"}
  /\ again \in BOOLEAN /\ missed \in BOOLEAN /\ starts \in 0..MaxStarts

Rejected ==
  {f \in Names : \E i \in DOMAIN PatchedIn[show.demo] :
     /\ PatchedIn[show.demo][i] = f /\ show.scenario # "full_approved" /\ Fails(show.demo, f, i)}

(* A page that shows a demo shows that demo, from its first event, and a   *)
(* story that holds together at every event, at any speed: nothing is      *)
(* patched that was not confirmed, no pull request is open but for an      *)
(* approved patch, a patch the scenario rejects is never approved (the     *)
(* promise of demoRunner.test.ts:217), one target is verified at a time,   *)
(* and the scan ends last, with a verdict on every patch, as failed when   *)
(* one was rejected.  Only a demo started again from its own page is not   *)
(* shown: its id is the one the effect has already run for.                *)
ReplayHolds ==
  opened = effectOn /\ opened \in Demos =>
    IF show = NoShow THEN again
    ELSE /\ show.demo = opened /\ ~missed
         /\ revealed.patches \subseteq revealed.exploits /\ revealed.exploits \subseteq revealed.targets
         /\ \A f \in revealed.pulls : status[f] = "CRITIC_VERIFIED" /\ f \in revealed.patches
         /\ \A f \in Rejected : status[f] # "CRITIC_VERIFIED"
         /\ Cardinality({f \in Names : status[f] = "VERIFYING"}) <= 1
         /\ (scanState = "RUNNING") = Playing
         /\ ~Playing => /\ revealed.patches = revealed.pulls \cup Rejected
                        /\ (scanState = "FAILED") = (Rejected # {})
=============================================================================
