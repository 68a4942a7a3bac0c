---------------------------- MODULE SniperRunProofs ----------------------------
(***************************************************************************)
(* Proofs about SniperRun for any number of targets, findings, endpoints,  *)
(* workers, attempts and failing writes; and about Verifiers for any       *)
(* application, checks, sessions, outputs of sqlmap and outages.           *)
(***************************************************************************)
EXTENDS SniperRun, Verifiers, TLAPS

USE SniperAssumption

-----------------------------------------------------------------------------
(* Types.  What they rest on: another attempt is made only while there are *)
(* some left, and a vulnerability that is marked is one.                   *)
Budget ==
  /\ \A t \in Targets : sniperPc[t] \in {"queued", "load", "seed"} => attempts[t] = 0
  /\ \A t \in Targets : sniperPc[t] \in {"attempt", "record"} => attempts[t] < MaxAttempts

Picked == \A t \in Targets : sniperPc[t] \in {"others", "mark", "confirm"} => pick[t] # Nothing

TypeInv == SniperTypeOK /\ Budget /\ Picked

LEMMA StartTypes == SniperInit => TypeInv
<1> SUFFICES ASSUME SniperInit PROVE TypeInv
  OBVIOUS
<1>1. NoOutcome \in Outcome
  BY DEF NoOutcome, Outcome, Verdicts
<1>2. refused \in [Targets -> [vuln : Findings \cup {Nothing}, at : Places \cup {Elsewhere, "none"}]]
  BY DEF SniperInit, NoRefusal
<1>3. attempts \in [Targets -> 0..MaxAttempts]
  BY DEF SniperInit
<1> QED BY <1>1, <1>2, <1>3 DEF SniperInit, TypeInv, SniperTypeOK, Budget, Picked, SniperPC, Vulnerabilities

(* The steps of the run itself.                                            *)
LEMMA RunTypes ==
  ASSUME TypeInv, ValidateSandbox \/ LoadFindings \/ ReportRun
  PROVE  TypeInv'
<1> USE DEF TypeInv, SniperTypeOK, Budget, Picked, sniperRow
<1>1. CASE ValidateSandbox
  BY <1>1 DEF ValidateSandbox
<1>2. CASE LoadFindings
  BY <1>2 DEF LoadFindings, Correlated
<1>3. CASE ReportRun
  BY <1>3 DEF ReportRun
<1> QED BY <1>1, <1>2, <1>3

(* A target moves on and none of its attempts is spent.                    *)
LEMMA MoveTypes ==
  ASSUME TypeInv, NEW t \in Targets, NEW l \in SniperPC, To(t, l), UNCHANGED attempts,
         l \in {"queued", "load", "seed"} => attempts[t] = 0,
         l \in {"attempt", "record"} => attempts[t] < MaxAttempts
  PROVE  Budget' /\ sniperPc' \in [Targets -> SniperPC] /\ attempts' \in [Targets -> 0..MaxAttempts]
BY DEF TypeInv, SniperTypeOK, Budget, To

LEMMA AttemptTypes ==
  ASSUME TypeInv, NEW t \in Targets,
         StartTarget(t) \/ LoadTarget(t) \/ Seed(t) \/ Verify(t) \/ RecordAttempt(t)
  PROVE  TypeInv'
<1> USE DEF TypeInv, sniperRow, SniperPC
<1>0. Picked'
  BY DEF StartTarget, LoadTarget, Seed, Verify, RecordAttempt, To, SniperTypeOK, Picked
<1>1. CASE StartTarget(t)
  BY <1>0, <1>1, MoveTypes DEF StartTarget, SniperTypeOK, Budget
<1>2. CASE LoadTarget(t)
  BY <1>0, <1>2, MoveTypes DEF LoadTarget, SniperTypeOK, Budget
<1>3. CASE Seed(t)
  <2>1. attempts[t] = 0 /\ 0 < MaxAttempts
    BY <1>3 DEF Seed, Budget
  <2>2. Budget' /\ sniperPc' \in [Targets -> SniperPC] /\ attempts' \in [Targets -> 0..MaxAttempts]
    BY <1>3, <2>1, MoveTypes DEF Seed
  <2>3. finding[t] \in Vulnerabilities \cup {Nothing}
    BY DEF SniperTypeOK, Vulnerabilities
  <2>4. verdict' \in [Targets -> Verdicts \cup {"none", "TESTING"}]
    BY <1>3 DEF Seed, SniperTypeOK
  <2>5. link' \in [Targets -> Vulnerabilities \cup {Nothing}]
    BY <1>3, <2>3 DEF Seed, SniperTypeOK
  <2>6. sniperFaults' \in 0..MaxSniperFaults
    BY <1>3 DEF Seed, SniperTypeOK, SniperFault
  <2> QED BY <1>0, <1>3, <2>2, <2>4, <2>5, <2>6 DEF Seed, SniperTypeOK
<1>4. CASE Verify(t)
  BY <1>0, <1>4, MoveTypes DEF Verify, SniperTypeOK, Budget
<1>5. CASE RecordAttempt(t)
  <2>1. attempts[t] \in Nat /\ attempts[t] < MaxAttempts
    BY <1>5 DEF RecordAttempt, SniperTypeOK, Budget
  <2>2. /\ attempts' \in [Targets -> 0..MaxAttempts] /\ sniperPc' \in [Targets -> SniperPC]
        /\ sniperFaults' \in 0..MaxSniperFaults
    BY <1>5, <2>1 DEF RecordAttempt, SniperTypeOK, SniperFault, To
  <2>3. Budget'
    BY <1>5, <2>1 DEF RecordAttempt, SniperTypeOK, Budget, To
  <2> QED BY <1>0, <1>5, <2>2, <2>3 DEF RecordAttempt, SniperTypeOK
<1> QED BY <1>1, <1>2, <1>3, <1>4, <1>5

LEMMA SaveTypes ==
  ASSUME TypeInv, NEW t \in Targets,
         \/ QueryFails(t) \/ Lookup(t) \/ Others(t) \/ Mark(t) \/ Find(t) \/ Confirm(t) \/ Create(t)
  PROVE  TypeInv'
<1> USE DEF TypeInv, sniperRow
<1>1. \E l \in {"refuse", "write", "find", "others", "mark", "confirm", "create"} : To(t, l)
  BY DEF QueryFails, Lookup, Others, Mark, Find, Confirm, Create
<1>2. UNCHANGED <<sniperRun, place, finding, attempts, outcome, sniperRow, refused, told>>
  BY DEF QueryFails, Lookup, Others, Mark, Find, Confirm, Create
<1>3. Budget' /\ sniperPc' \in [Targets -> SniperPC] /\ attempts' \in [Targets -> 0..MaxAttempts]
  BY <1>1, <1>2, MoveTypes DEF SniperPC
<1>4. pick' \in [Targets -> Vulnerabilities \cup {Nothing}]
  BY DEF QueryFails, Lookup, Others, Mark, Find, Confirm, Create, SniperTypeOK, Vulnerabilities
<1>5. created' \subseteq Targets
  BY DEF QueryFails, Lookup, Others, Mark, Find, Confirm, Create, SniperTypeOK
<1>6. sniperFaults' \in 0..MaxSniperFaults
  BY DEF QueryFails, Lookup, Others, Mark, Find, Confirm, Create, SniperTypeOK, SniperFault
<1>7. sealed' \subseteq Vulnerabilities
  <2>1. sniperPc[t] \in {"others", "mark", "confirm"} => pick[t] \in Vulnerabilities
    BY DEF SniperTypeOK, Picked
  <2>2. t \in Vulnerabilities
    BY DEF Vulnerabilities
  <2> QED BY <2>1, <2>2 DEF QueryFails, Lookup, Others, Mark, Find, Confirm, Create, SniperTypeOK
<1>8. Picked'
  <2>1. \A u \in Targets \ {t} : sniperPc'[u] = sniperPc[u] /\ pick'[u] = pick[u]
    BY DEF QueryFails, Lookup, Others, Mark, Find, Confirm, Create, SniperTypeOK, To
  <2>2. sniperPc'[t] \in {"others", "mark", "confirm"} => pick'[t] # Nothing
    BY DEF QueryFails, Lookup, Others, Mark, Find, Confirm, Create, SniperTypeOK, To, Picked
  <2> QED BY <2>1, <2>2 DEF Picked
<1> QED BY <1>2, <1>3, <1>4, <1>5, <1>6, <1>7, <1>8 DEF SniperTypeOK

LEMMA EndTypes ==
  ASSUME TypeInv, NEW t \in Targets, WriteExploit(t) \/ ReplaceEvidence(t) \/ Refuse(t)
  PROVE  TypeInv'
<1> USE DEF TypeInv, sniperRow
<1>0. NoOutcome \in Outcome
  BY DEF NoOutcome, Outcome, Verdicts
<1>1. \E l \in {"evidence", "refuse", "done"} : To(t, l)
  BY DEF WriteExploit, ReplaceEvidence, Refuse, Leave
<1>2. Budget' /\ sniperPc' \in [Targets -> SniperPC] /\ attempts' \in [Targets -> 0..MaxAttempts]
  BY <1>1, MoveTypes DEF SniperPC, WriteExploit, ReplaceEvidence, Refuse
<1>3. sniperFaults' \in 0..MaxSniperFaults
  BY DEF WriteExploit, ReplaceEvidence, Refuse, SniperTypeOK, SniperFault
<1>7. Leave(t) => outcome' \in [Targets -> Outcome] /\ pick' \in [Targets -> Vulnerabilities \cup {Nothing}]
  BY <1>0 DEF Leave, SniperTypeOK
<1>8. Picked'
  <2>1. \A u \in Targets \ {t} : sniperPc'[u] = sniperPc[u] /\ pick'[u] = pick[u]
    BY DEF WriteExploit, ReplaceEvidence, Refuse, Leave, SniperTypeOK, To
  <2>2. sniperPc'[t] \notin {"others", "mark", "confirm"}
    BY <1>1 DEF SniperTypeOK, To
  <2> QED BY <2>1, <2>2 DEF Picked
<1>4. CASE WriteExploit(t)
  <2>1. outcome[t].status \in Verdicts /\ pick[t] \in Vulnerabilities \cup {Nothing}
    BY DEF SniperTypeOK, Outcome
  <2>2. /\ verdict' \in [Targets -> Verdicts \cup {"none", "TESTING"}]
        /\ link' \in [Targets -> Vulnerabilities \cup {Nothing}]
    BY <1>4, <2>1 DEF WriteExploit, SniperTypeOK
  <2> QED BY <1>2, <1>3, <1>8, <1>4, <2>2 DEF WriteExploit, SniperTypeOK
<1>5. CASE ReplaceEvidence(t)
  <2>1. told' \in [Targets -> {"none", "CONFIRMED", "NOT_TESTED", "REJECTED"}]
    BY <1>5 DEF ReplaceEvidence, Announced, SniperTypeOK
  <2>2. outcome' \in [Targets -> Outcome] /\ pick' \in [Targets -> Vulnerabilities \cup {Nothing}]
    BY <1>5, <1>7 DEF ReplaceEvidence, SniperTypeOK
  <2> QED BY <1>2, <1>3, <1>8, <1>5, <2>1, <2>2 DEF ReplaceEvidence, SniperTypeOK
<1>6. CASE Refuse(t)
  <2>1. refused' \in [Targets -> [vuln : Findings \cup {Nothing}, at : Places \cup {Elsewhere, "none"}]]
    BY <1>6 DEF Refuse, Correlated, SniperTypeOK
  <2>2. outcome' \in [Targets -> Outcome] /\ pick' \in [Targets -> Vulnerabilities \cup {Nothing}]
    BY <1>6, <1>7 DEF Refuse
  <2>3. told' \in [Targets -> {"none", "CONFIRMED", "NOT_TESTED", "REJECTED"}]
    BY <1>6 DEF Refuse, SniperTypeOK
  <2> QED BY <1>2, <1>3, <1>8, <1>6, <2>1, <2>2, <2>3 DEF Refuse, SniperTypeOK
<1> QED BY <1>4, <1>5, <1>6

LEMMA StepTypes == TypeInv /\ [SniperNext]_sniperVars => TypeInv'
<1> SUFFICES ASSUME TypeInv, [SniperNext]_sniperVars PROVE TypeInv'
  OBVIOUS
<1>1. CASE UNCHANGED sniperVars
  BY <1>1 DEF TypeInv, SniperTypeOK, Budget, Picked, sniperVars, sniperRow
<1> QED BY <1>1, RunTypes, AttemptTypes, SaveTypes, EndTypes DEF SniperNext, Attack

(* The variables keep their types; in particular no target has more than   *)
(* MaxAttempts attempts (AttemptLoop.run).                                 *)
THEOREM SniperTypes == SniperSpec => []SniperTypeOK
<1>1. TypeInv => SniperTypeOK
  BY DEF TypeInv
<1> QED BY <1>1, StartTypes, StepTypes, PTL DEF SniperSpec

-----------------------------------------------------------------------------
(* Whose vulnerability it is.  A target claims its finding from the moment *)
(* it found no row of another endpoint with it; until then and ever after  *)
(* its row has had that finding, so that a later one would see it.         *)
Own(t, v) == \/ v \in Targets /\ place[v] = place[t]
             \/ v \in Findings /\ v = finding[t]

RowInv(t) ==
  /\ sniperPc[t] \in {"attempt", "record", "lookup", "others", "mark", "find", "confirm", "create", "write"} =>
       verdict[t] = "TESTING" /\ link[t] = finding[t]
  /\ sniperPc[t] \in {"others", "mark"} => pick[t] \in Findings /\ pick[t] = finding[t]
  /\ sniperPc[t] = "confirm" => pick[t] \in Targets /\ place[pick[t]] = place[t]
  /\ sniperPc[t] = "write" /\ outcome[t].status = "CONFIRMED" => Own(t, pick[t])
  /\ verdict[t] = "CONFIRMED" => Own(t, link[t])

Claims(t, v) ==
  /\ v \in Findings /\ v = finding[t] /\ v = link[t] /\ verdict[t] # "none"
  /\ \/ sniperPc[t] = "mark"
     \/ sniperPc[t] = "write" /\ outcome[t].status = "CONFIRMED" /\ pick[t] = v
     \/ verdict[t] = "CONFIRMED"

Idle == sniperRun \in {"idle", "findings", "rejected"} =>
          \A t \in Targets : sniperPc[t] = "queued" /\ verdict[t] = "none"

OwnInv ==
  /\ TypeInv /\ Idle
  /\ \A t \in Targets : RowInv(t)
  /\ \A t, u \in Targets, v \in Findings : Claims(t, v) /\ Claims(u, v) => place[t] = place[u]

LEMMA OwnIsOwn == OwnInv => OwnVulnerability
<1> SUFFICES ASSUME OwnInv, NEW t \in Targets, NEW u \in Targets, verdict[t] = "CONFIRMED",
                    verdict[u] = "CONFIRMED", place[t] # place[u], link[t] = link[u]
             PROVE  FALSE
  BY DEF OwnVulnerability
<1>1. Own(t, link[t]) /\ Own(u, link[t])
  BY DEF OwnInv, RowInv
<1>2. CASE link[t] \in Targets
  BY <1>1, <1>2 DEF Own
<1>3. CASE link[t] \in Findings
  <2>1. Claims(t, link[t]) /\ Claims(u, link[t])
    BY <1>1, <1>3 DEF Own, Claims
  <2> QED BY <1>3, <2>1 DEF OwnInv
<1> QED BY <1>1, <1>2, <1>3 DEF Own

LEMMA StartOwn == SniperInit => OwnInv
BY StartTypes DEF SniperInit, OwnInv, Idle, RowInv, Claims

(* What a step of one target leaves alone of another.                      *)
Same(u) ==
  /\ sniperPc'[u] = sniperPc[u] /\ verdict'[u] = verdict[u] /\ link'[u] = link[u]
  /\ pick'[u] = pick[u] /\ outcome'[u] = outcome[u]

LEMMA StepIsLocal ==
  ASSUME TypeInv, NEW t \in Targets, StartTarget(t) \/ Attack(t)
  PROVE  /\ \A u \in Targets \ {t} : Same(u)
         /\ UNCHANGED <<sniperRun, place, finding>>
<1> USE DEF To, sniperRow, Same, TypeInv, SniperTypeOK
<1>1. CASE StartTarget(t) \/ LoadTarget(t) \/ Seed(t) \/ Verify(t) \/ RecordAttempt(t)
  BY <1>1 DEF StartTarget, LoadTarget, Seed, Verify, RecordAttempt
<1>2. CASE QueryFails(t) \/ Lookup(t) \/ Others(t) \/ Mark(t) \/ Find(t) \/ Confirm(t) \/ Create(t)
  BY <1>2 DEF QueryFails, Lookup, Others, Mark, Find, Confirm, Create
<1>3. CASE WriteExploit(t) \/ ReplaceEvidence(t) \/ Refuse(t)
  BY <1>3 DEF WriteExploit, ReplaceEvidence, Refuse, Leave
<1> QED BY <1>1, <1>2, <1>3 DEF Attack

(* The row of the target that moves: the invariant holds of it, and if it  *)
(* claims a vulnerability it did so before, or has just looked.            *)
Looked(t, v) == sniperPc[t] = "others" /\ v = pick[t] /\ ~Shared(t, v)

LEMMA RowStep ==
  ASSUME OwnInv, NEW t \in Targets, StartTarget(t) \/ Attack(t)
  PROVE  /\ RowInv(t)'
         /\ \A v \in Findings : Claims(t, v)' => Claims(t, v) \/ Looked(t, v)
<1>1. RowInv(t) /\ TypeInv /\ t \notin Findings
  BY DEF OwnInv
<1>2. place' = place /\ finding' = finding
  BY <1>1, StepIsLocal
<1> USE DEF To, sniperRow, TypeInv, SniperTypeOK
<1>3. CASE StartTarget(t) \/ LoadTarget(t) \/ Verify(t) \/ RecordAttempt(t) \/ QueryFails(t)
  <2>1. /\ UNCHANGED <<verdict, link, pick>>
        /\ \/ sniperPc'[t] \in {"load", "seed", "unsupported", "refuse"}
           \/ /\ sniperPc[t] \in {"attempt", "record"}
              /\ sniperPc'[t] \in {"attempt", "record", "lookup"}
    BY <1>1, <1>3 DEF StartTarget, LoadTarget, Verify, RecordAttempt, QueryFails
  <2> QED BY <1>1, <1>2, <2>1 DEF RowInv, Claims, Own
<1>4. CASE Seed(t)
  <2>1. \/ /\ sniperPc'[t] = "attempt" /\ verdict'[t] = "TESTING" /\ link'[t] = finding[t]
        \/ sniperPc'[t] = "refuse" /\ UNCHANGED <<verdict, link>>
    BY <1>1, <1>4 DEF Seed
  <2> QED BY <1>1, <1>2, <2>1 DEF RowInv, Claims, Own
<1>5. CASE Lookup(t)
  <2>1. /\ UNCHANGED <<verdict, link, outcome>> /\ sniperPc[t] = "lookup" /\ pick'[t] = finding[t]
        /\ \/ sniperPc'[t] = "write" /\ outcome[t].status # "CONFIRMED"
           \/ sniperPc'[t] = "find"
           \/ sniperPc'[t] = "others" /\ finding[t] \in Findings
    BY <1>1, <1>5 DEF Lookup
  <2> QED BY <1>1, <1>2, <2>1 DEF RowInv, Claims, Own
<1>6. CASE Others(t)
  <2>1. /\ UNCHANGED <<verdict, link, outcome>> /\ sniperPc[t] = "others"
        /\ \/ sniperPc'[t] = "find"
           \/ sniperPc'[t] = "mark" /\ pick' = pick /\ ~Shared(t, pick[t])
    BY <1>1, <1>6 DEF Others
  <2> QED BY <1>1, <1>2, <2>1 DEF RowInv, Claims, Own, Looked
<1>7. CASE Mark(t)
  <2>1. /\ UNCHANGED <<verdict, link, outcome>> /\ sniperPc[t] = "mark"
        /\ sniperPc'[t] = "find" \/ (sniperPc'[t] = "write" /\ pick' = pick)
    BY <1>1, <1>7 DEF Mark
  <2> QED BY <1>1, <1>2, <2>1 DEF RowInv, Claims, Own
<1>8. CASE Find(t)
  <2>1. /\ UNCHANGED <<verdict, link, outcome>> /\ sniperPc[t] = "find"
        /\ \/ sniperPc'[t] = "create"
           \/ sniperPc'[t] = "confirm" /\ pick'[t] \in Targets /\ place[pick'[t]] = place[t]
    <3>1. ASSUME NEW u \in {u \in created : place[u] = place[t]},
                 pick' = [pick EXCEPT ![t] = u], To(t, "confirm")
          PROVE  /\ sniperPc'[t] = "confirm" /\ pick'[t] \in Targets /\ place[pick'[t]] = place[t]
      BY <1>1, <3>1
    <3> QED BY <1>1, <1>8, <3>1 DEF Find
  <2> QED BY <1>1, <1>2, <2>1 DEF RowInv, Claims, Own
<1>9. CASE Confirm(t) \/ Create(t)
  <2>1. /\ UNCHANGED <<verdict, link, outcome>> /\ sniperPc[t] \in {"confirm", "create"}
        /\ \/ sniperPc'[t] = "refuse"
           \/ sniperPc'[t] = "write" /\ pick'[t] \in Targets /\ place[pick'[t]] = place[t]
    BY <1>1, <1>9 DEF Confirm, Create, RowInv
  <2> QED BY <1>1, <1>2, <2>1 DEF RowInv, Claims, Own
<1>10. CASE WriteExploit(t)
  <2>1. /\ UNCHANGED <<pick, outcome>> /\ sniperPc[t] = "write"
        /\ \/ sniperPc'[t] = "refuse" /\ UNCHANGED <<verdict, link>>
           \/ /\ sniperPc'[t] = "evidence" /\ verdict'[t] = outcome[t].status /\ link'[t] = pick[t]
    BY <1>1, <1>10 DEF WriteExploit
  <2> QED BY <1>1, <1>2, <2>1 DEF RowInv, Claims, Own
<1>11. CASE ReplaceEvidence(t) \/ Refuse(t)
  <2>1. UNCHANGED <<verdict, link>> /\ sniperPc'[t] \in {"done", "refuse"}
    BY <1>1, <1>11 DEF ReplaceEvidence, Refuse, Leave
  <2> QED BY <1>1, <1>2, <2>1 DEF RowInv, Claims, Own
<1> QED BY <1>3, <1>4, <1>5, <1>6, <1>7, <1>8, <1>9, <1>10, <1>11 DEF Attack

(* Who looks sees whoever claims: a claim is on a row that is in the table. *)
LEMMA ClaimIsSeen ==
  ASSUME NEW t \in Targets, NEW u \in Targets, NEW v \in Findings, Looked(t, v), Claims(u, v)
  PROVE  place[t] = place[u]
BY DEF Looked, Claims, Shared

LEMMA TargetOwn ==
  ASSUME OwnInv, TypeInv', NEW t \in Targets, StartTarget(t) \/ Attack(t)
  PROVE  OwnInv'
<1>1. /\ \A u \in Targets \ {t} : Same(u)
      /\ sniperRun' = sniperRun /\ place' = place /\ finding' = finding
  BY StepIsLocal DEF OwnInv
<1>2. sniperRun \notin {"idle", "findings", "rejected"}
  <2>1. CASE StartTarget(t)
    BY <2>1 DEF StartTarget
  <2>2. CASE Attack(t)
    <3>1. sniperPc[t] # "queued"
      BY <2>2 DEF Attack, LoadTarget, Seed, Verify, RecordAttempt, QueryFails, Lookup, Others, Mark,
                  Find, Confirm, Create, WriteExploit, ReplaceEvidence, Refuse
    <3> QED BY <3>1 DEF OwnInv, Idle
  <2> QED BY <2>1, <2>2
<1>3. \A u \in Targets : RowInv(u)'
  <2>1. ASSUME NEW u \in Targets \ {t} PROVE RowInv(u)'
    BY <1>1 DEF OwnInv, RowInv, Own, Same
  <2> QED BY <2>1, RowStep
<1>4. \A u \in Targets, v \in Findings : Claims(u, v)' => Claims(u, v) \/ (u = t /\ Looked(t, v))
  <2>1. ASSUME NEW u \in Targets \ {t}, NEW v \in Findings PROVE Claims(u, v)' => Claims(u, v)
    BY <1>1 DEF Claims, Same
  <2> QED BY <2>1, RowStep
<1>5. ASSUME NEW u \in Targets, NEW w \in Targets, NEW v \in Findings, Claims(u, v)', Claims(w, v)'
      PROVE  place[u] = place[w]
  <2>1. CASE Claims(u, v) /\ Claims(w, v)
    BY <2>1 DEF OwnInv
  <2>2. CASE Claims(u, v) /\ w = t /\ Looked(t, v)
    BY <2>2, ClaimIsSeen
  <2>3. CASE u = t /\ Looked(t, v) /\ Claims(w, v)
    BY <2>3, ClaimIsSeen
  <2> QED BY <1>4, <1>5, <2>1, <2>2, <2>3
<1>6. \A u, w \in Targets, v \in Findings : Claims(u, v)' /\ Claims(w, v)' => place'[u] = place'[w]
  BY <1>1, <1>5
<1> QED BY <1>1, <1>2, <1>3, <1>6 DEF OwnInv, Idle

LEMMA StepOwn == OwnInv /\ [SniperNext]_sniperVars => OwnInv'
<1> SUFFICES ASSUME OwnInv, [SniperNext]_sniperVars PROVE OwnInv'
  OBVIOUS
<1>1. TypeInv'
  BY StepTypes DEF OwnInv
<1>2. CASE UNCHANGED sniperVars
  BY <1>1, <1>2 DEF OwnInv, Idle, RowInv, Own, Claims, sniperVars, sniperRow
<1>3. CASE ValidateSandbox \/ ReportRun
  <2>1. UNCHANGED <<sniperPc, place, finding, outcome, verdict, link, pick>>
    BY <1>3 DEF ValidateSandbox, ReportRun, sniperRow
  <2>2. Idle'
    BY <1>3, <2>1 DEF ValidateSandbox, ReportRun, OwnInv, Idle
  <2> QED BY <1>1, <2>1, <2>2 DEF OwnInv, RowInv, Own, Claims
<1>4. CASE LoadFindings
  <2>1. /\ UNCHANGED <<sniperPc, place, outcome, verdict, link, pick>>
        /\ \A t \in Targets : sniperPc[t] = "queued" /\ verdict[t] = "none"
    BY <1>4 DEF LoadFindings, sniperRow, OwnInv, Idle
  <2> QED BY <1>1, <2>1 DEF OwnInv, Idle, RowInv, Claims
<1> QED BY <1>1, <1>2, <1>3, <1>4, TargetOwn DEF SniperNext

(* Two confirmed exploits at different endpoints have different            *)
(* vulnerabilities, however many targets run at once and however their     *)
(* queries and writes interleave (PrismaSniperRepository.saveExploit).     *)
THEOREM ConfirmedOwnTheirVulnerability == SniperSpec => []OwnVulnerability
BY StartOwn, StepOwn, OwnIsOwn, PTL DEF SniperSpec


-----------------------------------------------------------------------------
(* What a confirmation rests on.  A vulnerability is sealed before the row *)
(* that names it is written, and as long as no write was lost somebody     *)
(* stands behind every sealed one: it is about to write its row, or has    *)
(* written it and not announced it, or has done both and is finished.      *)
SealedAt(t) ==
  /\ sniperPc[t] \in {"others", "mark", "find", "confirm", "create"} => outcome[t].status = "CONFIRMED"
  /\ sniperPc[t] = "write" /\ outcome[t].status = "CONFIRMED" => pick[t] \in sealed
  /\ verdict[t] = "CONFIRMED" => link[t] \in sealed

Backs(t, v) ==
  \/ sniperPc[t] = "write" /\ outcome[t].status = "CONFIRMED" /\ pick[t] = v
  \/ /\ sniperPc[t] = "evidence" /\ outcome[t].status = "CONFIRMED"
     /\ verdict[t] = "CONFIRMED" /\ link[t] = v
  \/ sniperPc[t] = "done" /\ verdict[t] = "CONFIRMED" /\ link[t] = v /\ told[t] = "CONFIRMED"

AllDone == sniperRun = "over" => \A t \in Targets : sniperPc[t] = "done"

BackInv ==
  /\ TypeInv /\ AllDone
  /\ \A t \in Targets : SealedAt(t)
  /\ sniperFaults = 0 => \A v \in sealed : \E t \in Targets : Backs(t, v)

LEMMA BackedIsBacked == BackInv => ConfirmedIsBacked
<1> SUFFICES ASSUME BackInv PROVE ConfirmedIsBacked
  OBVIOUS
<1>1. \A t \in Targets : verdict[t] = "CONFIRMED" => link[t] \in sealed
  BY DEF BackInv, SealedAt
<1>2. ASSUME sniperRun = "over", sniperFaults = 0, NEW v \in sealed
      PROVE  \E t \in Targets : verdict[t] = "CONFIRMED" /\ link[t] = v /\ told[t] = "CONFIRMED"
  <2>1. PICK t \in Targets : Backs(t, v)
    BY <1>2 DEF BackInv
  <2>2. sniperPc[t] = "done"
    BY <1>2 DEF BackInv, AllDone
  <2> QED BY <2>1, <2>2 DEF Backs
<1> QED BY <1>1, <1>2 DEF ConfirmedIsBacked

LEMMA StartBack == SniperInit => BackInv
<1> SUFFICES ASSUME SniperInit PROVE BackInv
  OBVIOUS
<1>1. AllDone
  BY DEF SniperInit, AllDone
<1>2. \A t \in Targets : SealedAt(t)
  BY DEF SniperInit, SealedAt
<1>3. sealed = {}
  BY DEF SniperInit
<1> QED BY <1>1, <1>2, <1>3, StartTypes DEF BackInv

(* One target moves: what another stands behind it still stands behind, a  *)
(* sealed vulnerability stays sealed, and a lost write stays lost.         *)
LEMMA OthersBack ==
  ASSUME TypeInv, NEW t \in Targets, StartTarget(t) \/ Attack(t)
  PROVE  /\ sealed \subseteq sealed' /\ (sniperFaults' = 0 => sniperFaults = 0)
         /\ \A u \in Targets \ {t} : (SealedAt(u) => SealedAt(u)') /\ \A v : Backs(u, v) => Backs(u, v)'
<1> USE DEF To, sniperRow, TypeInv, SniperTypeOK
<1>1. sealed \subseteq sealed'
  BY DEF Attack, StartTarget, LoadTarget, Seed, Verify, RecordAttempt, QueryFails, Lookup, Others,
         Mark, Find, Confirm, Create, WriteExploit, ReplaceEvidence, Refuse
<1>2. sniperFaults' = sniperFaults \/ sniperFaults' = sniperFaults + 1
  BY DEF Attack, StartTarget, LoadTarget, Seed, Verify, RecordAttempt, QueryFails, Lookup, Others,
         Mark, Find, Confirm, Create, WriteExploit, ReplaceEvidence, Refuse, SniperFault
<1>3. \A u \in Targets \ {t} : told'[u] = told[u]
  BY DEF Attack, StartTarget, LoadTarget, Seed, Verify, RecordAttempt, QueryFails, Lookup, Others,
         Mark, Find, Confirm, Create, WriteExploit, ReplaceEvidence, Refuse
<1>4. \A u \in Targets \ {t} : Same(u)
  BY StepIsLocal
<1>5. sniperFaults \in Nat
  OBVIOUS
<1>6. sniperFaults' = 0 => sniperFaults = 0
  BY <1>2, <1>5
<1>7. ASSUME NEW u \in Targets \ {t} PROVE SealedAt(u) => SealedAt(u)'
  BY <1>1, <1>4, <1>7 DEF SealedAt, Same
<1>8. ASSUME NEW u \in Targets \ {t}, NEW v PROVE Backs(u, v) => Backs(u, v)'
  BY <1>3, <1>4, <1>8 DEF Backs, Same
<1> QED BY <1>1, <1>6, <1>7, <1>8

(* The target that moves: what it seals it stands behind, and with no      *)
(* write lost it gives up nothing it stood behind.                         *)
LEMMA BackStep ==
  ASSUME TypeInv, NEW t \in Targets, SealedAt(t), StartTarget(t) \/ Attack(t)
  PROVE  /\ SealedAt(t)'
         /\ \A v \in sealed' : v \in sealed \/ Backs(t, v)'
         /\ sniperFaults' = 0 => \A v : Backs(t, v) => Backs(t, v)'
<1> USE DEF To, sniperRow, TypeInv, SniperTypeOK
<1>0. sniperFaults \in Nat
  OBVIOUS
<1>f. SniperFault => sniperFaults' # 0
  BY <1>0 DEF SniperFault
<1>1. CASE StartTarget(t) \/ LoadTarget(t) \/ Verify(t) \/ RecordAttempt(t) \/ QueryFails(t) \/ Lookup(t)
  <2>1. /\ UNCHANGED <<verdict, link, sealed>>
        /\ sniperPc[t] \notin {"write", "evidence", "done"}
        /\ \/ sniperPc'[t] \in {"load", "seed", "unsupported", "refuse", "attempt", "record", "lookup"}
           \/ sniperPc'[t] = "write" /\ outcome'[t].status # "CONFIRMED"
           \/ sniperPc'[t] \in {"find", "others"} /\ outcome'[t].status = "CONFIRMED"
    BY <1>1 DEF StartTarget, LoadTarget, Verify, RecordAttempt, QueryFails, Lookup
  <2> QED BY <2>1 DEF SealedAt, Backs
<1>2. CASE Seed(t)
  <2>1. /\ sealed' = sealed /\ sniperPc[t] = "seed"
        /\ \/ sniperPc'[t] = "attempt" /\ verdict'[t] = "TESTING"
           \/ sniperPc'[t] = "refuse" /\ UNCHANGED <<verdict, link>>
    BY <1>2 DEF Seed
  <2> QED BY <2>1 DEF SealedAt, Backs
<1>3. CASE Others(t) \/ Find(t)
  <2>1. /\ UNCHANGED <<verdict, link, sealed, outcome>> /\ sniperPc[t] \in {"others", "find"}
        /\ sniperPc'[t] \in {"mark", "find", "confirm", "create"}
    BY <1>3 DEF Others, Find
  <2> QED BY <2>1 DEF SealedAt, Backs
<1>4. CASE Mark(t) \/ Confirm(t) \/ Create(t)
  <2>1. /\ UNCHANGED <<verdict, link, outcome>> /\ sniperPc[t] \in {"mark", "confirm", "create"}
        /\ \/ sniperPc'[t] \in {"find", "refuse"} /\ sealed' = sealed
           \/ sniperPc'[t] = "write" /\ sealed' = sealed \cup {pick'[t]}
    BY <1>4 DEF Mark, Confirm, Create
  <2>2. outcome[t].status = "CONFIRMED"
    BY <2>1 DEF SealedAt
  <2> QED BY <2>1, <2>2 DEF SealedAt, Backs
<1>5. CASE WriteExploit(t)
  <2>1. /\ UNCHANGED <<outcome, pick, sealed>> /\ sniperPc[t] = "write"
        /\ \/ sniperPc'[t] = "refuse" /\ UNCHANGED <<verdict, link>> /\ SniperFault
           \/ /\ sniperPc'[t] = "evidence" /\ verdict'[t] = outcome[t].status /\ link'[t] = pick[t]
    BY <1>5 DEF WriteExploit
  <2> QED BY <1>f, <2>1 DEF SealedAt, Backs
<1>6. CASE ReplaceEvidence(t)
  <2>1. /\ UNCHANGED <<verdict, link, sealed>> /\ sniperPc[t] = "evidence"
        /\ \/ sniperPc'[t] = "refuse" /\ SniperFault
           \/ sniperPc'[t] = "done" /\ told'[t] = Announced(outcome[t].status)
    BY <1>6 DEF ReplaceEvidence, Leave
  <2> QED BY <1>f, <2>1 DEF SealedAt, Backs, Announced
<1>7. CASE Refuse(t)
  <2>1. /\ UNCHANGED <<verdict, link, sealed>> /\ sniperPc[t] \in {"unsupported", "refuse"}
        /\ sniperPc'[t] = "done"
    BY <1>7 DEF Refuse, Leave
  <2> QED BY <2>1 DEF SealedAt, Backs
<1> QED BY <1>1, <1>2, <1>3, <1>4, <1>5, <1>6, <1>7 DEF Attack

LEMMA StepBack == BackInv /\ [SniperNext]_sniperVars => BackInv'
<1> SUFFICES ASSUME BackInv, [SniperNext]_sniperVars PROVE BackInv'
  OBVIOUS
<1>1. TypeInv'
  BY StepTypes DEF BackInv
<1>2. CASE UNCHANGED sniperVars
  BY <1>1, <1>2 DEF BackInv, AllDone, SealedAt, Backs, sniperVars, sniperRow
<1>3. CASE ValidateSandbox \/ LoadFindings \/ ReportRun
  <2>1. UNCHANGED <<sniperPc, outcome, verdict, link, pick, sealed, told, sniperFaults>>
    BY <1>3 DEF ValidateSandbox, LoadFindings, ReportRun, sniperRow
  <2>2. AllDone'
    BY <1>3, <2>1 DEF ValidateSandbox, LoadFindings, ReportRun, BackInv, AllDone
  <2> QED BY <1>1, <2>1, <2>2 DEF BackInv, SealedAt, Backs
<1>4. ASSUME NEW t \in Targets, StartTarget(t) \/ Attack(t) PROVE BackInv'
  <2>1. TypeInv /\ SealedAt(t)
    BY DEF BackInv
  <2>2. sniperPc[t] # "done"
    BY <1>4 DEF StartTarget, Attack, LoadTarget, Seed, Verify, RecordAttempt, QueryFails, Lookup,
                Others, Mark, Find, Confirm, Create, WriteExploit, ReplaceEvidence, Refuse
  <2>3. AllDone'
    BY <1>4, <2>1, <2>2, StepIsLocal DEF BackInv, AllDone
  <2>4. \A u \in Targets : SealedAt(u)'
    BY <1>4, <2>1, OthersBack, BackStep DEF BackInv
  <2>5. ASSUME sniperFaults' = 0, NEW v \in sealed' PROVE \E u \in Targets : Backs(u, v)'
    <3>1. CASE v \in sealed
      <4>1. PICK u \in Targets : Backs(u, v)
        BY <1>4, <2>1, <2>5, <3>1, OthersBack DEF BackInv
      <4> QED BY <1>4, <2>1, <2>5, <4>1, OthersBack, BackStep
    <3>2. CASE v \notin sealed
      BY <1>4, <2>1, <3>2, BackStep
    <3> QED BY <3>1, <3>2
  <2> QED BY <1>1, <2>3, <2>4, <2>5 DEF BackInv
<1> QED BY <1>2, <1>3, <1>4 DEF SniperNext

(* What the run confirmed it can show: the vulnerability of a confirmed    *)
(* row is CONFIRMED, and when the run is over and no write was lost every  *)
(* CONFIRMED vulnerability has a confirmed row the stream told of, however *)
(* the targets interleave (saveExploit, SniperTargetRunner.runTarget).     *)
THEOREM ConfirmationsAreBacked == SniperSpec => []ConfirmedIsBacked
BY StartBack, StepBack, BackedIsBacked, PTL DEF SniperSpec


-----------------------------------------------------------------------------
(* The verifiers.  What a check knows by what it does next: its plain      *)
(* request was answered, its payload was or was not seen, and while the    *)
(* application was up all through, what it heard is what the endpoint has. *)
HIDE SniperAssumption
USE VerifierAssumption

Seen == {"none", "200", "500"}
Planted(c) == \/ MethodOf[c] = "GET" /\ c \in Faulty \cup Echoes
              \/ PageOf[c] \in kept
              \/ "payload" \in PlainOf[PageOf[c]]

PlainAt(c) ==
  /\ before[c].code \in Seen
  /\ \A w \in before[c].shows : w = "payload" \/ w \in PlainOf[PageOf[c]]
  /\ at[c] = "probe" /\ steady[c] =>
       before[c].code = "200" \/ KindOf[c] \in {"SQL_INJECTION", "SECURITY_MISCONFIGURATION"}

StandsAt(c) ==
  /\ at[c] = "todo" => trials[c] < MaxTries
  /\ at[c] = "baseline" => KindOf[c] \notin {"none", "SQL_INJECTION", "SECURITY_MISCONFIGURATION"}
  /\ at[c] = "probe" => KindOf[c] # "none"
  /\ at[c] = "clean" =>
       /\ KindOf[c] = "XSS" /\ "payload" \notin heard[c].shows
       /\ steady[c] /\ MethodOf[c] = "GET" => c \notin Faulty \cup Echoes
       /\ steady[c] /\ MethodOf[c] = "POST" /\ PageOf[c] \in Keeping => PageOf[c] \in kept
  /\ at[c] = "front" =>
       /\ KindOf[c] = "XSS" /\ Planted(c)
       /\ steady[c] => ~(ComesBack(c) /\ InHtml(c))

CheckInv(c) == PlainAt(c) /\ StandsAt(c) /\ (at[c] = "done" => Fits(c))

AnswersOK ==
  /\ DOMAIN before = Checks /\ DOMAIN heard = Checks /\ DOMAIN found = Checks
  /\ \A c \in Checks : found[c].score \in 0..100

VerdictInv == VerifierTypeOK /\ AnswersOK /\ \A c \in probed : CheckInv(c)

(* What is heard is what is shown while the application is up, an error    *)
(* while it is starting, and nothing else.                                 *)
LEMMA Executed ==
  ASSUME VerifierTypeOK, NEW shows
  PROVE  /\ Execute(shows).code \in Seen
         /\ app = "up" => Execute(shows) = [code |-> "200", shows |-> shows]
         /\ app # "up" => Execute(shows).code # "200" /\ Execute(shows).shows = {}
         /\ Execute(shows) = Silence => app = "down"
         /\ Execute(shows).code = "none" => Execute(shows) = Silence
BY DEF VerifierTypeOK, Execute, Answer, Silence, Seen

LEMMA Scored ==
  ASSUME NEW n \in {0, 1, 2, 3}, NEW confirmed \in BOOLEAN, NEW matched \in BOOLEAN, NEW reached \in BOOLEAN,
         NEW correlation
  PROVE  /\ Score(confirmed, n, matched, reached, correlation) \in 0..100
         /\ ~confirmed /\ n = 0 /\ ~matched => Score(confirmed, n, matched, reached, correlation) < 50
         /\ confirmed /\ n \in {2, 3} /\ matched => Score(confirmed, n, matched, reached, correlation) > 50
BY DEF Score

LEMMA JudgedIs ==
  ASSUME NEW c \in Checks, NEW confirmed \in BOOLEAN, NEW n \in {2, 3}
  PROVE  /\ Judged(c, confirmed, n).score \in 0..100
         /\ confirmed => Judged(c, confirmed, n).status = "CONFIRMED" /\ Judged(c, confirmed, n).score > 50
         /\ ~confirmed => Judged(c, confirmed, n).status = "NOT_CONFIRMED" /\ Judged(c, confirmed, n).score < 50
<1> DEFINE yes == Score(TRUE, n, TRUE, TRUE, CorrelationOf[c])
           no == Score(FALSE, 0, FALSE, TRUE, CorrelationOf[c])
<1>1. yes \in 0..100 /\ yes > 50 /\ no \in 0..100 /\ no < 50
  BY Scored
<1>2. CASE confirmed = TRUE
  <2>1. Judged(c, confirmed, n) = [status |-> "CONFIRMED", retryable |-> FALSE, score |-> yes]
    BY <1>2 DEF Judged, Result
  <2> HIDE DEF yes, no
  <2> QED BY <1>1, <1>2, <2>1
<1>3. CASE confirmed = FALSE
  <2>1. Judged(c, confirmed, n) = [status |-> "NOT_CONFIRMED", retryable |-> FALSE, score |-> no]
    BY <1>3 DEF Judged, Result
  <2> HIDE DEF yes, no
  <2> QED BY <1>1, <1>3, <2>1
<1> QED BY <1>2, <1>3

(* A step of one check leaves what the others know alone, and a page does  *)
(* not lose what it keeps.                                                 *)
LEMMA CheckFrame ==
  ASSUME VerifierTypeOK, AnswersOK, NEW c \in probed, VerifierStep(c)
  PROVE  /\ probed' = probed /\ front' = front /\ app' = app /\ kept \subseteq kept'
         /\ \A d \in Checks \ {c} :
              /\ at'[d] = at[d] /\ before'[d] = before[d] /\ heard'[d] = heard[d]
              /\ steady'[d] = steady[d] /\ trials'[d] = trials[d] /\ found'[d] = found[d]
<1> USE DEF VerifierTypeOK, AnswersOK, Goes, Concludes, Noted
<1>1. CASE Begin(c)
  BY <1>1 DEF Begin
<1>2. CASE Baseline(c)
  BY <1>2 DEF Baseline
<1>3. CASE RunSqlMap(c)
  BY <1>3 DEF RunSqlMap
<1>4. CASE Probe(c)
  BY <1>4 DEF Probe
<1>5. CASE ProbeXss(c)
  BY <1>5 DEF ProbeXss, HearXss
<1>6. CASE ReadBack(c)
  BY <1>6 DEF ReadBack, HearXss
<1>7. CASE AskFront(c)
  BY <1>7 DEF AskFront
<1>8. CASE ExecuteThrows(c)
  BY <1>8 DEF ExecuteThrows
<1>9. CASE FrontThrows(c)
  BY <1>9 DEF FrontThrows
<1>10. CASE TryAgain(c)
  BY <1>10 DEF TryAgain
<1> QED BY <1>1, <1>2, <1>3, <1>4, <1>5, <1>6, <1>7, <1>8, <1>9, <1>10 DEF VerifierStep

LEMMA OthersStand ==
  ASSUME probed' = probed, front' = front, kept \subseteq kept', NEW d \in Checks, CheckInv(d),
         at'[d] = at[d], before'[d] = before[d], heard'[d] = heard[d],
         steady'[d] = steady[d], trials'[d] = trials[d], found'[d] = found[d]
  PROVE  CheckInv(d)'
<1>1. PlainAt(d)'
  BY DEF CheckInv, PlainAt
<1>2. Planted(d) => Planted(d)'
  BY DEF Planted
<1>3. StandsAt(d)'
  BY <1>2 DEF CheckInv, StandsAt, ComesBack, InHtml
<1>4. Real(d)' <=> Real(d)
  BY DEF Real, ComesBack, InHtml
<1>5. Mistaken(d) => Mistaken(d)'
  BY DEF Mistaken, Identity
<1>6. Overlooked(d)' <=> Overlooked(d)
  BY DEF Overlooked, Turned
<1>7. Fits(d) => Fits(d)'
  BY <1>4, <1>5, <1>6 DEF Fits
<1> QED BY <1>1, <1>3, <1>7 DEF CheckInv


LEMMA ConcludeTypes ==
  ASSUME VerifierTypeOK, AnswersOK, NEW c \in Checks, NEW v, Concludes(c, v),
         v.status \in Statuses, v.score \in 0..100
  PROVE  /\ at' \in [Checks -> Steps] /\ at'[c] = "done"
         /\ DOMAIN found' = Checks /\ found'[c] = v
         /\ \A d \in Checks : found'[d].status \in Statuses /\ found'[d].score \in 0..100
<1>1. /\ at' = [at EXCEPT ![c] = "done"] /\ found' = [found EXCEPT ![c] = v]
      /\ at \in [Checks -> Steps] /\ DOMAIN found = Checks
  BY DEF Concludes, VerifierTypeOK, AnswersOK
<1>2. at' \in [Checks -> Steps] /\ at'[c] = "done"
  BY <1>1 DEF Steps
<1>3. DOMAIN found' = Checks /\ found'[c] = v /\ \A d \in Checks \ {c} : found'[d] = found[d]
  BY <1>1
<1> QED BY <1>2, <1>3 DEF VerifierTypeOK, AnswersOK

LEMMA GoTypes ==
  ASSUME VerifierTypeOK, AnswersOK, NEW c \in Checks, NEW l \in Steps, Goes(c, l)
  PROVE  /\ at' \in [Checks -> Steps] /\ at'[c] = l
         /\ DOMAIN found' = Checks
         /\ \A d \in Checks : found'[d].status \in Statuses /\ found'[d].score \in 0..100
BY DEF Goes, VerifierTypeOK, AnswersOK

LEMMA NoteTypes ==
  ASSUME VerifierTypeOK, NEW c \in Checks, Noted(c)
  PROVE  steady' \in [Checks -> BOOLEAN] /\ (steady'[c] <=> steady[c] /\ app = "up")
<1>1. /\ steady \in [Checks -> BOOLEAN] /\ steady' = [steady EXCEPT ![c] = steady[c] /\ app = "up"]
  BY DEF Noted, VerifierTypeOK
<1>2. (steady[c] /\ app = "up") \in BOOLEAN
  OBVIOUS
<1> QED BY <1>1, <1>2, Zenon

LEMMA BeginStands ==
  ASSUME VerdictInv, NEW c \in probed, Begin(c)
  PROVE  VerifierTypeOK' /\ AnswersOK' /\ CheckInv(c)'
<1>0. VerifierTypeOK /\ AnswersOK /\ CheckInv(c) /\ c \in Checks
  BY DEF VerdictInv, VerifierTypeOK
<1>1. /\ trials[c] < MaxTries /\ trials' = [trials EXCEPT ![c] = @ + 1]
      /\ steady' = [steady EXCEPT ![c] = TRUE]
      /\ UNCHANGED <<probed, app, front, kept, before, heard, outages>>
  BY <1>0 DEF Begin, CheckInv, StandsAt
<1>2. trials' \in [Checks -> 0..MaxTries] /\ steady' \in [Checks -> BOOLEAN]
  BY <1>0, <1>1 DEF VerifierTypeOK
<1>3. PlainAt(c)'
  <2>1. at'[c] = "probe" => KindOf[c] \in {"SQL_INJECTION", "SECURITY_MISCONFIGURATION"}
    BY <1>0, GoTypes DEF Begin, Concludes, Goes, VerifierTypeOK
  <2> QED BY <1>0, <1>1, <2>1 DEF CheckInv, PlainAt
<1>4. CASE Concludes(c, Result("NOT_TESTED", FALSE, 0))
  <2> DEFINE v == Result("NOT_TESTED", FALSE, 0)
  <2>1. v.status = "NOT_TESTED" /\ v.score = 0 /\ Concludes(c, v)
    BY <1>4 DEF Result
  <2> HIDE DEF v
  <2>2. /\ at' \in [Checks -> Steps] /\ at'[c] = "done"
        /\ DOMAIN found' = Checks /\ found'[c] = v
        /\ \A d \in Checks : found'[d].status \in Statuses /\ found'[d].score \in 0..100
    BY <1>0, <2>1, ConcludeTypes DEF Statuses
  <2>3. CheckInv(c)'
    BY <1>3, <2>1, <2>2 DEF CheckInv, StandsAt, Fits
  <2> QED BY <1>0, <1>1, <1>2, <2>2, <2>3 DEF VerifierTypeOK, AnswersOK
<1>5. CASE ~Concludes(c, Result("NOT_TESTED", FALSE, 0))
  <2>1. PICK l \in {"probe", "baseline"} : 
          /\ Goes(c, l) /\ KindOf[c] # "none"
          /\ l = "baseline" => KindOf[c] \notin {"none", "SQL_INJECTION", "SECURITY_MISCONFIGURATION"}
    BY <1>5 DEF Begin
  <2>2. /\ at' \in [Checks -> Steps] /\ at'[c] = l
        /\ DOMAIN found' = Checks
        /\ \A d \in Checks : found'[d].status \in Statuses /\ found'[d].score \in 0..100
    BY <1>0, <2>1, GoTypes DEF Steps
  <2>3. CheckInv(c)'
    BY <1>3, <2>1, <2>2 DEF CheckInv, StandsAt
  <2> QED BY <1>0, <1>1, <1>2, <2>2, <2>3 DEF VerifierTypeOK, AnswersOK
<1> QED BY <1>4, <1>5

LEMMA BaselineStands ==
  ASSUME VerdictInv, NEW c \in probed, Baseline(c)
  PROVE  VerifierTypeOK' /\ AnswersOK' /\ CheckInv(c)'
<1>0. VerifierTypeOK /\ AnswersOK /\ CheckInv(c) /\ c \in Checks
  BY DEF VerdictInv, VerifierTypeOK
<1> DEFINE r == Execute(Usual(PageOf[c]))
<1>1. /\ before' = [before EXCEPT ![c] = r]
      /\ \/ r = Silence /\ Concludes(c, Result("INCONCLUSIVE", TRUE, 0))
         \/ r # Silence /\ Goes(c, "probe")
      /\ at[c] = "baseline" /\ Noted(c)
      /\ UNCHANGED <<probed, app, front, kept, heard, trials, outages>>
  BY DEF Baseline
<1>2. /\ r.code \in Seen
      /\ app = "up" => r.code = "200"
      /\ \A w \in r.shows : w = "payload" \/ w \in PlainOf[PageOf[c]]
      /\ r = Silence => app = "down"
  <2>1. app = "up" => r = [code |-> "200", shows |-> Usual(PageOf[c])]
    BY <1>0, Executed
  <2>2. app # "up" => r.shows = {}
    BY <1>0, Executed
  <2>3. r.code \in Seen /\ (r = Silence => app = "down")
    BY <1>0, Executed
  <2> HIDE DEF r
  <2> QED BY <2>1, <2>2, <2>3 DEF Usual
<1> HIDE DEF r
<1>3. /\ DOMAIN before' = Checks /\ before'[c] = r
      /\ \A d \in Checks : before'[d].code \in Codes
  BY <1>0, <1>1, <1>2 DEF AnswersOK, VerifierTypeOK, Seen, Codes
<1>4. steady' \in [Checks -> BOOLEAN] /\ (steady'[c] <=> steady[c] /\ app = "up")
  BY <1>0, <1>1, NoteTypes
<1>5. PlainAt(c)'
  BY <1>1, <1>2, <1>3, <1>4 DEF PlainAt
<1>6. CASE r = Silence /\ Concludes(c, Result("INCONCLUSIVE", TRUE, 0))
  <2> DEFINE v == Result("INCONCLUSIVE", TRUE, 0)
  <2>1. v.status = "INCONCLUSIVE" /\ v.score = 0 /\ Concludes(c, v)
    BY <1>6 DEF Result
  <2> HIDE DEF v
  <2>2. /\ at' \in [Checks -> Steps] /\ at'[c] = "done"
        /\ DOMAIN found' = Checks /\ found'[c] = v
        /\ \A d \in Checks : found'[d].status \in Statuses /\ found'[d].score \in 0..100
    BY <1>0, <2>1, ConcludeTypes DEF Statuses
  <2>3. ~steady'[c]
    BY <1>2, <1>4, <1>6
  <2>4. CheckInv(c)'
    BY <1>5, <2>1, <2>2, <2>3 DEF CheckInv, StandsAt, Fits
  <2> QED BY <1>0, <1>1, <1>3, <1>4, <2>2, <2>4 DEF VerifierTypeOK, AnswersOK
<1>7. CASE r # Silence /\ Goes(c, "probe")
  <2>1. /\ at' \in [Checks -> Steps] /\ at'[c] = "probe"
        /\ DOMAIN found' = Checks
        /\ \A d \in Checks : found'[d].status \in Statuses /\ found'[d].score \in 0..100
    BY <1>0, <1>7, GoTypes DEF Steps
  <2>2. CheckInv(c)'
    BY <1>0, <1>1, <1>5, <2>1 DEF CheckInv, StandsAt
  <2> QED BY <1>0, <1>1, <1>3, <1>4, <2>1, <2>2 DEF VerifierTypeOK, AnswersOK
<1> QED BY <1>1, <1>6, <1>7


LEMMA Kinds ==
  ASSUME NEW c \in Checks
  PROVE  KindOf[c] \in {"access", "SQL_INJECTION", "NOSQL_INJECTION", "XSS", "SSRF", "FILE_UPLOAD",
                        "SECURITY_MISCONFIGURATION", "none"}
BY DEF KindOf, VerifierFor

(* What sqlmap is taken to say, it printed.                                *)
LEMMA SqlSays ==
  ASSUME NEW c \in Checks, NEW text
  PROVE  /\ SqlOutcome(c, text).status \in Statuses /\ SqlOutcome(c, text).score \in 0..100
         /\ SqlOutcome(c, text).status = "CONFIRMED" => "injection" \in text
         /\ SqlOutcome(c, text).status = "NOT_CONFIRMED" => "ruled out" \in text
<1>1. \A w \in Parsed(text) : w \in text
  BY DEF Parsed
<1>2. /\ SqlVerdict(text)[1] \in Statuses
      /\ SqlVerdict(text)[1] = "CONFIRMED" => "injection" \in Parsed(text)
      /\ SqlVerdict(text)[1] = "NOT_CONFIRMED" => "ruled out" \in Parsed(text)
  BY DEF SqlVerdict, Statuses
<1>3. SqlOutcome(c, text).status = SqlVerdict(text)[1]
  BY DEF SqlOutcome, Result
<1>4. SqlOutcome(c, text).score \in 0..100
  <2> DEFINE yes == SqlVerdict(text)[1] = "CONFIRMED"
             n == Reproduced(text)
             data == "database" \in Parsed(text)
             there == Reached(Parsed(text))
  <2>1. n \in {0, 1, 2, 3}
    BY DEF Reproduced
  <2>2. yes \in BOOLEAN /\ data \in BOOLEAN /\ there \in BOOLEAN
    BY DEF Reached
  <2>3. SqlOutcome(c, text).score = Score(yes, n, data, there, CorrelationOf[c])
    BY DEF SqlOutcome, Result
  <2> HIDE DEF yes, n, data, there
  <2> QED BY <2>1, <2>2, <2>3, Scored
<1> QED BY <1>1, <1>2, <1>3, <1>4

LEMMA SqlMapStands ==
  ASSUME VerdictInv, NEW c \in probed, RunSqlMap(c)
  PROVE  VerifierTypeOK' /\ AnswersOK' /\ CheckInv(c)'
<1>0. VerifierTypeOK /\ AnswersOK /\ CheckInv(c) /\ c \in Checks
  BY DEF VerdictInv, VerifierTypeOK
<1>1. PICK text : /\ Concludes(c, SqlOutcome(c, text))
                  /\ "injection" \in text => c \in Faulty
                  /\ "ruled out" \in text => c \notin Faulty
  <2>1. CASE app = "up"
    BY <2>1 DEF RunSqlMap
  <2>2. CASE app # "up"
    BY <2>2 DEF RunSqlMap
  <2> QED BY <2>1, <2>2
<1> DEFINE v == SqlOutcome(c, text)
<1>2. /\ v.status \in Statuses /\ v.score \in 0..100 /\ Concludes(c, v)
      /\ v.status = "CONFIRMED" => c \in Faulty
      /\ v.status = "NOT_CONFIRMED" => c \notin Faulty
  BY <1>0, <1>1, SqlSays
<1> HIDE DEF v
<1>3. /\ KindOf[c] = "SQL_INJECTION" /\ Noted(c)
      /\ UNCHANGED <<probed, app, front, kept, before, heard, trials, outages>>
  BY DEF RunSqlMap
<1>4. /\ at' \in [Checks -> Steps] /\ at'[c] = "done"
      /\ DOMAIN found' = Checks /\ found'[c] = v
      /\ \A d \in Checks : found'[d].status \in Statuses /\ found'[d].score \in 0..100
  BY <1>0, <1>2, ConcludeTypes
<1>5. steady' \in [Checks -> BOOLEAN]
  BY <1>0, <1>3, NoteTypes
<1>6. CheckInv(c)'
  <2>1. Fits(c)'
    BY <1>2, <1>3, <1>4 DEF Fits, Real
  <2>2. PlainAt(c)' /\ StandsAt(c)'
    BY <1>0, <1>3, <1>4 DEF CheckInv, PlainAt, StandsAt
  <2> QED BY <2>1, <2>2 DEF CheckInv
<1> QED BY <1>0, <1>3, <1>4, <1>5, <1>6 DEF VerifierTypeOK, AnswersOK

(* What the probe of a verifier that judges by its answer hears, tells.    *)
LEMMA ProbeTells ==
  ASSUME VerdictInv, NEW c \in probed, at[c] = "probe", KindOf[c] \notin {"SQL_INJECTION", "XSS"}, NEW r,
         r = Execute(Usual(PageOf[c]) \cup Telling(c) \cup Turned(c))
  PROVE  /\ Confirms(c, r) \in BOOLEAN
         /\ Confirms(c, r) => Real(c) \/ Mistaken(c)
         /\ ~Confirms(c, r) /\ steady[c] /\ app = "up" => ~Real(c) \/ Overlooked(c)
<1>0. VerifierTypeOK /\ CheckInv(c) /\ c \in Checks
  BY DEF VerdictInv, VerifierTypeOK
<1>1. /\ r.code = "200" <=> app = "up"
      /\ app = "up" => r.shows = Usual(PageOf[c]) \cup Telling(c) \cup Turned(c)
      /\ app # "up" => r.shows = {}
  BY <1>0, Executed
<1>2. \A w : w \in Usual(PageOf[c]) <=> w \in PlainOf[PageOf[c]] \/ (w = "payload" /\ PageOf[c] \in kept)
  BY DEF Usual
<1>3. KindOf[c] \in {"access", "NOSQL_INJECTION", "SSRF", "FILE_UPLOAD", "SECURITY_MISCONFIGURATION"}
  BY <1>0, Kinds DEF CheckInv, StandsAt
<1>4. Real(c) <=> c \in Faulty
  BY DEF Real
<1>5. \A w \in Turned(c) : w = "refusal"
  BY DEF Turned
<1>6. CASE KindOf[c] = "access"
  <2>1. Confirms(c, r) <=> AccessConfirms(c, r)
    BY <1>6 DEF Confirms
  <2>2. \A w \in Telling(c) : w = "owner data"
    BY <1>6 DEF Telling
  <2>3. "owner data" \in Telling(c) <=> Identity(c, "other") = "owner" \/ c \in Faulty
    BY <1>6 DEF Telling
  <2>4. "owner data" \in Proof(KindOf[c])
    BY <1>6 DEF Proof
  <2>5. Confirms(c, r) => Real(c) \/ Mistaken(c)
    <3> SUFFICES ASSUME AccessConfirms(c, r) PROVE Real(c) \/ Mistaken(c)
      BY <2>1
    <3>1. "owner data" \in Usual(PageOf[c]) \cup Telling(c) \cup Turned(c)
      BY <1>1 DEF AccessConfirms
    <3>2. CASE "owner data" \in Telling(c)
      BY <1>4, <1>6, <2>3, <3>2 DEF Mistaken
    <3>3. CASE "owner data" \in PlainOf[PageOf[c]]
      BY <2>4, <3>3 DEF Mistaken
    <3>4. "owner data" \in Usual(PageOf[c]) => "owner data" \in PlainOf[PageOf[c]]
      BY DEF Usual
    <3>5. "owner data" \notin Turned(c)
      BY DEF Turned
    <3> QED BY <3>1, <3>2, <3>3, <3>4, <3>5
  <2>6. ASSUME ~AccessConfirms(c, r), steady[c], app = "up", Real(c) PROVE Overlooked(c)
    <3>1. before[c].code = "200"
      BY <1>0, <1>6, <2>6 DEF CheckInv, PlainAt
    <3>2. "owner data" \in r.shows /\ r.code = "200"
      BY <1>1, <1>4, <2>3, <2>6
    <3>3. CASE "refusal" \in r.shows
      BY <1>1, <1>2, <1>6, <2>2, <2>6, <3>3 DEF Overlooked
    <3>4. CASE "refusal" \notin r.shows
      BY <1>6, <2>6, <3>1, <3>2, <3>4 DEF AccessConfirms, Overlooked
    <3> QED BY <3>3, <3>4
  <2>7. Confirms(c, r) \in BOOLEAN
    BY <1>6 DEF Confirms, AccessConfirms
  <2> QED BY <2>1, <2>5, <2>6, <2>7
<1>7. CASE KindOf[c] # "access"
  <2>1. /\ \A w \in Telling(c) : w = KindOf[c]
        /\ KindOf[c] \in Telling(c) <=> c \in Faulty
    BY <1>3, <1>7 DEF Telling
  <2>2. KindOf[c] \in Proof(KindOf[c]) /\ "payload" \notin Proof(KindOf[c]) /\ "refusal" \notin Proof(KindOf[c])
    BY <1>3, <1>7 DEF Proof
  <2>3. Shows(r, KindOf[c]) => Real(c) \/ Mistaken(c)
    <3> SUFFICES ASSUME Shows(r, KindOf[c]) PROVE Real(c) \/ Mistaken(c)
      OBVIOUS
    <3>1. PICK w \in Proof(KindOf[c]) : w \in Usual(PageOf[c]) \cup Telling(c) \cup Turned(c)
      BY <1>1 DEF Shows
    <3>2. CASE w \in Telling(c)
      BY <1>4, <2>1, <3>2
    <3>3. CASE w \in PlainOf[PageOf[c]]
      BY <3>1, <3>3 DEF Mistaken
    <3> QED BY <1>2, <1>5, <2>2, <3>1, <3>2, <3>3
  <2>4. Real(c) /\ app = "up" => Shows(r, KindOf[c])
    BY <1>1, <1>4, <2>1, <2>2 DEF Shows
  <2>5. Shows(r, KindOf[c]) \in BOOLEAN
    BY DEF Shows
  <2>6. CASE KindOf[c] = "SSRF"
    <3>1. Confirms(c, r) <=> Shows(r, KindOf[c])
      BY <2>6 DEF Confirms, SsrfConfirms
    <3>2. Confirms(c, r) \in BOOLEAN
      BY <2>6 DEF Confirms, SsrfConfirms, Shows
    <3> QED BY <2>3, <2>4, <3>1, <3>2
  <2>7. CASE KindOf[c] \in {"FILE_UPLOAD", "SECURITY_MISCONFIGURATION"}
    <3>1. Confirms(c, r) <=> Shows(r, KindOf[c]) /\ "refusal" \notin r.shows
      BY <2>7 DEF Confirms, UploadConfirms, MisconfigConfirms
    <3>2. Confirms(c, r) \in BOOLEAN
      BY <2>7 DEF Confirms, UploadConfirms, MisconfigConfirms
    <3>3. app = "up" /\ "refusal" \in r.shows => Overlooked(c)
      BY <1>1, <1>2, <2>1, <2>7 DEF Overlooked
    <3> QED BY <2>3, <2>4, <3>1, <3>2, <3>3
  <2>8. CASE KindOf[c] = "NOSQL_INJECTION"
    <3>1. Confirms(c, r) <=> NoSqlConfirms(c, r)
      BY <2>8 DEF Confirms
    <3>2. Confirms(c, r) \in BOOLEAN
      BY <2>8 DEF Confirms, NoSqlConfirms
    <3>3. NoSqlConfirms(c, r) => Shows(r, KindOf[c]) \/ Mistaken(c)
      BY <1>0, <2>8 DEF NoSqlConfirms, Mistaken, CheckInv, PlainAt, Seen
    <3>4. Shows(r, KindOf[c]) => NoSqlConfirms(c, r)
      BY <2>8 DEF NoSqlConfirms, Shows
    <3> QED BY <2>3, <2>4, <3>1, <3>2, <3>3, <3>4
  <2> QED BY <1>3, <1>7, <2>6, <2>7, <2>8
<1> QED BY <1>6, <1>7


(* A verdict that fits: the check is done and nothing but its own verdict, *)
(* its answer and the steadiness of its attempt has changed.               *)
LEMMA DoneStands ==
  ASSUME VerifierTypeOK, AnswersOK, NEW c \in probed, CheckInv(c), NEW confirmed \in BOOLEAN, NEW n \in {2, 3},
         Concludes(c, Judged(c, confirmed, n)), KindOf[c] # "SQL_INJECTION",
         UNCHANGED <<probed, front, before>>, kept \subseteq kept',
         steady' \in [Checks -> BOOLEAN], steady'[c] => steady[c],
         confirmed => Real(c) \/ Mistaken(c),
         ~confirmed /\ steady'[c] => ~Real(c) \/ Overlooked(c)
  PROVE  /\ at' \in [Checks -> Steps] /\ DOMAIN found' = Checks
         /\ \A d \in Checks : found'[d].status \in Statuses /\ found'[d].score \in 0..100
         /\ CheckInv(c)'
<1>0. c \in Checks
  BY DEF VerifierTypeOK
<1> DEFINE v == Judged(c, confirmed, n)
<1>1. /\ v.score \in 0..100 /\ Concludes(c, v)
      /\ confirmed => v.status = "CONFIRMED" /\ v.score > 50
      /\ ~confirmed => v.status = "NOT_CONFIRMED" /\ v.score < 50
  BY <1>0, JudgedIs
<1>2. v.status \in Statuses
  BY <1>1 DEF Statuses
<1> HIDE DEF v
<1>3. /\ at' \in [Checks -> Steps] /\ at'[c] = "done"
      /\ DOMAIN found' = Checks /\ found'[c] = v
      /\ \A d \in Checks : found'[d].status \in Statuses /\ found'[d].score \in 0..100
  BY <1>0, <1>1, <1>2, ConcludeTypes
<1>4. (Real(c)' <=> Real(c)) /\ (Overlooked(c)' <=> Overlooked(c)) /\ (Mistaken(c) => Mistaken(c)')
  <2>1. Real(c)' <=> Real(c)
    BY DEF Real, ComesBack, InHtml
  <2>2. Overlooked(c)' <=> Overlooked(c)
    BY DEF Overlooked, Turned
  <2>3. Mistaken(c) => Mistaken(c)'
    BY DEF Mistaken, Identity
  <2> QED BY <2>1, <2>2, <2>3
<1>5. v.score > 50 <=> v.status = "CONFIRMED"
  <2>1. CASE confirmed
    BY <1>1, <2>1
  <2>2. CASE ~confirmed
    <3>1. v.score \in Nat /\ ~(v.score > 50)
      BY <1>1, <2>2
    <3> QED BY <1>1, <2>2, <3>1
  <2> QED BY <2>1, <2>2
<1>6. Fits(c)'
  <2>1. CASE confirmed
    BY <1>1, <1>3, <1>4, <1>5, <2>1 DEF Fits
  <2>2. CASE ~confirmed
    BY <1>1, <1>3, <1>4, <1>5, <2>2 DEF Fits
  <2> QED BY <2>1, <2>2
<1>7. PlainAt(c)' /\ StandsAt(c)'
  BY <1>3 DEF CheckInv, PlainAt, StandsAt
<1> QED BY <1>3, <1>6, <1>7 DEF CheckInv

(* What it heard is an answer.                                             *)
LEMMA HeardTypes ==
  ASSUME VerifierTypeOK, AnswersOK, NEW c \in Checks, NEW r, r.code \in Codes, heard' = [heard EXCEPT ![c] = r]
  PROVE  DOMAIN heard' = Checks /\ heard'[c] = r /\ \A d \in Checks : heard'[d].code \in Codes
BY DEF VerifierTypeOK, AnswersOK

LEMMA ProbeStands ==
  ASSUME VerdictInv, NEW c \in probed, Probe(c)
  PROVE  VerifierTypeOK' /\ AnswersOK' /\ CheckInv(c)'
<1>0. VerifierTypeOK /\ AnswersOK /\ CheckInv(c) /\ c \in Checks
  BY DEF VerdictInv, VerifierTypeOK
<1>1. PICK r : /\ r = Execute(Usual(PageOf[c]) \cup Telling(c) \cup Turned(c))
               /\ heard' = [heard EXCEPT ![c] = r]
               /\ Concludes(c, Judged(c, Confirms(c, r), Techniques(c)))
  BY DEF Probe
<1>2. /\ at[c] = "probe" /\ KindOf[c] \notin {"SQL_INJECTION", "XSS"} /\ Noted(c)
      /\ UNCHANGED <<probed, app, front, kept, before, trials, outages>>
  BY DEF Probe
<1>3. r.code \in Codes
  BY <1>0, <1>1, Executed DEF Seen, Codes
<1>4. DOMAIN heard' = Checks /\ \A d \in Checks : heard'[d].code \in Codes
  BY <1>0, <1>1, <1>3, HeardTypes
<1>5. steady' \in [Checks -> BOOLEAN] /\ (steady'[c] <=> steady[c] /\ app = "up")
  BY <1>0, <1>2, NoteTypes
<1> DEFINE yes == Confirms(c, r)
           n == Techniques(c)
<1>6. /\ yes \in BOOLEAN /\ (yes => Real(c) \/ Mistaken(c))
      /\ ~yes /\ steady[c] /\ app = "up" => ~Real(c) \/ Overlooked(c)
  BY <1>1, <1>2, ProbeTells
<1>7. n \in {2, 3} /\ Concludes(c, Judged(c, yes, n))
  BY <1>1 DEF Techniques
<1> HIDE DEF yes, n
<1>8. /\ at' \in [Checks -> Steps] /\ DOMAIN found' = Checks
      /\ \A d \in Checks : found'[d].status \in Statuses /\ found'[d].score \in 0..100
      /\ CheckInv(c)'
  BY <1>0, <1>2, <1>5, <1>6, <1>7, DoneStands
<1> QED BY <1>0, <1>2, <1>4, <1>5, <1>8 DEF VerifierTypeOK, AnswersOK


(* What the XSS verifier does with an answer, if the answer tells what the *)
(* endpoint does with a payload.                                           *)
LEMMA HearStands ==
  ASSUME VerifierTypeOK, AnswersOK, NEW c \in probed, CheckInv(c), KindOf[c] = "XSS",
         NEW r, r.code \in Codes, NEW next \in {"clean", "judge"}, HearXss(c, r, next),
         UNCHANGED <<probed, app, front, before, trials, outages>>, kept \subseteq kept', kept' \subseteq Keeping,
         steady' \in [Checks -> BOOLEAN], steady'[c] => steady[c],
         "payload" \in r.shows => Planted(c),
         "payload" \in r.shows /\ Html(r) => Real(c) \/ Mistaken(c),
         "payload" \in r.shows /\ ~Html(r) /\ steady'[c] => ~(ComesBack(c) /\ InHtml(c)),
         "payload" \notin r.shows /\ next = "clean" /\ steady'[c] =>
           /\ MethodOf[c] = "GET" => c \notin Faulty \cup Echoes
           /\ MethodOf[c] = "POST" /\ PageOf[c] \in Keeping => PageOf[c] \in kept',
         "payload" \notin r.shows /\ next = "judge" /\ steady'[c] => ~Real(c)
  PROVE  VerifierTypeOK' /\ AnswersOK' /\ CheckInv(c)'
<1>0. c \in Checks
  BY DEF VerifierTypeOK
<1>1. /\ DOMAIN heard' = Checks /\ heard'[c] = r
      /\ \A d \in Checks : heard'[d].code \in Codes
  BY <1>0, HeardTypes DEF HearXss
<1>2. CASE "payload" \notin r.shows /\ next = "clean"
  <2>1. Goes(c, "clean")
    BY <1>2 DEF HearXss
  <2>2. /\ at' \in [Checks -> Steps] /\ at'[c] = "clean"
        /\ DOMAIN found' = Checks
        /\ \A d \in Checks : found'[d].status \in Statuses /\ found'[d].score \in 0..100
    BY <1>0, <2>1, GoTypes DEF Steps
  <2>3. CheckInv(c)'
    BY <1>1, <1>2, <2>2 DEF CheckInv, PlainAt, StandsAt
  <2> QED BY <1>1, <2>2, <2>3 DEF VerifierTypeOK, AnswersOK
<1>3. CASE "payload" \in r.shows /\ ~Html(r)
  <2>1. Goes(c, "front")
    BY <1>3 DEF HearXss
  <2>2. /\ at' \in [Checks -> Steps] /\ at'[c] = "front"
        /\ DOMAIN found' = Checks
        /\ \A d \in Checks : found'[d].status \in Statuses /\ found'[d].score \in 0..100
    BY <1>0, <2>1, GoTypes DEF Steps
  <2>3. Planted(c)' /\ (ComesBack(c)' <=> ComesBack(c)) /\ (InHtml(c)' <=> InHtml(c))
    BY <1>3 DEF Planted, ComesBack, InHtml
  <2>4. CheckInv(c)'
    BY <1>3, <2>2, <2>3 DEF CheckInv, PlainAt, StandsAt
  <2> QED BY <1>1, <2>2, <2>4 DEF VerifierTypeOK, AnswersOK
<1>4. CASE ~("payload" \notin r.shows /\ next = "clean") /\ ~("payload" \in r.shows /\ ~Html(r))
  <2> DEFINE yes == Html(r) /\ "payload" \in r.shows
  <2>1. Concludes(c, Judged(c, yes, 2))
    BY <1>4 DEF HearXss
  <2>2. yes \in BOOLEAN /\ (yes => Real(c) \/ Mistaken(c)) /\ (~yes /\ steady'[c] => ~Real(c) \/ Overlooked(c))
    BY <1>4
  <2> HIDE DEF yes
  <2>3. /\ at' \in [Checks -> Steps] /\ DOMAIN found' = Checks
        /\ \A d \in Checks : found'[d].status \in Statuses /\ found'[d].score \in 0..100
        /\ CheckInv(c)'
    BY <2>1, <2>2, DoneStands
  <2> QED BY <1>1, <2>3 DEF VerifierTypeOK, AnswersOK
<1> QED BY <1>2, <1>3, <1>4

LEMMA ProbeXssStands ==
  ASSUME VerdictInv, NEW c \in probed, ProbeXss(c)
  PROVE  VerifierTypeOK' /\ AnswersOK' /\ CheckInv(c)'
<1>0. VerifierTypeOK /\ AnswersOK /\ CheckInv(c) /\ c \in Checks
  BY DEF VerdictInv, VerifierTypeOK
<1> DEFINE own == IF c \in Echoes THEN {} ELSE PlainOf[PageOf[c]]
           stored == IF MethodOf[c] = "GET" /\ PageOf[c] \in kept THEN {"payload"} ELSE {}
           shows == own \cup Telling(c) \cup stored
           r == Execute(shows)
<1>1. /\ KindOf[c] = "XSS" /\ Noted(c) /\ HearXss(c, r, "clean")
      /\ UNCHANGED <<probed, app, front, before, trials, outages>>
  BY DEF ProbeXss
<1>2. /\ kept \subseteq kept' /\ kept' \subseteq Keeping
      /\ app = "up" /\ MethodOf[c] = "POST" /\ PageOf[c] \in Keeping => PageOf[c] \in kept'
  BY <1>0 DEF ProbeXss, VerifierTypeOK
<1>3. /\ r.code \in Codes /\ (app = "up" => r.shows = shows) /\ (app # "up" => r.shows = {})
  BY <1>0, Executed DEF Seen, Codes
<1>4. /\ "payload" \in shows <=> \/ "payload" \in PlainOf[PageOf[c]] /\ c \notin Echoes
                                 \/ MethodOf[c] = "GET" /\ c \in Faulty \cup Echoes
                                 \/ MethodOf[c] = "GET" /\ PageOf[c] \in kept
      /\ "html" \in shows <=> "html" \in PlainOf[PageOf[c]] /\ c \notin Echoes
  BY <1>1 DEF Telling
<1> HIDE DEF r, shows
<1>5. steady' \in [Checks -> BOOLEAN] /\ (steady'[c] <=> steady[c] /\ app = "up")
  BY <1>0, <1>1, NoteTypes
<1>6. "payload" \in r.shows => Planted(c)
  BY <1>3, <1>4 DEF Planted
<1>7. ASSUME "payload" \in r.shows, Html(r) PROVE Real(c) \/ Mistaken(c)
  <2>1. "html" \in PlainOf[PageOf[c]] /\ c \notin Echoes
    BY <1>3, <1>4, <1>7 DEF Html
  <2>2. CASE MethodOf[c] = "GET" /\ c \in Faulty \cup Echoes
    BY <1>1, <2>1, <2>2 DEF Real, ComesBack, InHtml
  <2>3. CASE PageOf[c] \in kept
    BY <1>1, <2>3 DEF Mistaken
  <2>4. CASE "payload" \in PlainOf[PageOf[c]]
    <3>1. "payload" \in Proof(KindOf[c])
      BY <1>1 DEF Proof
    <3> QED BY <2>4, <3>1 DEF Mistaken
  <2> QED BY <1>6, <1>7, <2>2, <2>3, <2>4 DEF Planted
<1>8. ASSUME "payload" \in r.shows, ~Html(r), ComesBack(c), InHtml(c) PROVE FALSE
  <2>1. c \in Echoes /\ MethodOf[c] # "GET"
    BY <1>3, <1>4, <1>8 DEF Html, InHtml
  <2> QED BY <1>3, <1>4, <1>8, <2>1
<1>9. "payload" \notin r.shows /\ steady'[c] =>
        /\ MethodOf[c] = "GET" => c \notin Faulty \cup Echoes
        /\ MethodOf[c] = "POST" /\ PageOf[c] \in Keeping => PageOf[c] \in kept'
  BY <1>2, <1>3, <1>4, <1>5
<1> QED BY <1>0, <1>1, <1>2, <1>3, <1>5, <1>6, <1>7, <1>8, <1>9, HearStands

LEMMA ReadBackStands ==
  ASSUME VerdictInv, NEW c \in probed, ReadBack(c)
  PROVE  VerifierTypeOK' /\ AnswersOK' /\ CheckInv(c)'
<1>0. VerifierTypeOK /\ AnswersOK /\ CheckInv(c) /\ c \in Checks
  BY DEF VerdictInv, VerifierTypeOK
<1> DEFINE page == Execute(Usual(PageOf[c]))
           r == IF "payload" \in page.shows THEN page ELSE heard[c]
<1>1. /\ at[c] = "clean" /\ Noted(c) /\ HearXss(c, r, "judge")
      /\ UNCHANGED <<probed, app, front, kept, before, trials, outages>>
  BY DEF ReadBack
<1>2. /\ KindOf[c] = "XSS" /\ "payload" \notin heard[c].shows
      /\ steady[c] /\ MethodOf[c] = "GET" => c \notin Faulty \cup Echoes
      /\ steady[c] /\ MethodOf[c] = "POST" /\ PageOf[c] \in Keeping => PageOf[c] \in kept
  BY <1>0, <1>1 DEF CheckInv, StandsAt
<1>3. /\ page.code \in Codes /\ (app = "up" => page.shows = Usual(PageOf[c])) /\ (app # "up" => page.shows = {})
  BY <1>0, Executed DEF Seen, Codes
<1>4. /\ "payload" \in Usual(PageOf[c]) <=> "payload" \in PlainOf[PageOf[c]] \/ PageOf[c] \in kept
      /\ "html" \in Usual(PageOf[c]) <=> "html" \in PlainOf[PageOf[c]]
  BY DEF Usual
<1> HIDE DEF page
<1>5. steady' \in [Checks -> BOOLEAN] /\ (steady'[c] <=> steady[c] /\ app = "up")
  BY <1>0, <1>1, NoteTypes
<1>6. r.code \in Codes /\ ("payload" \in r.shows => r = page /\ app = "up")
  BY <1>0, <1>2, <1>3 DEF VerifierTypeOK
<1>7. ("payload" \in r.shows) <=> ("payload" \in page.shows)
  BY <1>2
<1> HIDE DEF r
<1>8. "payload" \in r.shows => Planted(c) /\ Mistaken(c)
  <2>1. "payload" \in Proof(KindOf[c])
    BY <1>2 DEF Proof
  <2> QED BY <1>2, <1>3, <1>4, <1>6, <2>1 DEF Planted, Mistaken
<1>9. "payload" \in r.shows /\ ~Html(r) => ~InHtml(c)
  BY <1>3, <1>4, <1>6 DEF Html, InHtml
<1>10. ASSUME "payload" \notin r.shows, steady'[c] PROVE ~Real(c)
  <2>1. steady[c] /\ PageOf[c] \notin kept
    BY <1>3, <1>4, <1>5, <1>7, <1>10
  <2> QED BY <1>2, <2>1 DEF Real, ComesBack
<1>11. kept \subseteq kept' /\ kept' \subseteq Keeping
  BY <1>0, <1>1 DEF VerifierTypeOK
<1> QED BY <1>0, <1>1, <1>2, <1>5, <1>6, <1>8, <1>9, <1>10, <1>11, HearStands

LEMMA AskFrontStands ==
  ASSUME VerdictInv, NEW c \in probed, AskFront(c)
  PROVE  VerifierTypeOK' /\ AnswersOK' /\ CheckInv(c)'
<1>0. VerifierTypeOK /\ AnswersOK /\ CheckInv(c) /\ c \in Checks
  BY DEF VerdictInv, VerifierTypeOK
<1> DEFINE yes == app = "up" /\ front
<1>1. /\ at[c] = "front" /\ Noted(c) /\ Concludes(c, Judged(c, yes, 2))
      /\ UNCHANGED <<probed, app, front, kept, before, heard, trials, outages>>
  BY DEF AskFront
<1>2. /\ KindOf[c] = "XSS" /\ Planted(c)
      /\ steady[c] => ~(ComesBack(c) /\ InHtml(c))
  BY <1>0, <1>1 DEF CheckInv, StandsAt
<1>3. steady' \in [Checks -> BOOLEAN] /\ (steady'[c] <=> steady[c] /\ app = "up")
  BY <1>0, <1>1, NoteTypes
<1>4. yes => Real(c) \/ Mistaken(c)
  <2>1. "payload" \in Proof(KindOf[c])
    BY <1>2 DEF Proof
  <2> QED BY <1>2, <2>1 DEF Planted, Real, Mistaken, ComesBack
<1>5. ~yes /\ steady'[c] => ~Real(c)
  BY <1>2, <1>3 DEF Real
<1>6. yes \in BOOLEAN
  OBVIOUS
<1> HIDE DEF yes
<1>7. /\ at' \in [Checks -> Steps] /\ DOMAIN found' = Checks
      /\ \A d \in Checks : found'[d].status \in Statuses /\ found'[d].score \in 0..100
      /\ CheckInv(c)'
  BY <1>0, <1>1, <1>2, <1>3, <1>4, <1>5, <1>6, DoneStands
<1> QED BY <1>0, <1>1, <1>3, <1>7 DEF VerifierTypeOK, AnswersOK


LEMMA TroubleStands ==
  ASSUME VerdictInv, NEW c \in probed, ExecuteThrows(c) \/ FrontThrows(c) \/ TryAgain(c)
  PROVE  VerifierTypeOK' /\ AnswersOK' /\ CheckInv(c)'
<1>0. VerifierTypeOK /\ AnswersOK /\ CheckInv(c) /\ c \in Checks
  BY DEF VerdictInv, VerifierTypeOK
<1>1. ASSUME ExecuteThrows(c) \/ FrontThrows(c)
      PROVE  /\ outages' \in 0..MaxOutages /\ steady' \in [Checks -> BOOLEAN] /\ ~steady'[c]
             /\ UNCHANGED <<probed, app, front, kept, before, heard, trials>>
  <2>1. /\ outages < MaxOutages /\ outages' = outages + 1 /\ steady' = [steady EXCEPT ![c] = FALSE]
        /\ UNCHANGED <<probed, app, front, kept, before, heard, trials>>
    BY <1>1 DEF ExecuteThrows, FrontThrows
  <2> QED BY <1>0, <2>1 DEF VerifierTypeOK
<1>2. CASE ExecuteThrows(c)
  <2> DEFINE v == Result("FAILED", TRUE, 0)
  <2>1. v.status = "FAILED" /\ v.score = 0 /\ Concludes(c, v)
    BY <1>2 DEF Result, ExecuteThrows
  <2> HIDE DEF v
  <2>2. /\ at' \in [Checks -> Steps] /\ at'[c] = "done"
        /\ DOMAIN found' = Checks /\ found'[c] = v
        /\ \A d \in Checks : found'[d].status \in Statuses /\ found'[d].score \in 0..100
    BY <1>0, <2>1, ConcludeTypes DEF Statuses
  <2>3. CheckInv(c)'
    <3>1. Fits(c)'
      BY <1>1, <1>2, <2>1, <2>2 DEF Fits
    <3>2. PlainAt(c)' /\ StandsAt(c)'
      BY <1>0, <1>1, <1>2, <2>2 DEF CheckInv, PlainAt, StandsAt
    <3> QED BY <3>1, <3>2 DEF CheckInv
  <2> QED BY <1>0, <1>1, <1>2, <2>2, <2>3 DEF VerifierTypeOK, AnswersOK
<1>3. CASE FrontThrows(c)
  <2>1. Concludes(c, Judged(c, FALSE, 2)) /\ at[c] = "front"
    BY <1>3 DEF FrontThrows
  <2>2. KindOf[c] # "SQL_INJECTION"
    BY <1>0, <2>1 DEF CheckInv, StandsAt
  <2> DEFINE no == FALSE
  <2>3. no \in BOOLEAN /\ ~no /\ Concludes(c, Judged(c, no, 2))
    BY <2>1
  <2> HIDE DEF no
  <2>4. /\ at' \in [Checks -> Steps] /\ DOMAIN found' = Checks
        /\ \A d \in Checks : found'[d].status \in Statuses /\ found'[d].score \in 0..100
        /\ CheckInv(c)'
    BY <1>0, <1>1, <1>3, <2>2, <2>3, DoneStands
  <2> QED BY <1>0, <1>1, <1>3, <2>4 DEF VerifierTypeOK, AnswersOK
<1>4. CASE TryAgain(c)
  <2>1. /\ trials[c] < MaxTries /\ Goes(c, "todo")
        /\ UNCHANGED <<probed, app, front, kept, before, heard, steady, trials, outages>>
    BY <1>4 DEF TryAgain
  <2>2. /\ at' \in [Checks -> Steps] /\ at'[c] = "todo"
        /\ DOMAIN found' = Checks
        /\ \A d \in Checks : found'[d].status \in Statuses /\ found'[d].score \in 0..100
    BY <1>0, <2>1, GoTypes DEF Steps
  <2>3. CheckInv(c)'
    BY <1>0, <2>1, <2>2 DEF CheckInv, PlainAt, StandsAt
  <2> QED BY <1>0, <2>1, <2>2, <2>3 DEF VerifierTypeOK, AnswersOK
<1> QED BY <1>2, <1>3, <1>4

(* The run starts with every check still to begin.                         *)
LEMMA StartVerdicts == VerifierInit => VerdictInv
<1> SUFFICES ASSUME VerifierInit PROVE VerdictInv
  OBVIOUS
<1>1. /\ probed \subseteq Checks /\ app = "up" /\ front \in BOOLEAN /\ kept = {} /\ outages = 0
      /\ at = [c \in Checks |-> IF c \in probed THEN "todo" ELSE "idle"]
      /\ before = [c \in Checks |-> Silence] /\ heard = [c \in Checks |-> Silence]
      /\ steady = [c \in Checks |-> TRUE] /\ trials = [c \in Checks |-> 0]
      /\ found = [c \in Checks |-> Unjudged]
  BY DEF VerifierInit
<1>2. Silence.code = "none" /\ Silence.shows = {} /\ Unjudged.status = "FAILED" /\ Unjudged.score = 0
  BY DEF Silence, Answer, Unjudged, Result
<1> HIDE DEF Silence, Unjudged
<1>3. VerifierTypeOK /\ AnswersOK
  BY <1>1, <1>2 DEF VerifierTypeOK, AnswersOK, Steps, Codes, Statuses
<1>4. ASSUME NEW c \in probed PROVE CheckInv(c)
  <2>1. at[c] = "todo" /\ before[c] = Silence /\ trials[c] = 0
    BY <1>1, <1>4
  <2> QED BY <1>2, <2>1 DEF CheckInv, PlainAt, StandsAt, Seen
<1> QED BY <1>3, <1>4 DEF VerdictInv

LEMMA StepVerdicts == VerdictInv /\ [VerifierNext]_verifierVars => VerdictInv'
<1> SUFFICES ASSUME VerdictInv, [VerifierNext]_verifierVars PROVE VerdictInv'
  OBVIOUS
<1>0. VerifierTypeOK /\ AnswersOK /\ \A c \in probed : c \in Checks /\ CheckInv(c)
  BY DEF VerdictInv, VerifierTypeOK
<1>1. CASE AppTurns
  <2>1. /\ app' \in {"up", "starting", "down"} /\ outages' \in 0..MaxOutages
        /\ UNCHANGED <<probed, front, kept, at, before, heard, steady, trials, found>>
    BY <1>0, <1>1 DEF AppTurns, VerifierTypeOK
  <2>2. \A c \in probed' : CheckInv(c)'
    BY <1>0, <2>1, OthersStand
  <2> QED BY <1>0, <2>1, <2>2 DEF VerdictInv, VerifierTypeOK, AnswersOK
<1>2. CASE \E c \in probed : VerifierStep(c)
  <2>1. PICK c \in probed : VerifierStep(c)
    BY <1>2
  <2>2. VerifierTypeOK' /\ AnswersOK' /\ CheckInv(c)'
    BY <2>1, BeginStands, BaselineStands, SqlMapStands, ProbeStands, ProbeXssStands, ReadBackStands,
       AskFrontStands, TroubleStands DEF VerifierStep
  <2>3. /\ probed' = probed /\ front' = front /\ kept \subseteq kept'
        /\ \A d \in Checks \ {c} :
             /\ at'[d] = at[d] /\ before'[d] = before[d] /\ heard'[d] = heard[d]
             /\ steady'[d] = steady[d] /\ trials'[d] = trials[d] /\ found'[d] = found[d]
    BY <1>0, <2>1, CheckFrame
  <2>4. ASSUME NEW d \in probed, d # c PROVE CheckInv(d)'
    BY <1>0, <2>3, <2>4, OthersStand
  <2> QED BY <2>2, <2>3, <2>4 DEF VerdictInv
<1>3. CASE UNCHANGED verifierVars
  <2>1. UNCHANGED <<probed, app, front, kept, at, before, heard, steady, trials, found, outages>>
    BY <1>3 DEF verifierVars
  <2>2. \A c \in probed' : CheckInv(c)'
    BY <1>0, <2>1, OthersStand
  <2> QED BY <1>0, <2>1, <2>2 DEF VerdictInv, VerifierTypeOK, AnswersOK
<1> QED BY <1>1, <1>2, <1>3 DEF VerifierNext

(* Every variable of the run of checks keeps its type, whatever the         *)
(* application does and however the checks interleave: attempts stay under  *)
(* their bound and a kept page is one of the application's.                 *)
THEOREM VerifierTypes == VerifierSpec => []VerifierTypeOK
<1>1. VerdictInv => VerifierTypeOK
  BY DEF VerdictInv
<1> QED BY <1>1, StartVerdicts, StepVerdicts, PTL DEF VerifierSpec

(* A verdict fits the endpoint it is about: whatever the application is,   *)
(* however often it goes and comes back, and however the checks that share *)
(* it interleave, a confirmation is real or mistaken in a known way, and a *)
(* fault that was tested on an application that stayed up is confirmed or  *)
(* overlooked in a known way (the verifiers and AttemptLoop.run).          *)
THEOREM VerdictsAreFitting == VerifierSpec => []VerdictsFit
<1>1. VerdictInv => VerdictsFit
  BY DEF VerdictInv, VerdictsFit, CheckInv
<1> QED BY <1>1, StartVerdicts, StepVerdicts, PTL DEF VerifierSpec
=============================================================================
