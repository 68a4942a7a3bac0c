------------------------------- MODULE SniperRun -------------------------------
(***************************************************************************)
(* One run of the Sniper over the planned targets of a scan:               *)
(* DefaultSniperService around the bounded executor around                 *)
(* SniperTargetRunner, its attempt loop and PrismaSniperRepository.        *)
(* Several targets are under way at once; a step is the code between two   *)
(* awaits, so the queries and writes of two targets interleave.            *)
(***************************************************************************)
EXTENDS Naturals, FiniteSets

CONSTANTS Targets,         \* planned targets the run was asked for
          Findings,        \* vulnerabilities the scanners found
          Places,          \* endpoints of the application, with a type of fault
          Nothing,         \* no vulnerability
          Concurrency,     \* SNIPER_CONCURRENCY
          MaxAttempts,     \* SNIPER_MAX_ATTEMPTS
          MaxSniperFaults  \* bound on failing writes

ASSUME SniperAssumption ==
  /\ Targets \cap Findings = {} /\ Nothing \notin Targets \cup Findings
  /\ Concurrency \in Nat \ {0} /\ MaxAttempts \in Nat \ {0} /\ MaxSniperFaults \in Nat

VARIABLES sniperRun,   \* what run() awaits
          sniperPc,    \* per target: what runTarget() awaits
          place,       \* per target: the endpoint and type it resolves to
          finding,     \* per target: correlateFindingId() of it
          attempts,    \* per target: how many VerificationAttempt rows it has
          outcome,     \* per target: the last outcome of its verifier
          verdict,     \* per target: Exploit.status of its row, or none
          link,        \* per target: Exploit.vulnerabilityId of that row
          pick,        \* per target: the local vulnerabilityId of saveExploit
          refused,     \* per target: its refusal row, if it has one
          created,     \* targets for which saveExploit created a vulnerability
          sealed,      \* vulnerabilities whose status is CONFIRMED
          told,        \* per target: the last SNIPER_* event about it
          sniperFaults \* failing writes so far

sniperRow == <<verdict, link>>
sniperVars == <<sniperRun, sniperPc, place, finding, attempts, outcome, sniperRow, pick, refused,
                created, sealed, told, sniperFaults>>

(* A vulnerability saveExploit creates for a target is named after it.     *)
Vulnerabilities == Findings \cup Targets
Verdicts == {"CONFIRMED", "NOT_CONFIRMED", "NOT_TESTED", "FAILED"}  \* FAILED: or INCONCLUSIVE
Outcome == [status : Verdicts, retryable : BOOLEAN]
NoOutcome == [status |-> "FAILED", retryable |-> FALSE]
Elsewhere == "elsewhere"  \* the endpoint of a refusal row written without the plan
NoRefusal == [vuln |-> Nothing, at |-> "none"]
SniperPC == {"queued", "load", "seed", "attempt", "record", "lookup", "others", "mark", "find",
             "confirm", "create", "write", "evidence", "unsupported", "refuse", "done"}

SniperInit ==
  /\ sniperRun = "idle" /\ sniperPc = [t \in Targets |-> "queued"]
  /\ place \in [Targets -> Places] /\ finding = [t \in Targets |-> Nothing]
  /\ attempts = [t \in Targets |-> 0] /\ outcome = [t \in Targets |-> NoOutcome]
  /\ verdict = [t \in Targets |-> "none"] /\ link = [t \in Targets |-> Nothing]
  /\ pick = [t \in Targets |-> Nothing] /\ refused = [t \in Targets |-> NoRefusal]
  /\ created = {} /\ sealed = {} /\ told = [t \in Targets |-> "none"] /\ sniperFaults = 0

To(t, l) == sniperPc' = [sniperPc EXCEPT ![t] = l]
SniperFault == sniperFaults < MaxSniperFaults /\ sniperFaults' = sniperFaults + 1

-----------------------------------------------------------------------------
(* run() *)

(* validateSandbox: the sandbox is missing or another scan's, or it is not. *)
ValidateSandbox ==
  /\ sniperRun = "idle"
  /\ \E next \in {"findings", "rejected"} : sniperRun' = next
  /\ UNCHANGED <<sniperPc, place, finding, attempts, outcome, sniperRow, pick, refused, created,
                 sealed, told, sniperFaults>>

(* correlateFindingId: the plan's vulnerability, the best finding of the   *)
(* type or else the first one: none only if the scan has none.             *)
Correlated == IF Findings = {} THEN {Nothing} ELSE Findings

LoadFindings ==
  /\ sniperRun = "findings"
  /\ \/ sniperRun' = "executing" /\ finding' \in [Targets -> Correlated]
     \/ sniperRun' = "rejected" /\ UNCHANGED finding
  /\ UNCHANGED <<sniperPc, place, attempts, outcome, sniperRow, pick, refused, created, sealed,
                 told, sniperFaults>>

(* BoundedExecutor: a worker that is free takes the next task.             *)
UnderWay == {t \in Targets : sniperPc[t] \notin {"queued", "done"}}
StartTarget(t) ==
  /\ sniperRun = "executing" /\ sniperPc[t] = "queued"
  /\ Cardinality(UnderWay) < Concurrency
  /\ To(t, "load")
  /\ UNCHANGED <<sniperRun, place, finding, attempts, outcome, sniperRow, pick, refused, created,
                 sealed, told, sniperFaults>>

ReportRun ==
  /\ sniperRun = "executing" /\ \A t \in Targets : sniperPc[t] = "done"
  /\ sniperRun' = "over"
  /\ UNCHANGED <<sniperPc, place, finding, attempts, outcome, sniperRow, pick, refused, created,
                 sealed, told, sniperFaults>>

-----------------------------------------------------------------------------
(* runTarget() up to its verdict *)

(* The plan's row, its scan, its origin, its type and its credentials: the *)
(* target is verified, unsupported, or refused by a thrown error.          *)
LoadTarget(t) ==
  /\ sniperPc[t] = "load"
  /\ \E next \in {"seed", "unsupported", "refuse"} : To(t, next)
  /\ UNCHANGED <<sniperRun, place, finding, attempts, outcome, sniperRow, pick, refused, created,
                 sealed, told, sniperFaults>>

(* saveExploit(TESTING): the row the attempts hang on.                     *)
SeedUnlinked(t) ==  \* slip: the row is reserved without its vulnerability
  /\ sniperPc[t] = "seed" /\ To(t, "attempt") /\ verdict' = [verdict EXCEPT ![t] = "TESTING"]
  /\ UNCHANGED <<sniperRun, place, finding, attempts, outcome, link, pick, refused, created,
                 sealed, told, sniperFaults>>
Seed(t) ==
  /\ sniperPc[t] = "seed"
  /\ \/ /\ verdict' = [verdict EXCEPT ![t] = "TESTING"]
        /\ link' = [link EXCEPT ![t] = finding[t]]
        /\ To(t, "attempt") /\ UNCHANGED sniperFaults
     \/ SniperFault /\ To(t, "refuse") /\ UNCHANGED sniperRow
  /\ UNCHANGED <<sniperRun, place, finding, attempts, outcome, pick, refused, created, sealed, told>>

(* verifier.verify(): an outcome; what it throws is a retryable failure.   *)
Verify(t) ==
  /\ sniperPc[t] = "attempt" /\ To(t, "record")
  /\ \E o \in Outcome : outcome' = [outcome EXCEPT ![t] = o]
  /\ UNCHANGED <<sniperRun, place, finding, attempts, sniperRow, pick, refused, created, sealed,
                 told, sniperFaults>>

Terminal == {"CONFIRMED", "NOT_CONFIRMED", "NOT_TESTED"}
RetryAllowed(o) == o.status \notin Terminal /\ o.retryable

(* saveAttempt, then the next attempt after its delay or the end.          *)
RecordAttempt(t) ==
  /\ sniperPc[t] = "record"
  /\ \/ /\ attempts' = [attempts EXCEPT ![t] = @ + 1]
        /\ To(t, IF RetryAllowed(outcome[t]) /\ attempts[t] + 1 < MaxAttempts
                   THEN "attempt" ELSE "lookup")
        /\ UNCHANGED sniperFaults
     \/ SniperFault /\ To(t, "refuse") /\ UNCHANGED attempts
  /\ UNCHANGED <<sniperRun, place, finding, outcome, sniperRow, pick, refused, created, sealed, told>>

-----------------------------------------------------------------------------
(* saveExploit() of the final status.  A query that fails refuses.         *)

QueryFails(t) ==
  /\ sniperPc[t] \in {"lookup", "others", "find"} /\ To(t, "refuse")
  /\ UNCHANGED <<sniperRun, place, finding, attempts, outcome, sniperRow, pick, refused, created,
                 sealed, told, sniperFaults>>

(* getExploitForTarget finds the seeded row; only CONFIRMED disambiguates. *)
Lookup(t) ==
  /\ sniperPc[t] = "lookup"
  /\ pick' = [pick EXCEPT ![t] = finding[t]]
  /\ To(t, IF outcome[t].status # "CONFIRMED" THEN "write"
           ELSE IF finding[t] = Nothing THEN "find" ELSE "others")
  /\ UNCHANGED <<sniperRun, place, finding, attempts, outcome, sniperRow, refused, created, sealed,
                 told, sniperFaults>>

(* Some row of the scan has the vulnerability at another endpoint.         *)
Shared(t, v) ==
  \E u \in Targets : \/ verdict[u] # "none" /\ link[u] = v /\ place[u] # place[t]
                     \/ refused[u] # NoRefusal /\ refused[u].vuln = v /\ refused[u].at # place[t]

(* otherExploit: a vulnerability another endpoint's row has is not used.   *)
MarksFirst(t) ==  \* slip: the vulnerability is confirmed before the others are looked at
  /\ sniperPc[t] = "others" /\ sealed' = sealed \cup {pick[t]}
  /\ \/ Shared(t, pick[t]) /\ pick' = [pick EXCEPT ![t] = Nothing] /\ To(t, "find")
     \/ ~Shared(t, pick[t]) /\ To(t, "mark") /\ UNCHANGED pick
  /\ UNCHANGED <<sniperRun, place, finding, attempts, outcome, sniperRow, refused, created, told,
                 sniperFaults>>
Others(t) ==
  /\ sniperPc[t] = "others"
  /\ \/ Shared(t, pick[t]) /\ pick' = [pick EXCEPT ![t] = Nothing] /\ To(t, "find")
     \/ ~Shared(t, pick[t]) /\ To(t, "mark") /\ UNCHANGED pick
  /\ UNCHANGED <<sniperRun, place, finding, attempts, outcome, sniperRow, refused, created, sealed,
                 told, sniperFaults>>

(* vulnerability.update(CONFIRMED), whose error means it is not used.      *)
Mark(t) ==
  /\ sniperPc[t] = "mark"
  /\ \/ /\ sealed' = sealed \cup {pick[t]} /\ To(t, "write") /\ UNCHANGED <<pick, sniperFaults>>
     \/ /\ SniperFault /\ pick' = [pick EXCEPT ![t] = Nothing]
        /\ To(t, "find") /\ UNCHANGED sealed
  /\ UNCHANGED <<sniperRun, place, finding, attempts, outcome, sniperRow, refused, created, told>>

(* existingVuln: one a target created for the same endpoint and type.      *)
Find(t) ==
  /\ sniperPc[t] = "find"
  /\ LET here == {u \in created : place[u] = place[t]} IN
       \/ \E u \in here : pick' = [pick EXCEPT ![t] = u] /\ To(t, "confirm")
       \/ here = {} /\ To(t, "create") /\ UNCHANGED pick
  /\ UNCHANGED <<sniperRun, place, finding, attempts, outcome, sniperRow, refused, created, sealed,
                 told, sniperFaults>>

Confirm(t) ==
  /\ sniperPc[t] = "confirm"
  /\ \/ sealed' = sealed \cup {pick[t]} /\ To(t, "write") /\ UNCHANGED sniperFaults
     \/ SniperFault /\ To(t, "refuse") /\ UNCHANGED sealed
  /\ UNCHANGED <<sniperRun, place, finding, attempts, outcome, sniperRow, pick, refused, created, told>>

Create(t) ==
  /\ sniperPc[t] = "create"
  /\ \/ /\ created' = created \cup {t} /\ sealed' = sealed \cup {t}
        /\ pick' = [pick EXCEPT ![t] = t] /\ To(t, "write") /\ UNCHANGED sniperFaults
     \/ SniperFault /\ To(t, "refuse") /\ UNCHANGED <<created, sealed, pick>>
  /\ UNCHANGED <<sniperRun, place, finding, attempts, outcome, sniperRow, refused, told>>

(* exploit.update(), then the evidence is replaced.                        *)
WriteExploit(t) ==
  /\ sniperPc[t] = "write"
  /\ \/ /\ verdict' = [verdict EXCEPT ![t] = outcome[t].status]
        /\ link' = [link EXCEPT ![t] = pick[t]]
        /\ To(t, "evidence") /\ UNCHANGED sniperFaults
     \/ SniperFault /\ To(t, "refuse") /\ UNCHANGED sniperRow
  /\ UNCHANGED <<sniperRun, place, finding, attempts, outcome, pick, refused, created, sealed, told>>

(* The locals of runTarget() end with it.                                  *)
Leave(t) == /\ To(t, "done") /\ outcome' = [outcome EXCEPT ![t] = NoOutcome]
            /\ pick' = [pick EXCEPT ![t] = Nothing]

(* The event of a verdict; everything that is neither is REJECTED.         *)
Announced(v) == IF v \in {"CONFIRMED", "NOT_TESTED"} THEN v ELSE "REJECTED"

ReplaceEvidence(t) ==
  /\ sniperPc[t] = "evidence"
  /\ \/ told' = [told EXCEPT ![t] = Announced(outcome[t].status)] /\ Leave(t)
        /\ UNCHANGED sniperFaults
     \/ SniperFault /\ To(t, "refuse") /\ UNCHANGED <<outcome, pick, told>>
  /\ UNCHANGED <<sniperRun, place, finding, attempts, sniperRow, refused, created, sealed>>

(* refusalRecord: a row NOT_TESTED under the label of the plan, which is   *)
(* no canonical type and so never the seeded row; called from the catch it *)
(* has no plan.  Neither call is awaited inside the try: if its write      *)
(* fails, the executor records a panic.                                    *)
Refuse(t) ==
  /\ \/ /\ sniperPc[t] = "unsupported"
        /\ \E at \in {place[t], Elsewhere} :
             refused' = [refused EXCEPT ![t] = [vuln |-> finding[t], at |-> at]]
        /\ told' = [told EXCEPT ![t] = "NOT_TESTED"] /\ Leave(t) /\ UNCHANGED sniperFaults
     \/ /\ sniperPc[t] = "refuse"
        /\ \E v \in Correlated :
             refused' = [refused EXCEPT ![t] = [vuln |-> v, at |-> Elsewhere]]
        /\ told' = [told EXCEPT ![t] = "NOT_TESTED"] /\ Leave(t) /\ UNCHANGED sniperFaults
     \/ /\ sniperPc[t] \in {"unsupported", "refuse"} /\ SniperFault
        /\ Leave(t) /\ UNCHANGED <<refused, told>>
  /\ UNCHANGED <<sniperRun, place, finding, attempts, sniperRow, created, sealed>>

Attack(t) ==
  \/ LoadTarget(t) \/ Seed(t) \/ Verify(t) \/ RecordAttempt(t) \/ QueryFails(t) \/ Lookup(t)
  \/ Others(t) \/ Mark(t) \/ Find(t) \/ Confirm(t) \/ Create(t) \/ WriteExploit(t)
  \/ ReplaceEvidence(t) \/ Refuse(t)

SniperNext ==
  \/ ValidateSandbox \/ LoadFindings \/ ReportRun
  \/ \E t \in Targets : StartTarget(t) \/ Attack(t)

SniperSpec == SniperInit /\ [][SniperNext]_sniperVars
SniperFair ==
  /\ WF_sniperVars(LoadFindings) /\ WF_sniperVars(ReportRun)
  /\ \A t \in Targets : WF_sniperVars(StartTarget(t)) /\ WF_sniperVars(Attack(t))
FairSniperSpec == SniperSpec /\ SniperFair

-----------------------------------------------------------------------------
(* Types of the variables; no target has more than MaxAttempts attempts.   *)
SniperTypeOK ==
  /\ sniperRun \in {"idle", "findings", "rejected", "executing", "over"}
  /\ sniperPc \in [Targets -> SniperPC] /\ place \in [Targets -> Places]
  /\ finding \in [Targets -> Findings \cup {Nothing}] /\ outcome \in [Targets -> Outcome]
  /\ attempts \in [Targets -> 0..MaxAttempts]
  /\ verdict \in [Targets -> Verdicts \cup {"none", "TESTING"}]
  /\ link \in [Targets -> Vulnerabilities \cup {Nothing}]
  /\ pick \in [Targets -> Vulnerabilities \cup {Nothing}]
  /\ refused \in [Targets -> [vuln : Findings \cup {Nothing}, at : Places \cup {Elsewhere, "none"}]]
  /\ created \subseteq Targets /\ sealed \subseteq Vulnerabilities
  /\ told \in [Targets -> {"none", "CONFIRMED", "NOT_TESTED", "REJECTED"}]
  /\ sniperFaults \in 0..MaxSniperFaults

(* Two confirmed exploits at different endpoints never share their         *)
(* vulnerability, however the targets interleave: the engineer patches per *)
(* vulnerability, so one of the two would never be repaired.  What makes   *)
(* it true is that every row is written with its vulnerability, TESTING,   *)
(* before any of them is looked at.                                        *)
OwnVulnerability ==
  \A t, u \in Targets :
    verdict[t] = "CONFIRMED" /\ verdict[u] = "CONFIRMED" /\ place[t] # place[u] => link[t] # link[u]

(* What the run confirmed it can show: the row of a confirmed exploit has  *)
(* a vulnerability that is CONFIRMED, and unless a write was lost every    *)
(* CONFIRMED vulnerability has such a row when the run is over, and the    *)
(* stream said so.                                                         *)
ConfirmedIsBacked ==
  /\ \A t \in Targets : verdict[t] = "CONFIRMED" => link[t] \in sealed
  /\ sniperRun = "over" /\ sniperFaults = 0 =>
       \A v \in sealed : \E t \in Targets :
         verdict[t] = "CONFIRMED" /\ link[t] = v /\ told[t] = "CONFIRMED"

(* A run that passed its checks and is not reported yet; it does not stay  *)
(* so, whatever its targets do.                                            *)
SniperUnderWay == sniperRun \in {"findings", "executing"}
SniperEnds == SniperUnderWay ~> ~SniperUnderWay
=============================================================================
