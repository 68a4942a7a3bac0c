---------------------------- MODULE AttackPlanner ----------------------------
(***************************************************************************)
(* The attack planner, AttackPlanService over PlanEngine, TargetScorer and *)
(* PrismaPlanRepository, beside the scouts of the same scan.  generate()   *)
(* reads the findings, the surface and the profile in three statements;    *)
(* the last two each look for the latest completed scout.                  *)
(***************************************************************************)
EXTENDS Recon

CONSTANTS StaticFindings,  \* [category, severity, at]: static findings, at a path or "none"
          External,        \* addresses of advisories and documentation elsewhere
          Frameworks       \* technologies that are frameworks

VARIABLES planPc,    \* what generate() awaits
          planRead,  \* the scouts it read, the surface and the technologies
          plans      \* AttackPlan rows

planVars == <<planPc, planRead, plans>>
reconVars == <<scoutVars, planVars>>

NoScout == "none"
ASSUME ScoutsAssumption == NoScout \notin Scouts
PlanPC == {"idle", "findings", "surface", "profile", "save", "done", "raised", "rejected"}

ReconInit ==
  /\ ScoutInit /\ planPc = "idle" /\ plans = {}
  /\ planRead = [scout |-> NoScout, surface |-> {}, profile |-> NoScout, tech |-> {}]

Planning(from, to) == planPc = from /\ planPc' = to
PlanFails(from) == Planning(from, "raised") /\ ReconFault

-----------------------------------------------------------------------------
(* classifyEndpoint and HeuristicAttackSurfacePrioritizer.assignRisk        *)
Asks(e) == e.status = "locked" \/ "login" \in ShapeOf[PathOf[e.url]]
Inputs(e) == e.params # {} \/ QueryOf[e.url] # {}
ScoutRisk(e) ==
  LET shape == ShapeOf[PathOf[e.url]]
  IN CASE "upload" \in shape -> IF Asks(e) THEN "CRITICAL" ELSE "HIGH"
       [] "admin" \in shape /\ "upload" \notin shape -> "HIGH"
       [] "api" \in shape /\ shape \cap {"upload", "admin"} = {} ->
            IF ~Inputs(e) THEN "LOW" ELSE IF Asks(e) THEN "HIGH" ELSE "MEDIUM"
       [] "login" \in shape /\ shape \cap {"upload", "admin", "api"} = {} -> "MEDIUM"
       [] OTHER -> IF shape \cap {"docs", "health", "asset"} # {} \/ e.status = "locked"
                   THEN "LOW" ELSE "MEDIUM"

(* extractFeatures: the patterns of the path, and what inputs make of them. *)
Features(e) ==
  LET shape == ShapeOf[PathOf[e.url]]
      If(c, f) == IF c THEN {f} ELSE {}
  IN shape \cup If(e.auth, "auth") \cup If(QueryOf[e.url] # {}, "query") \cup If(Inputs(e), "input")
     \cup If("search" \in shape \/ (Inputs(e) /\ "api" \in shape), "db")

(* candidates(): hypotheses from the shape of the endpoint, and from the    *)
(* categories of the static findings that fit it; the code keeps the first  *)
(* four.  Its test for a route parameter, a colon in the address, holds for *)
(* every address a scout stores, since they are absolute.                   *)
Candidates(f, categories) ==
  LET If(c, h) == IF c THEN {h} ELSE {}
      taken == f \cap {"input", "api"} # {}
  IN If("debug" \in f, "Misconfiguration") \cup If("upload" \in f, "Upload")
     \cup If("comment" \in f \/ "search" \in f \/ {"input", "api"} \subseteq f, "XSS")
     \cup If("db" \in f /\ f \cap {"input", "search"} # {}, "SQL")
     \cup If(f \cap {"auth", "api", "admin"} # {}, "Access")
     \cup If({"query", "redirect"} \subseteq f, "SSRF")
     \cup (categories \cap (If(taken \/ "db" \in f, "SQL") \cup If(taken \/ "search" \in f, "XSS")
                             \cup If(f \cap {"upload", "api"} # {}, "Upload") \cup If(taken, "SSRF")))
     \cup If(categories \cap {"Access", "Bypass"} # {} /\ f \cap {"auth", "login", "api"} # {}, "Access")

(* TargetScorer.score: every factor that applies adds its points.           *)
Weight == [CRITICAL |-> 40, HIGH |-> 30, MEDIUM |-> 18, LOW |-> 8]
StaticWeight == [CRITICAL |-> 18, HIGH |-> 12, MEDIUM |-> 6, LOW |-> 2]
FeatureWeight == [upload |-> 14, admin |-> 12, api |-> 8, login |-> 6, auth |-> 4, query |-> 15,
                  input |-> 10, db |-> 10, debug |-> 40]
Priority(e, categories, severities, framework) ==
  LET f == IF "query" \in Features(e) THEN Features(e) \ {"input"} ELSE Features(e)
      Points(x) == FeatureWeight[x]
      hit == Candidates(Features(e), categories) \cap categories # {}
      total == Weight[ScoutRisk(e)] + MapThenSumSet(Points, f \cap DOMAIN FeatureWeight)
               + (IF severities = {} THEN 0 ELSE Max({StaticWeight[x] : x \in severities}))
               + (IF hit THEN 12 ELSE 0) + (IF framework THEN 3 ELSE 0)
  IN Max({5, Min({100, total})})

Risk(priority, f) ==
  CASE {"upload", "auth"} \subseteq f \/ priority >= 80 -> "CRITICAL"
    [] OTHER -> IF priority >= 60 THEN "HIGH" ELSE IF priority >= 40 THEN "MEDIUM" ELSE "LOW"

(* The findings a target may be linked to: the first that matches, in the   *)
(* order of a query that asks for none.                                     *)
Matching(e, candidates) ==
  {v \in StaticFindings : v.at \in {"none", PathOf[e.url]} /\ v.category \in candidates}

(* summarizeFindings, categorizeFinding                                     *)
StaticSeverities == {v.severity : v \in StaticFindings}
StaticCategories == {v.category : v \in StaticFindings}

(* PlanEngine.build: the targets of a surface.                              *)
PlanTargets(surface, tech) ==
  LET categories == StaticCategories
      Target(e) ==
        LET f == Features(e)
            c == Candidates(f, categories)
            p == Priority(e, categories, StaticSeverities, tech \cap Frameworks # {})
        IN [endpoint |-> EndpointKey(e), candidates |-> c, links |-> Matching(e, c),
            priority |-> p, risk |-> Risk(p, f)]
      Kept(e) == /\ Candidates(Features(e), categories) # {}
                 /\ "asset" \in Features(e) /\ "input" \notin Features(e)
                      => Matching(e, Candidates(Features(e), categories)) # {}
  IN {Target(e) : e \in {x \in surface : Kept(x)}}

-----------------------------------------------------------------------------
(* AttackPlanService.generate *)

StartPlan == \E to \in {"findings", "rejected"} : Planning("idle", to) /\ UNCHANGED <<planRead, plans, reconFaults>>

(* Nobody writes findings while the planner runs: they are a constant.      *)
LoadStaticFindings ==
  /\ \/ Planning("findings", "surface") /\ ReconFine
     \/ PlanFails("findings")
  /\ UNCHANGED <<planRead, plans>>

NewestScout == IF scoutOrder = <<>> THEN NoScout ELSE Last(scoutOrder)  \* slip: whatever has become of it
LatestScout ==
  LET done == {i \in DOMAIN scoutOrder : scoutRow[scoutOrder[i]] = "COMPLETED"}
  IN IF done = {} THEN NoScout ELSE scoutOrder[Max(done)]

LoadAttackSurface ==
  /\ \/ /\ Planning("surface", "profile") /\ ReconFine
        /\ planRead' =
             [planRead EXCEPT !.scout = LatestScout,
                !.surface = IF LatestScout = NoScout \/ "surface" \notin scoutTables[LatestScout] THEN {}
                            ELSE {e \in Range(recon[LatestScout].found) : e.url \notin External}]
     \/ PlanFails("surface") /\ UNCHANGED planRead
  /\ UNCHANGED plans

LoadProfile ==
  /\ \/ /\ Planning("profile", "save") /\ ReconFine
        /\ planRead' =
             [planRead EXCEPT !.profile = LatestScout,
                !.tech = IF LatestScout = NoScout \/ "technologies" \notin scoutTables[LatestScout] THEN {}
                         ELSE recon[LatestScout].tech]
     \/ PlanFails("profile") /\ UNCHANGED planRead
  /\ UNCHANGED plans

(* The plan and its targets are one statement.  The row keeps the targets   *)
(* only; what they were made from is kept here beside them.                 *)
SavePlan ==
  /\ \/ /\ Planning("save", "done") /\ ReconFine
        /\ plans' = plans \cup {[scout |-> planRead.scout, surface |-> planRead.surface,
                                 profile |-> planRead.profile, tech |-> planRead.tech,
                                 targets |-> PlanTargets(planRead.surface, planRead.tech)]}
     \/ PlanFails("save") /\ UNCHANGED plans
  /\ UNCHANGED planRead

PlannerStep == StartPlan \/ LoadStaticFindings \/ LoadAttackSurface \/ LoadProfile \/ SavePlan

ReconNext ==
  \/ (\E s \in Scouts : ScoutStep(s)) /\ UNCHANGED planVars
  \/ /\ PlannerStep
     /\ UNCHANGED <<scoutPc, crawl, recon, scoutRow, scoutTables, scoutOrder, scoutSaid>>
ReconSpec == ReconInit /\ [][ReconNext]_reconVars

-----------------------------------------------------------------------------
ReconTypeOK == ScoutTypeOK /\ planPc \in PlanPC /\ \A p \in plans : {p.scout, p.profile} \subseteq Scouts \cup {NoScout}

(* The row of s was created no later than that of t.                        *)
NotBefore(s, t) ==
  \E i \in DOMAIN scoutOrder, j \in DOMAIN scoutOrder : i <= j /\ scoutOrder[i] = s /\ scoutOrder[j] = t

(* A plan is made from all that one completed scout found and from all the  *)
(* technologies that one completed scout detected, whatever other scouts    *)
(* were writing or failing at the time.  The second may be another than the *)
(* first, since the planner looks for the latest twice, but never an older  *)
(* one, and there is a second if there is a first.  The targets are at      *)
(* addresses of the surface; without a surface there are none.              *)
PlanIsGrounded ==
  \A p \in plans :
    /\ \A s \in {p.scout, p.profile} \ {NoScout} : scoutRow[s] = "COMPLETED" /\ scoutTables[s] = ReconTables
    /\ p.surface = IF p.scout = NoScout THEN {} ELSE {e \in Range(recon[p.scout].found) : e.url \notin External}
    /\ p.tech = IF p.profile = NoScout THEN {} ELSE recon[p.profile].tech
    /\ p.scout # NoScout => p.profile # NoScout /\ NotBefore(p.scout, p.profile)
    /\ {t.endpoint : t \in p.targets} \subseteq {EndpointKey(e) : e \in p.surface}

(* What a scout has crawled and merged is exact.                            *)
ReconIsExact ==
  \A s \in Scouts :
    /\ scoutPc[s] \in {"fingerprint", "surface"} => CrawlIsExact(s)
    /\ scoutPc[s] = "surface" =>
         \E seen \in {Sightings(crawl[s].pages, recon[s].hints, down) : down \in {{}} \cup {{u} : u \in Probed}} :
           SurfaceIsExact(s, seen)

(* What a scout reports is exact, and what is planned stands on what scouts *)
(* have reported.                                                           *)
SurveyIsExact == ReconIsExact /\ PlanIsGrounded
=============================================================================
