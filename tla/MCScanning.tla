------------------------------ MODULE MCScanning ------------------------------
(***************************************************************************)
(* Whole scans, and what they are made of: the scan pipeline, the static   *)
(* scan with the analysis of its repository, reconnaissance with the       *)
(* attack planner, and the choice of the image the sandbox runs.  The      *)
(* pipeline only names what the others model and they share no state, so   *)
(* a behaviour is one of a single one of the four, which                   *)
(* stage names; the others stay where they begin.  The repository and the  *)
(* site are small and hold one of every case the code tells apart.         *)
(***************************************************************************)
EXTENDS ScanPipeline, StaticScan, AttackPlanner, RuntimePlan

VARIABLE stage

scanningVars == <<vars, staticVars, reconVars, resolveVars, stage>>

(* The choice of the image where it is not looked at.                      *)
ResolveAsleep ==
  /\ resolvePc = "list" /\ inReach = {} /\ packagesLeft = {} /\ runtimePlan = Unresolved /\ resolveFaults = 0
  /\ \E d \in {CHOOSE d \in DockerTexts : TRUE} :
       clone = [files |-> {}, docker |-> d, packages |-> [k \in {} |-> 0], override |-> 0]

ScanningInit ==
  /\ stage \in {"pipeline", "static", "recon", "image"} /\ Init /\ StaticInit /\ ReconInit
  /\ stage # "static" => checkout = [large |-> FALSE, broken |-> FALSE]
  /\ IF stage = "image" THEN ResolveInit ELSE ResolveAsleep

PipelineStage == stage = "pipeline" /\ Next /\ UNCHANGED <<staticVars, reconVars, resolveVars, stage>>
StaticStage == stage = "static" /\ StaticNext /\ UNCHANGED <<vars, reconVars, resolveVars, stage>>
ReconStage == stage = "recon" /\ ReconNext /\ UNCHANGED <<vars, staticVars, resolveVars, stage>>
ImageStage == stage = "image" /\ ResolveNext /\ UNCHANGED <<vars, staticVars, reconVars, stage>>

ScanningNext == PipelineStage \/ StaticStage \/ ReconStage \/ ImageStage
ScanningSpec ==
  ScanningInit /\ [][ScanningNext]_scanningVars /\ \A s \in Scans : WF_vars(Task(s))

(* Types of the variables of the three that are not the pipeline.          *)
SurveyTypeOK == StaticTypeOK /\ ReconTypeOK /\ ResolveTypeOK

-----------------------------------------------------------------------------
(* A repository: an application in two languages, routes declared twice, a *)
(* dependency, a log, and a link.                                          *)
Entry(in, n, sz, e) ==
  [parent |-> in, name |-> n, kind |-> "file", size |-> sz, ext |-> e, deps |-> {}, routes |-> <<>>,
   source |-> e \in {"js", "py"}, guards |-> {}, named |-> FALSE]
Directory(in, n) == [Entry(in, n, 0, "none") EXCEPT !.kind = "dir"]
MCPaths == {"top", "api", "controllers", "services", "user.js", "auth.js", "app.py", "package.json",
            "requirements.txt", "node_modules", "x.js", "error.log", "keep.log", "link"}
MCInfo == [p \in MCPaths |->
  CASE p = "top" -> Directory("none", p)
    [] p \in {"api", "node_modules"} -> Directory("top", p)
    [] p \in {"controllers", "services"} -> Directory("api", p)
    [] p = "user.js" -> [Entry("services", p, 40, "js") EXCEPT !.routes = <<"GET /user", "POST /user">>, !.guards = {2}]
    [] p = "auth.js" -> [Entry("controllers", p, 30, "js") EXCEPT !.routes = <<"POST /user", "POST /login">>,
                                                                  !.named = TRUE]
    [] p = "app.py" -> [Entry("top", p, 20, "py") EXCEPT !.routes = <<"GET /">>, !.guards = {1}]
    [] p = "package.json" -> [Entry("top", p, 15, "json") EXCEPT !.deps = {"express", "jose"}]
    [] p = "requirements.txt" -> [Entry("top", p, 10, "txt") EXCEPT !.deps = {"flask"}]
    [] p = "x.js" -> [Entry("node_modules", p, 50, "js") EXCEPT !.routes = <<"GET /x">>]
    [] p = "error.log" -> Entry("top", p, 60, "log")
    [] p = "keep.log" -> Entry("top", p, 61, "log")
    [] OTHER -> [Entry("top", p, 5, "js") EXCEPT !.kind = "link"]]
Ignore(k, b, d, n) == [kind |-> k, base |-> b, dirOnly |-> d, negated |-> n]
MCIgnore == <<Ignore("name", "node_modules", TRUE, FALSE), Ignore("ext", "log", FALSE, FALSE),
              Ignore("name", "keep.log", FALSE, TRUE)>>
Signature(n, c, f, x) == [name |-> n, category |-> c, confidence |-> f, facts |-> x]
MCSignals == <<Signature("JavaScript", "language", 95, {<<"ext", "js">>}),
               Signature("Python", "language", 98, {<<"ext", "py">>}),
               Signature("Express", "framework", 90, {<<"dep", "express">>}),
               Signature("Docker", "container", 90, {<<"file", "Dockerfile">>})>>
MCCategories == <<"language", "framework", "container">>
MCManifests == <<"package.json", "requirements.txt">>
MCSchemes == [express |-> "none", jose |-> "JWT", flask |-> "none"]

(* The four scanners, with two of them, or one of them twice, telling of   *)
(* the same place.                                                         *)
MCScanners == <<"bandit", "pip-audit", "semgrep", "npm-audit">>
Scanner == {"bandit", "pip-audit", "semgrep", "npm-audit"}
MCIdRank == [s \in Scanner |-> CASE s = "bandit" -> 1 [] s = "npm-audit" -> 2 [] s = "pip-audit" -> 3 [] OTHER -> 4]
MCApplies == [s \in Scanner |->
  CASE s = "bandit" -> [kind |-> "language", name |-> "Python"]
    [] s = "semgrep" -> [kind |-> "language", name |-> "JavaScript"]
    [] s = "pip-audit" -> [kind |-> "manifest", name |-> "requirements.txt"]
    [] OTHER -> [kind |-> "manifest", name |-> "package.json"]]
MCUsual == [s \in Scanner |-> CASE s = "bandit" -> 50 [] s = "semgrep" -> 60 [] OTHER -> 90]
MCSeverity == [HIGH |-> 3, ERROR |-> 3, moderate |-> 2, LOW |-> 1]
Report(at, t, s, c, w, r) ==
  [at |-> at, type |-> t, severity |-> s, confidence |-> c, cwe |-> w, references |-> r]
MCReports == [s \in Scanner |->
  CASE s = "bandit" -> <<Report("app.py", "sql", "HIGH", 60, "none", {"a"}),
                         Report("app.py", "sql", "HIGH", 30, "CWE-89", {"b"}),
                         Report("app.py", "assert", "LOW", 90, "none", {})>>
    [] s = "semgrep" -> <<Report("app.py", "sql", "ERROR", 0, "CWE-564", {"d"})>>
    [] OTHER -> <<Report("none", "GHSA", "moderate", 0, "none", {s})>>]

-----------------------------------------------------------------------------
(* A site: pages in a circle, one behind a redirect, one that asks for a   *)
(* login, a form, a call of an API, and one that leads elsewhere.          *)
MCUrls == {"/", "/login", "/login/", "/api/items", "/api/items?id", "/old", "/robots", "elsewhere",
           "/a.png", "/deep", "/spec", "/ghost"}
MCOwn == MCUrls \ {"elsewhere"}
MCPath == [u \in MCUrls |-> IF u = "/api/items?id" THEN "/api/items" ELSE u]
MCQuery == [u \in MCUrls |-> IF u = "/api/items?id" THEN {"id"} ELSE {}]
MCRedirect == [u \in MCUrls |-> CASE u = "/old" -> "/login" [] u = "/ghost" -> "elsewhere" [] OTHER -> u]
Ref(u, m, p, s) == [url |-> u, method |-> m, params |-> p, source |-> s]
MCRefs == [u \in MCUrls |->
  CASE u = "/" -> <<Ref("/api/items", "GET", {"q"}, "api"), Ref("/old", "GET", {}, "link"),
                    Ref("/api/items?id", "GET", {}, "link"), Ref("/a.png", "GET", {}, "link"),
                    Ref("elsewhere", "GET", {}, "link"), Ref("/login", "POST", {"user"}, "form")>>
    [] u = "/login" -> <<Ref("/", "GET", {}, "link"), Ref("/deep", "GET", {}, "link")>>
    [] u = "/spec" -> <<Ref("/api/items", "GET", {"page"}, "docs")>>
    [] OTHER -> <<>>]
MCHints == <<"/deep">>
MCWell == <<[url |-> "/login", source |-> "common"], [url |-> "/ghost", source |-> "graphql"],
            [url |-> "/spec", source |-> "docs"]>>
MCShape == [p \in {MCPath[u] : u \in MCUrls} |->
  CASE p = "/login" -> {"login"} [] p = "/api/items" -> {"api"} [] p = "/a.png" -> {"asset"} [] OTHER -> {}]
MCTech == [u \in MCUrls |-> IF u = "/" THEN {"Express"} ELSE {}]
MCStatic == {[category |-> "SQL", severity |-> "HIGH", at |-> "none"],
             [category |-> "Access", severity |-> "LOW", at |-> "/deep"]}

-----------------------------------------------------------------------------
(* Repositories with a Dockerfile, Python and packages at the top, in a    *)
(* backend, in another directory, too deep, or where nobody looks.         *)
File(d, n) == [dir |-> d, name |-> n]
MCRuntimeFiles == <<File("top", "Dockerfile"), File("api", "main.py"), File("api", "package.json"),
  File("deep", "app.py"), File("dist", "app.py"), File("ops", "Dockerfile.dev"), File("top", "package.json"),
  File("top", "requirements.txt"), File("top", "run.py"), File("ui", "package.json"), File("ui", "yarn.lock")>>
MCAbove == [d \in {"top", "api", "ops", "ui", "dist", "lib", "src", "deep"} |->
  CASE d = "top" -> {"top"} [] d = "src" -> {"top", "lib", "src"} [] d = "deep" -> {"top", "lib", "src", "deep"}
    [] OTHER -> {"top", d}]
Docker(b, c, e) == [blank |-> b, cmd |-> c, expose |-> e]
MCDockerTexts == {Docker(TRUE, FALSE, <<>>), Docker(FALSE, TRUE, <<5000, 80>>), Docker(FALSE, FALSE, <<70000>>)}
Package(j, m, pm, v, s) == [json |-> j, main |-> m, manager |-> pm, versions |-> v, scripts |-> s]
(* The port of vite --port 5173 or next -p5173 is found, that of serve -l    *)
(* 4001 is not.                                                            *)
Script(p, k) == [port |-> p, known |-> k]
MCPackageTexts ==
  {Package(FALSE, FALSE, "none", {}, [n \in {} |-> 0]), Package(TRUE, FALSE, "none", {}, [n \in {} |-> 0]),
   Package(TRUE, TRUE, "none", {18, 22}, [n \in {} |-> 0]),
   Package(TRUE, FALSE, "pnpm", {16}, [n \in {"dev", "preview"} |-> Script(5173, n = "dev")]),
   Package(TRUE, FALSE, "none", {18}, [n \in {"dev", "build"} |-> Script(IF n = "dev" THEN 4001 ELSE 0, FALSE)]),
   Package(TRUE, FALSE, "npm", {}, [n \in {"start", "serve"} |-> Script(IF n = "start" THEN 80 ELSE 5000, TRUE)])}
=============================================================================
