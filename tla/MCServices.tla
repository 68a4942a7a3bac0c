------------------------------- MODULE MCServices -------------------------------
(***************************************************************************)
(* The services around the modules of the other runs.  They share no state *)
(* the models keep, so a behaviour is one of a single service, which part  *)
(* names; the others stay where they begin.  The sandbox manager is        *)
(* explored once with runtime and once with analysis sandboxes.            *)
(***************************************************************************)
EXTENDS SniperRun, SandboxManager, RemediationLoop, Verifiers, PatchDraft, Knowledge

VARIABLE part

Parts == {"sniper", "runtime", "analysis", "loop", "verifiers", "draft", "knowledge"}
servicesVars == <<sniperVars, managerVars, loopVars, verifierVars, draftVars, knowledgeVars, part>>

(* Two lists of the feed: a record of every kind of metric and malformed   *)
(* ones; in the second two records are new, so the rest slid, and one is   *)
(* revised.  Files of a local source, one without an id, one that names a  *)
(* CVE.                                                                    *)
MCRaw(cve, text, v31, v30, v2, cwes) ==
  [id |-> cve, valid |-> cve # "garbage", text |-> text, v31 |-> v31, v30 |-> v30, v2 |-> v2, cwes |-> cwes]
MCFeed == <<MCRaw("CVE-1", "first", 91, 40, -1, <<"CWE-89">>), MCRaw("garbage", "x", -1, -1, -1, <<>>),
            MCRaw("CVE-2", "second", -1, -1, 70, <<"CWE-79", "CWE-20">>)>>
MCFeeds == {MCFeed, <<MCRaw("CVE-3", "new", 1, -1, -1, <<"CWE-89">>), MCRaw("CVE-4", "", 0, -1, -1, <<>>),
                      MCRaw("CVE-1", "first revised", -2, 98, -1, <<>>), MCFeed[3], MCFeed[2]>>}
MCFile(name, external, text, type) ==
  [id |-> name, external |-> external, cwe |-> "CWE-89", text |-> text, severity |-> "unset", type |-> type]
MCShelf == <<MCFile("kb-sql", "CVE-1", "bind values", "SQL_INJECTION"), MCFile("unset", "unset", "no id", "unset"),
             MCFile("kb-xss", "unset", "escape", "unset")>>

-----------------------------------------------------------------------------
(* What the other services begin with is fixed: it makes no difference.    *)
ServicesInit ==
  /\ part \in Parts /\ feed = MCFeed
  /\ IF part = "sniper" THEN TRUE ELSE place = [t \in Targets |-> CHOOSE p \in Places : TRUE]
  /\ IF part = "loop" THEN TRUE
     ELSE aim = "none" /\ direct = "none" /\ score = [f \in Files |-> CHOOSE n \in Scores : TRUE]
  /\ IF part = "verifiers" THEN TRUE ELSE probed = {CHOOSE c \in Checks : TRUE} /\ front = FALSE
  /\ IF part = "draft" THEN TRUE ELSE codeFile = CHOOSE t \in Sources : TRUE
  /\ IF part = "knowledge" THEN TRUE ELSE collection = TRUE
  /\ SniperInit /\ ManagerInit /\ LoopInit /\ VerifierInit /\ DraftInit /\ KnowledgeInit

SniperPart ==
  part = "sniper" /\ SniperNext /\ UNCHANGED <<managerVars, loopVars, verifierVars, draftVars, knowledgeVars, part>>
ManagerPart ==
  /\ part \in {"runtime", "analysis"} /\ ManagerNext
  /\ \A b \in IF part = "runtime" THEN AnalysisBoxes ELSE RuntimeBoxes : call'[b] = "idle"
  /\ UNCHANGED <<sniperVars, loopVars, verifierVars, draftVars, knowledgeVars, part>>
LoopPart ==
  part = "loop" /\ LoopNext /\ UNCHANGED <<sniperVars, managerVars, verifierVars, draftVars, knowledgeVars, part>>
VerifierPart ==
  part = "verifiers" /\ VerifierNext /\ UNCHANGED <<sniperVars, managerVars, loopVars, draftVars, knowledgeVars, part>>
DraftPart ==
  part = "draft" /\ DraftNext /\ UNCHANGED <<sniperVars, managerVars, loopVars, verifierVars, knowledgeVars, part>>

KnowledgePart ==
  part = "knowledge" /\ KnowledgeNext /\ UNCHANGED <<sniperVars, managerVars, loopVars, verifierVars, draftVars, part>>

ServicesNext == SniperPart \/ ManagerPart \/ LoopPart \/ VerifierPart \/ DraftPart \/ KnowledgePart
ServicesSpec ==
  ServicesInit /\ [][ServicesNext]_servicesVars /\ SniperFair /\ ManagerFair /\ LoopFair

-----------------------------------------------------------------------------
(* Types of the variables of every service.                                *)
ServicesTypeOK ==
  /\ SniperTypeOK /\ ManagerTypeOK /\ LoopTypeOK /\ VerifierTypeOK 
  /\ DraftTypeOK /\ KnowledgeTypeOK

(* Whatever docker, a model provider, a verifier or the database does, a   *)
(* Sniper run that passed its checks, the createSandbox() calls and a      *)
(* remediation loop that were begun do not stay under way.                 *)
EverythingEnds == SniperUnderWay \/ ManagerUnderWay \/ LoopUnderWay ~>
                    ~(SniperUnderWay \/ ManagerUnderWay \/ LoopUnderWay)

-----------------------------------------------------------------------------
(* Targets of every kind: two that share a page that keeps what is posted, *)
(* one whose second user would carry the owner's cookie and one asked      *)
(* about without a session, pages whose usual answer has a word a verifier *)
(* takes for proof, and a type without a verifier.                         *)
MCChecks == {"sql", "bare", "nosql", "lookup", "filter", "search", "post", "echo", "orders", "cookie",
             "login", "open", "fetch", "upload", "debug", "later"}
MCLabels == [c \in MCChecks |->
  CASE c \in {"sql", "bare"} -> {"sql", "inject"} [] c \in {"nosql", "lookup", "filter"} -> {"nosql", "sql", "inject"}
    [] c \in {"search", "post", "echo"} -> {"xss"} [] c = "orders" -> {"idor"}
    [] c \in {"cookie", "login", "open"} -> {"access-control"} [] c = "fetch" -> {"cwe-918"}
    [] c = "upload" -> {"file", "upload"} [] c = "debug" -> {"debug"} [] OTHER -> {"path", "traversal"}]
MCPages == [c \in MCChecks |->
  CASE c \in {"search", "post"} -> "comments" [] c \in {"fetch", "upload"} -> "media" [] c = "filter" -> "form"
    [] OTHER -> "plain"]
MCMethods == [c \in MCChecks |-> IF c \in {"post", "upload"} THEN "POST" ELSE "GET"]
MCCorrelation == [c \in MCChecks |->
  CASE c \in {"sql", "debug"} -> "confirmed" [] c = "post" -> "partial" [] OTHER -> "none"]
MCSession == [c \in MCChecks |->
  [needed |-> c \in {"login", "orders"}, marked |-> FALSE, other |-> c = "orders",
   owner |-> CASE c = "cookie" -> "cookie" [] c = "open" -> "none" [] OTHER -> "header"]]
MCPlain == [p \in {"comments", "media", "form", "plain"} |->
  CASE p = "comments" -> {"html"} [] p = "media" -> {"status"} [] p = "form" -> {"error"} [] OTHER -> {}]
MCTexts == {{"injection", "crash"}, {"injection", "payload"}, {"injection", "database", "technique", "connection"},
            {"injection", "database", "techniques", "killed"}, {"ruled out"}, {"ruled out", "database"},
            {"login", "crash"}, {"no parameters", "crash"}, {"missing"}, {"exit"}, {"ruled out", "exit"}, {}}

-----------------------------------------------------------------------------
(* Exploits of the same vulnerability, of equal rank, without one, of one  *)
(* that is not repaired, and targets in files of every kind; files with    *)
(* lines that repeat, blank ones, a call of a shell, and a credential.     *)
MCRow(v, type, severity, file, line, when) ==
  [vulnerability |-> v, status |-> "CONFIRMED", type |-> type, severity |-> severity, confidence |-> 0, depth |-> 1,
   older |-> IF v = "v1" THEN 1 ELSE 0, at |-> when, file |-> file, line |-> line]
MCExploits ==
  {MCRow("v1", "SQL_INJECTION", "HIGH", "app.py", 4, 1), MCRow("v1", "SQL_INJECTION", "HIGH", "app.py", 3, 2),
   MCRow("v2", "XSS", "HIGH", "view.js", 0, 3), MCRow("v3", "XSS", "LOW", "../up", 1, 4),
   MCRow("v4", "SQL_INJECTION", "LOW", "setup.py", 9, 5), MCRow("none", "XSS", "CRITICAL", "view.js", 1, 6),
   [MCRow("v5", "SQL_INJECTION", "LOW", "app.py", 1, 7) EXCEPT !.status = "NOT_CONFIRMED"]}
MCSources == {<<"a">>, <<"b", "a", "a", "", "a">>,
              <<"a", "sh", "b">>, <<"key", "a", "b">>, <<"c", "a", "b", "d", "a", "b">>}
MCSignals == [t \in {"SQL_INJECTION", "SECURITY_MISCONFIGURATION", "XSS", "BROKEN_ACCESS_CONTROL"} |->
  IF t = "XSS" THEN {"encode"} ELSE {"bind", "bind password"}]
MCLanguages == [f \in {"app.py", "view.js", "setup.py", "main.go", "other.py"} |->
  CASE f = "view.js" -> "js" [] f = "main.go" -> "other" [] OTHER -> "python"]
=============================================================================
