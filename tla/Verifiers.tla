------------------------------- MODULE Verifiers -------------------------------
(***************************************************************************)
(* The verifiers of the Sniper: src/backend/src/sniper/infrastructure/     *)
(* verifiers, the sqlmap classifier and the confidence scorer.  A verifier *)
(* asks the running application one thing after another, each through the  *)
(* sandbox, and judges from what it heard.  Several run at a time against  *)
(* one application, which keeps what it was sent and may be down or still  *)
(* starting between two questions.  SniperRun knows a verifier only by its *)
(* verdict.                                                                *)
(***************************************************************************)
EXTENDS Naturals, Sequences, FiniteSets

CONSTANTS Checks,         \* the targets that may be verified
          Together,       \* how many are verified at a time
          LabelOf,        \* check -> the words of the planner's label for it
          PageOf,         \* check -> the page its endpoint is
          MethodOf,       \* check -> "GET" or "POST"
          HasParams,      \* the checks with a query, a body or a hint
          CorrelationOf,  \* check -> "none", "partial" or "confirmed"
          SessionOf,      \* check -> [needed, owner, marked, other]: see Begin
          Faulty,         \* the checks whose endpoint has the fault looked for
          Echoes,         \* the checks whose endpoint repeats its input, but not in HTML
          Refuses,        \* the checks whose endpoint turns the probe away in words, with a 200
          PlainOf,        \* page -> what its usual answer shows
          Keeping,        \* the pages that show what was posted to them
          SqlTexts,       \* what sqlmap may print of an endpoint it reached
          MaxTries,       \* AttemptLoop's bound on attempts
          MaxOutages      \* bound on times the application leaves and on failed executions

ASSUME VerifierAssumption == MaxTries \in Nat \ {0} /\ MaxOutages \in Nat

VARIABLES probed,    \* the checks of this run
          app,      \* "up", "starting" or "down"
          front,    \* the application's own page is HTML
          kept,     \* the pages that hold a payload
          at,       \* check -> where its verifier stands
          before,   \* check -> answer to its plain request
          heard,    \* check -> answer it judges
          steady,   \* check -> the application was up at every request of this attempt
          trials,    \* check -> attempts begun
          found,  \* check -> outcome of its last attempt
          outages

verifierVars ==
  <<probed, app, front, kept, at, before, heard, steady, trials, found, outages>>

Statuses == {"CONFIRMED", "NOT_CONFIRMED", "NOT_TESTED", "INCONCLUSIVE", "FAILED"}
Codes == {"none", "200", "403", "500"}
Steps == {"idle", "todo", "baseline", "probe", "clean", "front", "done"}

-----------------------------------------------------------------------------
(* What a target is tested for.                                            *)

(* The rules for a label, the first that applies winning; a rule applies   *)
(* when one of its sets of words is in the label.                          *)
LabelRules ==
  <<[type |-> "SECURITY_MISCONFIGURATION", words |-> {{"misconfig"}, {"debug"}, {"cwe-16"}, {"cwe-200"}}],
    [type |-> "NOSQL_INJECTION", words |-> {{"nosql"}, {"cwe-943"}}],
    [type |-> "SQL_INJECTION", words |-> {{"sql", "inject"}, {"sqli"}, {"cwe-89"}}],
    [type |-> "FILE_UPLOAD", words |-> {{"file", "upload"}, {"cwe-434"}}],
    [type |-> "XSS", words |-> {{"xss"}, {"cross-site-scripting"}, {"cwe-79"}}],
    [type |-> "SSRF", words |-> {{"ssrf"}, {"server-side-request-forgery"}, {"cwe-918"}}],
    [type |-> "IDOR", words |-> {{"idor"}, {"direct-object-reference"}, {"cwe-639"}}],
    [type |-> "PATH_TRAVERSAL", words |-> {{"path", "traversal"}, {"cwe-22"}}],
    [type |-> "COMMAND_INJECTION", words |-> {{"command", "inject"}, {"cwe-78"}}],
    [type |-> "AUTH_BYPASS", words |-> {{"auth", "bypass"}, {"cwe-287"}}],
    [type |-> "BROKEN_ACCESS_CONTROL", words |-> {{"access-control"}, {"cwe-284"}}]>>

TypeFor(label) ==
  LET applies == {i \in DOMAIN LabelRules : \E w \in LabelRules[i].words : w \subseteq label}
  IN IF applies = {} THEN "UNKNOWN"
     ELSE LabelRules[CHOOSE i \in applies : \A j \in applies : i <= j].type

(* The verifier registered for a type: one for both kinds of broken access *)
(* control, none for the types of later phases.                            *)
VerifierFor(type) ==
  CASE type \in {"BROKEN_ACCESS_CONTROL", "IDOR"} -> "access"
    [] type \in {"SQL_INJECTION", "NOSQL_INJECTION", "XSS", "SSRF", "FILE_UPLOAD",
                 "SECURITY_MISCONFIGURATION"} -> type
    [] OTHER -> "none"

KindOf == [c \in Checks |-> VerifierFor(TypeFor(LabelOf[c]))]

-----------------------------------------------------------------------------
(* How sure a verdict is, in hundredths.                                   *)
Score(confirmed, techniques, matched, reached, correlation) ==
  (IF confirmed THEN 35 ELSE 0)
  + (CASE techniques = 0 -> 0 [] techniques = 1 -> 10 [] OTHER -> 20)
  + (IF matched THEN 15 ELSE 0)
  + (CASE correlation = "confirmed" -> 20 [] correlation = "partial" -> 10 [] OTHER -> 0)
  + (IF reached THEN 10 ELSE 0)

Result(status, retryable, score) == [status |-> status, retryable |-> retryable, score |-> score]
Unjudged == Result("FAILED", TRUE, 0)

(* The outcome of a verifier that judges by answers, once it has them.     *)
Judged(c, confirmed, techniques) ==
  Result(IF confirmed THEN "CONFIRMED" ELSE "NOT_CONFIRMED", FALSE,
          Score(confirmed, IF confirmed THEN techniques ELSE 0, confirmed, TRUE, CorrelationOf[c]))

-----------------------------------------------------------------------------
(* The application, and a question put to it from within the sandbox.      *)

Answer(code, shows) == [code |-> code, shows |-> shows]
Silence == Answer("none", {})

(* Whose session a request carries.  A cookie of the owner goes with every *)
(* request, the other user's included, unless it names the owner.          *)
Identity(c, who) ==
  LET s == SessionOf[c] IN
  IF who = "owner" THEN (IF s.owner = "none" THEN "nobody" ELSE "owner")
  ELSE IF s.owner = "cookie" /\ ~s.marked THEN "owner" ELSE "other"

(* What a page shows besides its usual answer.                             *)
Telling(c) ==
  CASE KindOf[c] = "access" ->
         IF Identity(c, "other") = "owner" \/ c \in Faulty THEN {"owner data"} ELSE {}
    [] KindOf[c] = "XSS" -> IF c \in Faulty \cup Echoes /\ MethodOf[c] = "GET" THEN {"payload"} ELSE {}
    [] OTHER -> IF c \in Faulty THEN {KindOf[c]} ELSE {}
Turned(c) == IF c \in Refuses THEN {"refusal"} ELSE {}
Usual(page) == PlainOf[page] \cup (IF page \in kept THEN {"payload"} ELSE {})

(* SandboxToolRuntime.execute: curl prints what it got, or nothing.  An    *)
(* application that is starting answers with an error.                     *)
Execute(shows) ==
  CASE app = "up" -> Answer("200", shows)
    [] app = "starting" -> Answer("500", {})
    [] OTHER -> Silence

VerifierInit ==
  /\ probed \in {s \in SUBSET Checks : s # {} /\ Cardinality(s) <= Together}
  /\ app = "up" /\ front \in BOOLEAN /\ kept = {} /\ outages = 0
  /\ at = [c \in Checks |-> IF c \in probed THEN "todo" ELSE "idle"]
  /\ before = [c \in Checks |-> Silence] /\ heard = [c \in Checks |-> Silence]
  /\ steady = [c \in Checks |-> TRUE] /\ trials = [c \in Checks |-> 0]
  /\ found = [c \in Checks |-> Unjudged]

Concludes(c, v) == at' = [at EXCEPT ![c] = "done"] /\ found' = [found EXCEPT ![c] = v]
Goes(c, step) == at' = [at EXCEPT ![c] = step] /\ UNCHANGED found
Noted(c) == steady' = [steady EXCEPT ![c] = @ /\ app = "up"]

(* A check begins.  SessionOf says whether the target asks for a login,    *)
(* how the owner's session is sent ("header", "cookie" or "none"), whether *)
(* the owner's cookie names the owner, and whether another user's header   *)
(* is known.  A type without a verifier, access control for which the *)
(* sessions are missing and SQL injection without a parameter are not      *)
(* tested; a misconfiguration is looked for without a plain request first. *)
Begin(c) ==
  /\ at[c] = "todo"
  /\ trials' = [trials EXCEPT ![c] = @ + 1] /\ steady' = [steady EXCEPT ![c] = TRUE]
  /\ LET s == SessionOf[c]
         untested == \/ KindOf[c] = "none"
                     \/ KindOf[c] = "access" /\ s.needed /\ (s.owner = "none" \/ ~s.other)
                     \/ KindOf[c] = "SQL_INJECTION" /\ c \notin HasParams
     IN \/ untested /\ Concludes(c, Result("NOT_TESTED", FALSE, 0))
        \/ ~untested /\ Goes(c, IF KindOf[c] \in {"SQL_INJECTION", "SECURITY_MISCONFIGURATION"}
                                THEN "probe" ELSE "baseline")
  /\ UNCHANGED <<probed, app, front, kept, before, heard, outages>>

(* The plain request: no answer at all ends the attempt.                   *)
Baseline(c) ==
  /\ at[c] = "baseline" /\ Noted(c)
  /\ \E r \in {Execute(Usual(PageOf[c]))} :
       /\ before' = [before EXCEPT ![c] = r]
       /\ \/ r = Silence /\ Concludes(c, Result("INCONCLUSIVE", TRUE, 0))
          \/ r # Silence /\ Goes(c, "probe")
  /\ UNCHANGED <<probed, app, front, kept, heard, trials, outages>>

-----------------------------------------------------------------------------
(* Judging.                                                                *)

(* The words each verifier takes for proof: what the fault shows, and the  *)
(* word its pattern also matches.                                          *)
Proof(kind) ==
  {kind} \cup (CASE kind = "SSRF" -> {"status"} [] kind = "FILE_UPLOAD" -> {"url"}
                 [] kind = "NOSQL_INJECTION" -> {"welcome"} [] kind = "SECURITY_MISCONFIGURATION" -> {"config"}
                 [] kind = "access" -> {"owner data"} [] kind = "XSS" -> {"payload"} [] OTHER -> {})
Shows(r, kind) == r.code = "200" /\ r.shows \cap Proof(kind) # {}

(* The owner and the other user were both answered, and the other was      *)
(* shown what is the owner's.                                              *)
AccessConfirms(c, r) ==
  /\ before[c].code = "200" /\ r.code = "200"
  /\ SessionOf[c].owner # "none" \/ SessionOf[c].other
  /\ "owner data" \in r.shows /\ "refusal" \notin r.shows
SsrfConfirms(c, r) == Shows(r, "SSRF")
UploadConfirms(c, r) == Shows(r, "FILE_UPLOAD") /\ "refusal" \notin r.shows
(* The probe was let in, and either says so or the plain request was not.  *)
NoSqlConfirms(c, r) ==
  r.code = "200" /\ (Shows(r, "NOSQL_INJECTION") \/ before[c].code \in {"403", "500"} \/ "error" \in before[c].shows)
MisconfigConfirms(c, r) == Shows(r, "SECURITY_MISCONFIGURATION") /\ "refusal" \notin r.shows
Confirms(c, r) ==
  CASE KindOf[c] = "access" -> AccessConfirms(c, r)
    [] KindOf[c] = "SSRF" -> SsrfConfirms(c, r)
    [] KindOf[c] = "FILE_UPLOAD" -> UploadConfirms(c, r)
    [] KindOf[c] = "NOSQL_INJECTION" -> NoSqlConfirms(c, r)
    [] OTHER -> MisconfigConfirms(c, r)
Techniques(c) == IF KindOf[c] = "FILE_UPLOAD" THEN 3 ELSE 2

(* What is read from sqlmap's output: an injection point outweighs every   *)
(* line of trouble beside it.                                              *)
Parsed(text) ==
  IF "injection" \in text THEN text \ {"ruled out", "no parameters", "login", "connection", "crash"}
  ELSE text \ ((IF "login" \in text THEN {"connection", "crash"} ELSE {})
               \cup (IF "ruled out" \in text THEN {"no parameters"} ELSE {})
               \cup (IF \/ "connection" \in text
                         \/ ("no parameters" \in text /\ "ruled out" \notin text) THEN {"crash"} ELSE {}))
Reached(text) == text \cap {"injection", "ruled out", "login"} # {}
SqlVerdict(text) ==
  LET p == Parsed(text) IN
  CASE "killed" \in p -> <<"FAILED", TRUE>>
    [] "missing" \in p -> <<"FAILED", FALSE>>
    [] p \cap {"login", "no parameters"} # {} -> <<"NOT_TESTED", FALSE>>
    [] "connection" \in p -> <<"INCONCLUSIVE", TRUE>>
    [] "crash" \in p \/ ("exit" \in p /\ ~Reached(p)) -> <<"FAILED", TRUE>>
    [] "injection" \in p -> <<"CONFIRMED", FALSE>>
    [] "ruled out" \in p -> <<"NOT_CONFIRMED", FALSE>>
    [] OTHER -> <<"INCONCLUSIVE", FALSE>>
(* Lines that name a technique count whatever the verdict; a payload stands *)
(* for one in a confirmation that names none.                              *)
Reproduced(text) ==
  LET unnamed == SqlVerdict(text)[1] = "CONFIRMED" /\ "payload" \in text IN
  IF "techniques" \in text THEN 2 ELSE IF "technique" \in text \/ unnamed THEN 1 ELSE 0
SqlOutcome(c, text) ==
  LET p == Parsed(text) IN
  Result(SqlVerdict(text)[1], SqlVerdict(text)[2],
          Score(SqlVerdict(text)[1] = "CONFIRMED", Reproduced(text), "database" \in p, Reached(p), CorrelationOf[c]))

(* sqlmap runs to its end against the endpoint: what it prints depends on  *)
(* whether it reached it and on whether there is something to find.        *)
RunSqlMap(c) ==
  /\ at[c] = "probe" /\ KindOf[c] = "SQL_INJECTION" /\ Noted(c)
  /\ \E text \in IF app = "up" THEN {t \in SqlTexts : /\ "injection" \in t => c \in Faulty
                                                      /\ "ruled out" \in t => c \notin Faulty}
                 ELSE {{"connection", "crash"}} :
       Concludes(c, SqlOutcome(c, text))
  /\ UNCHANGED <<probed, app, front, kept, before, heard, trials, outages>>

(* The probe of a verifier that judges by its answer.                      *)
Probe(c) ==
  /\ at[c] = "probe" /\ KindOf[c] \notin {"SQL_INJECTION", "XSS"} /\ Noted(c)
  /\ \E r \in {Execute(Usual(PageOf[c]) \cup Telling(c) \cup Turned(c))} :
       heard' = [heard EXCEPT ![c] = r] /\ Concludes(c, Judged(c, Confirms(c, r), Techniques(c)))
  /\ UNCHANGED <<probed, app, front, kept, before, trials, outages>>

(* XSS: an answer with the payload in HTML.  An answer without it is       *)
(* followed by a plain GET of the page, in case it was kept; with it but   *)
(* not HTML, by one of the application's own page.                         *)
Html(r) == "html" \in r.shows
(* The variant that does not ask for HTML.                                 *)
HearsAnyPayload(c, r, next) ==
  /\ heard' = [heard EXCEPT ![c] = r]
  /\ IF "payload" \notin r.shows /\ next = "clean" THEN Goes(c, "clean")
     ELSE Concludes(c, Judged(c, "payload" \in r.shows, 2))
HearXss(c, r, next) ==
  /\ heard' = [heard EXCEPT ![c] = r]
  /\ CASE "payload" \notin r.shows /\ next = "clean" -> Goes(c, "clean")
       [] "payload" \in r.shows /\ ~Html(r) -> Goes(c, "front")
       [] OTHER -> Concludes(c, Judged(c, Html(r) /\ "payload" \in r.shows, 2))

ProbeXss(c) ==
  /\ at[c] = "probe" /\ KindOf[c] = "XSS" /\ Noted(c)
  /\ kept' = IF app = "up" /\ MethodOf[c] = "POST" /\ PageOf[c] \in Keeping THEN kept \cup {PageOf[c]} ELSE kept
  /\ \E r \in {Execute((IF c \in Echoes THEN {} ELSE PlainOf[PageOf[c]]) \cup Telling(c)
                        \cup (IF MethodOf[c] = "GET" /\ PageOf[c] \in kept THEN {"payload"} ELSE {}))} :
       HearXss(c, r, "clean")
  /\ UNCHANGED <<probed, app, front, before, trials, outages>>

ReadBack(c) ==
  /\ at[c] = "clean" /\ Noted(c)
  /\ \E r \in {Execute(Usual(PageOf[c]))} :
       HearXss(c, IF "payload" \in r.shows THEN r ELSE heard[c], "judge")
  /\ UNCHANGED <<probed, app, front, kept, before, trials, outages>>

AskFront(c) ==
  /\ at[c] = "front" /\ Noted(c)
  /\ Concludes(c, Judged(c, app = "up" /\ front, 2))
  /\ UNCHANGED <<probed, app, front, kept, before, heard, trials, outages>>

-----------------------------------------------------------------------------
(* The attempt loop's part: an execution that throws, a lookup of the      *)
(* sandbox that finds it gone, ends the attempt; a verdict that may pass   *)
(* is asked for again.                                                     *)
ExecuteThrows(c) ==
  /\ at[c] \in {"baseline", "probe", "clean"} /\ outages < MaxOutages
  /\ outages' = outages + 1 /\ steady' = [steady EXCEPT ![c] = FALSE]
  /\ Concludes(c, Result("FAILED", TRUE, 0))
  /\ UNCHANGED <<probed, app, front, kept, before, heard, trials>>

(* Only the look at the application's own page is allowed to fail.         *)
FrontThrows(c) ==
  /\ at[c] = "front" /\ outages < MaxOutages
  /\ outages' = outages + 1 /\ steady' = [steady EXCEPT ![c] = FALSE]
  /\ Concludes(c, Judged(c, FALSE, 2))
  /\ UNCHANGED <<probed, app, front, kept, before, heard, trials>>

TryAgain(c) ==
  /\ at[c] = "done" /\ found[c].retryable /\ trials[c] < MaxTries
  /\ Goes(c, "todo")
  /\ UNCHANGED <<probed, app, front, kept, before, heard, steady, trials, outages>>

(* The application goes down, comes up again, or is long in starting.      *)
AppTurns ==
  /\ \E c \in probed : at[c] # "done"
  /\ \/ outages < MaxOutages /\ app' \in {"starting", "down"} \ {app} /\ outages' = outages + 1
     \/ app # "up" /\ app' = "up" /\ UNCHANGED outages
  /\ UNCHANGED <<probed, front, kept, at, before, heard, steady, trials, found>>

VerifierStep(c) ==
  \/ Begin(c) \/ Baseline(c) \/ RunSqlMap(c) \/ Probe(c) \/ ProbeXss(c) \/ ReadBack(c) \/ AskFront(c)
  \/ ExecuteThrows(c) \/ FrontThrows(c) \/ TryAgain(c)
VerifierNext == AppTurns \/ \E c \in probed : VerifierStep(c)
VerifierSpec == VerifierInit /\ [][VerifierNext]_verifierVars

-----------------------------------------------------------------------------
Settled(c) == at[c] = "done" /\ ~(found[c].retryable /\ trials[c] < MaxTries)

(* Types of the variables.                                                 *)
VerifierTypeOK ==
  /\ probed \subseteq Checks /\ app \in {"up", "starting", "down"} /\ front \in BOOLEAN
  /\ kept \subseteq Keeping /\ at \in [Checks -> Steps] /\ steady \in [Checks -> BOOLEAN]
  /\ \A c \in Checks : before[c].code \in Codes /\ heard[c].code \in Codes
  /\ trials \in [Checks -> 0..MaxTries] /\ outages \in 0..MaxOutages
  /\ \A c \in Checks : found[c].status \in Statuses /\ found[c].score \in 0..100

(* A payload sent to a page comes back when it is repeated or kept there,  *)
(* and does harm where it is HTML: in a page that is, or in data that the  *)
(* application's own page shows.                                           *)
ComesBack(c) ==
  IF MethodOf[c] = "GET" THEN c \in Faulty \cup Echoes ELSE MethodOf[c] = "POST" /\ PageOf[c] \in Keeping
InHtml(c) == "html" \in PlainOf[PageOf[c]] /\ (MethodOf[c] = "GET" => c \notin Echoes)

(* The endpoint of a check has what the check looks for.                   *)
Real(c) == IF KindOf[c] = "XSS" THEN ComesBack(c) /\ (front \/ InHtml(c)) ELSE c \in Faulty

(* The four ways an endpoint without the fault is confirmed all the same:  *)
(* another check's payload on the same page, a plain request that met an   *)
(* error of another cause, a "second user" with the owner's cookie, and a  *)
(* usual answer with a word the verifier takes for proof.                  *)
Mistaken(c) ==
  \/ KindOf[c] = "XSS" /\ PageOf[c] \in kept
  \/ KindOf[c] = "NOSQL_INJECTION" /\ (before[c].code = "500" \/ "error" \in before[c].shows)
  \/ KindOf[c] = "access" /\ Identity(c, "other") = "owner"
  \/ PlainOf[PageOf[c]] \cap Proof(KindOf[c]) # {}

(* The two ways a fault is tested and not seen: words that sound like a    *)
(* refusal beside it, and access control asked about without any session.  *)
Overlooked(c) ==
  \/ /\ KindOf[c] \in {"access", "FILE_UPLOAD", "SECURITY_MISCONFIGURATION"}
     /\ "refusal" \in Turned(c) \cup PlainOf[PageOf[c]]
  \/ KindOf[c] = "access" /\ SessionOf[c].owner = "none" /\ ~SessionOf[c].other

(* A verdict fits the endpoint however the checks, and the failures of the *)
(* application, fall between one another.  Confirmed is only what is real  *)
(* or mistaken in a known way, and not confirmed, when the application was *)
(* up all through, is not real unless it was overlooked.  A check left     *)
(* open saw trouble, or sqlmap gave no verdict.  A confirmation scores     *)
(* higher than any other outcome, sqlmap's apart, which counts what it     *)
(* read before it was killed.                                              *)
Fits(c) ==
  /\ found[c].status = "CONFIRMED" => Real(c) \/ Mistaken(c)
  /\ found[c].status = "NOT_CONFIRMED" /\ steady[c] => ~Real(c) \/ Overlooked(c)
  /\ found[c].status \in {"INCONCLUSIVE", "FAILED"} => ~steady[c] \/ KindOf[c] = "SQL_INJECTION"
  /\ KindOf[c] # "SQL_INJECTION" => (found[c].score > 50 <=> found[c].status = "CONFIRMED")
VerdictsFit == \A c \in probed : at[c] = "done" => Fits(c)
=============================================================================
