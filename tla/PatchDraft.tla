------------------------------ MODULE PatchDraft ------------------------------
(***************************************************************************)
(* The text of one patch on its way from the file the Engineer is shown to *)
(* the file the Critic tests: the choice of the finding (engineer-         *)
(* selection.ts and prisma-confirmed-finding-source.ts), the window that   *)
(* is read, the answer of the model and its validation, the diff built     *)
(* from it, the two security gates, the application of the diff, and the   *)
(* build and the tests that look at the result.  The calls to the model    *)
(* are RemediationLoop's and the rest of the review is PatchReview's.      *)
(***************************************************************************)
EXTENDS Integers, Sequences, FiniteSets, SequencesExt

CONSTANTS Exploits,      \* the rows of the Sniper, as records
          Sources,       \* texts the vulnerable file may have: sequences of lines
          NewLines,      \* lines an answer may add
          Secrets,       \* lines the Engineer's gate takes for a credential
          Leaks,         \* lines the review takes for one
          Commands,      \* lines that look like a call of a shell
          SignalsOf,     \* vulnerability type -> lines that look like its remediation
          Unsafe,        \* paths that leave the repository
          Unsupported,   \* paths of binaries, lock files and build output
          Manifests,     \* dependency manifests the review recognises
          LanguageOf,    \* the other paths -> "python", "js" or "other"
          Window,        \* lines shown on each side of the finding
          MaxLines,      \* most lines shown
          Context,       \* lines of context in a diff (three)
          MaxDiff,       \* longest diff, in lines
          MaxFiles,      \* most files in a diff
          MaxAssumptions, \* most assumptions in an answer
          MaxSigns       \* bound on the signs of test suites in one repository

(* Two texts are set aside: the line of a diff that the file does not      *)
(* have, and what stands for a diff that does not apply.                   *)
ASSUME DraftAssumption ==
  /\ Sources \subseteq Seq(STRING \ {"unseen", "a conflict"}) /\ NewLines \subseteq STRING \ {"a conflict"}
  /\ \A x \in Exploits : x.line \in Nat
  /\ Window \in Nat /\ MaxLines \in Nat /\ Context \in Nat \ {0}

VARIABLES stage,   \* how far the draft has come
          codeFile,  \* the file in the repository
          target,  \* the finding chosen
          excerpt,   \* the lines the model is shown, and the number of the first
          answer,  \* what the model answered
          patchRow,   \* the Patch row
          patchedFile,    \* the file in the sandbox of the review
          tests    \* the suites of the repository, what was seen of them, run and said

draftVars == <<stage, codeFile, target, excerpt, answer, patchRow, patchedFile, tests>>

Missing == "none"
NoDiff == [headers |-> FALSE, prefixed |-> FALSE, files |-> {}, hunks |-> <<>>]
NoRow == [status |-> Missing, file |-> Missing, diff |-> NoDiff]
NoTests == [suites |-> {}, seen |-> {}, ran |-> Missing, result |-> Missing]
NoAnswer == [status |-> Missing]
Unchosen == [status |-> Missing]
DraftPaths == DOMAIN LanguageOf \cup Unsafe \cup Unsupported

-----------------------------------------------------------------------------
(* The finding.                                                            *)
Repaired == {"SQL_INJECTION", "SECURITY_MISCONFIGURATION", "XSS", "BROKEN_ACCESS_CONTROL"}
Rank == [s \in {"CRITICAL", "HIGH", "MEDIUM", "LOW", "INFO"} |->
  CASE s = "CRITICAL" -> 5 [] s = "HIGH" -> 4 [] s = "MEDIUM" -> 3 [] s = "LOW" -> 2 [] OTHER -> 1]

ConfirmedRows == {x \in Exploits : x.status = "CONFIRMED" /\ x.type \in Repaired}
(* The order of the candidates; rows of one vulnerability come newest first. *)
Before(x, y) ==
  LET key(z) == <<Rank[z.severity], z.confidence, z.depth, z.older, z.at>>
      differs == {i \in 1..5 : key(x)[i] # key(y)[i]}
  IN differs # {} /\ LET i == CHOOSE i \in differs : \A j \in differs : i <= j IN key(x)[i] > key(y)[i]
Chosen(request) ==
  LET named == {x \in ConfirmedRows : x.vulnerability = request}
      linked == {x \in ConfirmedRows : x.vulnerability # Missing}
  IN IF request # Missing THEN {x \in named : \A y \in named : y.at <= x.at}
     ELSE {x \in linked : \A y \in linked \ {x} : Before(x, y)}

ChooseFinding(request) ==
  /\ stage = "idle"
  /\ \/ \E x \in Chosen(request) : target' = x /\ stage' = "chosen"
     \/ Chosen(request) = {} /\ stage' = "failed" /\ UNCHANGED target
  /\ UNCHANGED <<codeFile, excerpt, answer, patchRow, patchedFile, tests>>

-----------------------------------------------------------------------------
(* The window around its line, from the first line when it has none.       *)
Least(a, b) == IF a <= b THEN a ELSE b
ResolveWindow(line) ==
  LET most == IF MaxLines < Window THEN Window ELSE MaxLines
      from == IF line <= Window THEN 1 ELSE line - Window
      to == IF line = 0 THEN most ELSE line + Window
  IN [from |-> from, to |-> Least(to, from + most - 1)]
Slice(lines, w) ==
  LET to == Least(Len(lines), w.to)
      kept == SubSeq(lines, w.from, to)
  IN [from |-> w.from, lines |-> SubSeq(kept, 1, Least(Len(kept), MaxLines))]

RejectDraft == patchRow' = [NoRow EXCEPT !.status = "REJECTED"] /\ stage' = "rejected"
ReadExcerpt ==
  /\ stage = "chosen"
  /\ \/ target.file \notin Unsafe \cup Unsupported /\ excerpt' = Slice(codeFile, ResolveWindow(target.line))
        /\ stage' = "read" /\ UNCHANGED patchRow
     \/ RejectDraft /\ UNCHANGED excerpt    \* not found, not supported, too large, or the sandbox failed
  /\ UNCHANGED <<codeFile, target, answer, patchedFile, tests>>

-----------------------------------------------------------------------------
(* The diff built from the code before and after: the lines that differ,   *)
(* counted from the first line of the code that was quoted.                *)
Marked(mark, lines) == [i \in DOMAIN lines |-> [mark |-> mark, line |-> lines[i]]]
Unmarked(body, marks) ==
  LET kept[n \in 0..Len(body)] ==
        IF n = 0 THEN <<>>
        ELSE kept[n - 1] \o IF body[n].mark \in marks THEN <<body[n].line>> ELSE <<>>
  IN kept[Len(body)]
Hunk(start, before, removed, added, after) ==
  [start |-> start, olds |-> Len(before \o removed \o after), news |-> Len(before \o added \o after),
   body |-> Marked(" ", before) \o Marked("-", removed) \o Marked("+", added) \o Marked(" ", after)]

Longest(S) == CHOOSE n \in S : \A m \in S : m <= n
CommonPrefix(o, p) == Longest({n \in 0..Least(Len(o), Len(p)) : SubSeq(o, 1, n) = SubSeq(p, 1, n)})
CommonSuffix(o, p, prefix) ==
  Longest({n \in 0..(Least(Len(o), Len(p)) - prefix) :
             SubSeq(o, Len(o) - n + 1, Len(o)) = SubSeq(p, Len(p) - n + 1, Len(p))})
DiffWith(file, o, p, first) ==
  LET prefix == CommonPrefix(o, p)
      suffix == CommonSuffix(o, p, prefix)
      from == IF prefix <= Context THEN 0 ELSE prefix - Context
      until == Least(Len(o), Len(o) - suffix + Context)
  IN [headers |-> TRUE, prefixed |-> TRUE, files |-> {file},
      hunks |-> <<Hunk(from + first, SubSeq(o, from + 1, prefix), SubSeq(o, prefix + 1, Len(o) - suffix),
                       SubSeq(p, prefix + 1, Len(p) - suffix), SubSeq(o, Len(o) - suffix + 1, until))>>]
BuildUnifiedDiff(file, o, p) == DiffWith(file, o, p, 1)
DiffOf(a) == IF a.quoted THEN BuildUnifiedDiff(a.file, a.original, a.patched) ELSE a.own

-----------------------------------------------------------------------------
(* Answers of the model: a part of what it was shown with a line changed,  *)
(* added or removed, with or without a newline at its end; or a diff of    *)
(* its own, in which one line or two get a line after them, numbered as in *)
(* the file or one too high, or without the line before; or one of these   *)
(* with something wrong.  The last fields are for the property alone: the  *)
(* file the answer means, and how far the numbers of its diff are from     *)
(* those of the file.                                                      *)
Edits(o) ==
  {[o EXCEPT ![i] = l] : i \in DOMAIN o, l \in NewLines} \cup {RemoveAt(o, i) : i \in DOMAIN o}
  \cup {InsertAt(o, i, l) : i \in 1..(Len(o) + 1), l \in NewLines}
Proposal(o, p, own, meant, shift) ==
  [wrapped |-> "plain", status |-> "GENERATED", vulnerability |-> target.vulnerability, file |-> target.file,
   quoted |-> own = NoDiff, original |-> o, patched |-> p, own |-> own, explanation |-> "plain", remediation |-> TRUE,
   reason |-> FALSE, assumptions |-> 0, meant |-> meant, shift |-> shift]
LineAt(i) == excerpt.from + i - 1
Quote(i, o, p, end) ==
  Proposal(o \o end, p \o end, NoDiff, SubSeq(codeFile, 1, LineAt(i) - 1) \o p \o SubSeq(codeFile, LineAt(i) + Len(o), Len(codeFile)), LineAt(i) - 1)
LineEnds == {<<>>, <<"">>}
QuotesOf(i, o) == {Quote(i, o, p, e) : p \in Edits(o), e \in LineEnds}
Quotes ==
  UNION {UNION {QuotesOf(i, SubSeq(excerpt.lines, i, j)) : j \in i..Len(excerpt.lines)} : i \in DOMAIN excerpt.lines}
LineAfter(i, l, off) == Hunk(LineAt(i) + off, <<excerpt.lines[i]>>, <<>>, <<l>>, <<>>)
BareLineAfter(i, l) == Hunk(LineAt(i), <<>>, <<>>, <<l>>, <<>>)
Own(hunks, meant, shift) ==
  Proposal(<<>>, <<>>, [headers |-> TRUE, prefixed |-> TRUE, files |-> {target.file}, hunks |-> hunks], meant, shift)
With(lines, i, l) == InsertAt(lines, LineAt(i) + 1, l)
Owns ==
  {Own(<<LineAfter(i, l, off)>>, With(codeFile, i, l), -off) : i \in DOMAIN excerpt.lines, l \in NewLines, off \in {0, 1}}
  \cup {Own(<<BareLineAfter(i, l)>>, With(codeFile, i, l), 1) : i \in DOMAIN excerpt.lines, l \in NewLines}
  \cup {Own(<<LineAfter(p[1], l, 0), LineAfter(p[2], l, 0)>>, With(With(codeFile, p[2], l), p[1], l), 0) :
          p \in {q \in (DOMAIN excerpt.lines) \X (DOMAIN excerpt.lines) : q[1] < q[2]}, l \in NewLines}
Flawed(a) ==
  {[a EXCEPT !.wrapped = w] : w \in {"fenced", "prose", "raw newlines", "broken"}}
  \cup {[a EXCEPT !.status = s] : s \in {"REJECTED", "DONE"}} \cup {[a EXCEPT !.vulnerability = "other"]}
  \cup {[a EXCEPT !.file = f] : f \in DraftPaths \cup {Missing}} \cup {[a EXCEPT !.patched = a.original]}
  \cup {[a EXCEPT !.explanation = e] : e \in {"absent", "too long", "secret", "command", "applied"}}
  \cup {[a EXCEPT !.remediation = FALSE], [a EXCEPT !.assumptions = MaxAssumptions + 1], [a EXCEPT !.quoted = FALSE]}
  \cup {[a EXCEPT !.status = "REJECTED", !.file = Missing, !.quoted = FALSE, !.reason = r] : r \in BOOLEAN}
FlawedHunks(h) ==
  LET more == [h EXCEPT !.olds = @ + 1]
  IN {more, [h EXCEPT !.body = <<[mark |-> "", line |-> ""]>> \o @],
      [more EXCEPT !.body = <<[mark |-> " ", line |-> "unseen"]>> \o @, !.news = @ + 1]}
FlawedDiffs(a) ==
  LET d == a.own IN {[a EXCEPT !.own = w] : w \in
    {[d EXCEPT !.headers = FALSE], [d EXCEPT !.prefixed = FALSE], [d EXCEPT !.files = {}], [d EXCEPT !.files = @ \cup {"other.py"}]}
    \cup {[d EXCEPT !.hunks = <<h>>] : h \in FlawedHunks(d.hunks[1])}}
Answers ==
  Quotes \cup Owns \cup (IF Quotes = {} THEN {} ELSE Flawed(CHOOSE a \in Quotes : TRUE))
  \cup (IF Owns = {} THEN {} ELSE FlawedDiffs(CHOOSE a \in Owns : Len(a.own.hunks) = 1))

Ask ==
  /\ stage = "read"
  /\ \/ \E a \in Answers : answer' = a /\ stage' = "answered"
     \/ stage' = "failed" /\ UNCHANGED answer      \* a template is missing or no provider answers
  /\ UNCHANGED <<codeFile, target, excerpt, patchRow, patchedFile, tests>>

-----------------------------------------------------------------------------
(* Validation, and the Engineer's gate.                                    *)
Parses(a) == a.wrapped # "broken"
Empty(lines) == \A i \in DOMAIN lines : lines[i] = ""
Body(d) == FlattenSeq([i \in DOMAIN d.hunks |-> d.hunks[i].body])
ShapeHolds(d) ==
  /\ Len(Body(d)) <= MaxDiff /\ d.headers /\ d.hunks # <<>> /\ d.files # {} /\ Cardinality(d.files) <= MaxFiles
  /\ d.files \cap (Unsafe \cup Unsupported) = {}
Valid(a) ==
  /\ Parses(a) /\ a.status \in {"GENERATED", "REJECTED"} /\ a.vulnerability = target.vulnerability
  /\ a.assumptions <= MaxAssumptions
  /\ a.status = "REJECTED" => (a.reason \/ a.explanation # "absent") /\ a.file = Missing /\ a.own = NoDiff
  /\ a.status = "GENERATED" =>
       /\ a.explanation \notin {"absent", "too long"} /\ a.remediation
       /\ a.file \notin Unsafe \cup Unsupported /\ a.file = target.file
       /\ a.quoted => ~Empty(a.original) /\ ~Empty(a.patched) /\ a.original # a.patched
       /\ ShapeHolds(DiffOf(a)) /\ DiffOf(a).files \subseteq {a.file}
(* The gate reads the lines the diff removes and keeps as well.            *)
GateLetsPass(a) ==
  /\ \A i \in DOMAIN Body(DiffOf(a)) : Body(DiffOf(a))[i].line \notin Secrets \cup Commands
  /\ a.explanation \notin {"secret", "command", "applied"} /\ excerpt.lines # <<>>

SettleDraft ==
  /\ stage = "answered"
  /\ \/ ~Valid(answer) /\ stage' = "failed" /\ answer' = NoAnswer /\ UNCHANGED patchRow
     \/ Valid(answer) /\ RejectDraft /\ answer' = NoAnswer    \* the model declined, or the checklist is missing
     \/ /\ Valid(answer) /\ answer.status = "GENERATED"
        /\ IF GateLetsPass(answer)
           THEN /\ patchRow' = [status |-> "GENERATED", file |-> answer.file, diff |-> DiffOf(answer)]
                /\ stage' = "drafted" /\ UNCHANGED answer
           ELSE RejectDraft /\ answer' = NoAnswer
  /\ UNCHANGED <<codeFile, target, excerpt, patchedFile, tests>>

-----------------------------------------------------------------------------
(* The Critic applies the diff to the file in a sandbox of its own.        *)
ParsedHunk(h) == [start |-> h.start, olds |-> h.olds, news |-> h.news,
                  old |-> Unmarked(h.body, {" ", "-"}), new |-> Unmarked(h.body, {" ", "+"})]
ParseUnifiedHunks(d) == [i \in DOMAIN d.hunks |-> ParsedHunk(d.hunks[i])]
Parsable(d) == \A i \in DOMAIN d.hunks :
  LET h == ParsedHunk(d.hunks[i]) IN Len(h.old) = h.olds /\ Len(h.new) = h.news
StandsAt(lines, old, at) == at >= 1 /\ at + Len(old) - 1 <= Len(lines) /\ SubSeq(lines, at, at + Len(old) - 1) = old
Stands(lines, old) == {at \in 1..Len(lines) + 1 : StandsAt(lines, old, at)}
Conflict == <<"a conflict">>
(* Where its header says, or else the first place with the same lines.     *)
ApplyHunk(lines, h) ==
  LET places == IF StandsAt(lines, h.old, h.start) THEN {h.start} ELSE Stands(lines, h.old)
      at == CHOOSE p \in places : \A q \in places : p <= q
  IN IF lines = Conflict \/ places = {} THEN Conflict
     ELSE SubSeq(lines, 1, at - 1) \o h.new \o SubSeq(lines, at + Len(h.old), Len(lines))
(* The last hunk first: the numbers of the others are those of the base.   *)
LastFirst(hunks) ==
  CHOOSE order \in [DOMAIN hunks -> DOMAIN hunks] : \A j, k \in DOMAIN hunks : j < k =>
    \/ hunks[order[j]].start > hunks[order[k]].start
    \/ hunks[order[j]].start = hunks[order[k]].start /\ order[j] < order[k]
ApplyInTurn(lines, hunks, order) ==
  LET after[k \in 0..Len(hunks)] == IF k = 0 THEN lines ELSE ApplyHunk(after[k - 1], hunks[order[k]])
  IN after[Len(hunks)]
AppliesForwards(lines, d) ==
  LET hunks == ParseUnifiedHunks(d) IN ApplyInTurn(lines, hunks, Reverse(LastFirst(hunks)))
ApplyUnifiedDiff(lines, d) == LET hunks == ParseUnifiedHunks(d) IN ApplyInTurn(lines, hunks, LastFirst(hunks))

RejectPatch == patchRow' = [patchRow EXCEPT !.status = "REJECTED"]
ApplyPatch ==
  /\ stage = "drafted"
  /\ IF Parsable(patchRow.diff) /\ ApplyUnifiedDiff(codeFile, patchRow.diff) # Conflict
     THEN patchedFile' = ApplyUnifiedDiff(codeFile, patchRow.diff) /\ stage' = "applied" /\ UNCHANGED patchRow
     ELSE stage' = "conflict" /\ RejectPatch /\ UNCHANGED patchedFile
  /\ UNCHANGED <<codeFile, target, excerpt, answer, tests>>

-----------------------------------------------------------------------------
(* Build and tests in the sandbox.                                         *)
BuildCheck(file) == IF LanguageOf[file] = "other" THEN {"NOT_AVAILABLE"} ELSE {"PASSED", "FAILED"}
Build ==
  /\ stage = "applied"
  /\ \E r \in BuildCheck(patchRow.file) :
       IF r = "FAILED" THEN stage' = "unbuilt" /\ RejectPatch ELSE stage' = "built" /\ UNCHANGED patchRow
  /\ UNCHANGED <<codeFile, target, excerpt, answer, patchedFile, tests>>

SuiteSigns == {"pytest.ini", "conftest.py", "pyproject section", "test script"}
SuiteRun(signs) == IF signs \ {"test script"} # {} THEN "pytest" ELSE IF signs # {} THEN "npm" ELSE Missing
(* A lookup that fails in the sandbox is taken for a sign that is absent.  *)
RunTests ==
  /\ stage = "built"
  /\ \E suites \in SUBSET SuiteSigns : \E seen \in SUBSET suites :
       \E r \in IF SuiteRun(seen) = Missing THEN {"NOT_AVAILABLE"} ELSE {"PASSED", "FAILED"} :
         /\ Cardinality(suites) <= MaxSigns /\ Cardinality(suites \ seen) <= 1
         /\ tests' = [suites |-> suites, seen |-> seen, ran |-> SuiteRun(seen), result |-> r]
         /\ IF r = "FAILED" THEN stage' = "untested" /\ RejectPatch ELSE stage' = "tested" /\ UNCHANGED patchRow
  /\ UNCHANGED <<codeFile, target, excerpt, answer, patchedFile>>

(* The checklist of the review; the model's advice changes nothing.        *)
AddedLines(d) == LET added == Unmarked(Body(d), {"+"}) IN {added[i] : i \in DOMAIN added}
ReviewLetsPass(d) ==
  /\ d.prefixed /\ Cardinality(d.files) = 1
  /\ AddedLines(d) \cap (Leaks \cup Commands) = {} /\ patchRow.file \notin Manifests
  /\ AddedLines(d) \cap SignalsOf[target.type] # {}
JudgePatch ==
  /\ stage = "tested"
  /\ IF ReviewLetsPass(patchRow.diff) THEN stage' = "approved" /\ patchRow' = [patchRow EXCEPT !.status = "APPROVED"]
     ELSE stage' = "unsafe" /\ RejectPatch
  /\ UNCHANGED <<codeFile, target, excerpt, answer, patchedFile, tests>>

DraftInit ==
  /\ stage = "idle" /\ codeFile \in Sources /\ target = Unchosen /\ excerpt = [from |-> 1, lines |-> <<>>]
  /\ answer = NoAnswer /\ patchRow = NoRow /\ patchedFile = <<>> /\ tests = NoTests
DraftNext ==
  \/ \E r \in {x.vulnerability : x \in Exploits} \cup {Missing} : ChooseFinding(r)
  \/ ReadExcerpt \/ Ask \/ SettleDraft \/ ApplyPatch \/ Build \/ RunTests \/ JudgePatch

DraftSpec == DraftInit /\ [][DraftNext]_draftVars

-----------------------------------------------------------------------------
(* Types of the variables.                                                 *)
DraftTypeOK ==
  /\ stage \in {"idle", "chosen", "failed", "read", "rejected", "answered", "drafted", "applied", "conflict", "built", "unbuilt",
                "tested", "untested", "approved", "unsafe"}
  /\ codeFile \in Sources /\ target \in Exploits \cup {Unchosen} /\ Len(excerpt.lines) <= MaxLines
  /\ patchRow.status \in {Missing, "GENERATED", "REJECTED", "APPROVED"} /\ tests.seen \subseteq tests.suites

Lines(t) == {t[i] : i \in DOMAIN t}
(* A diff that is applied changes the file as the answer that it was built *)
(* from means, whatever was quoted and however the file repeats itself, if *)
(* the lines of each hunk stand where its numbers say, or only in the      *)
(* place that is meant; code quoted from a file that has it always         *)
(* applies, however little of it and whatever the numbers.  What is        *)
(* approved adds no line that looks like a credential or a shell and one   *)
(* that looks like the remediation, and its tests passed, if the           *)
(* repository has any that one failed lookup did not hide.                 *)
PatchLands ==
  /\ patchedFile # <<>> =>
       \/ patchedFile = answer.meant
       \/ \E h \in Lines(ParseUnifiedHunks(patchRow.diff)) :
            /\ answer.shift # 0 \/ ~StandsAt(codeFile, h.old, h.start)
            /\ Stands(codeFile, h.old) # {h.start + answer.shift}
  /\ stage = "conflict" /\ answer.quoted => Stands(codeFile, answer.original) = {}
  /\ stage = "approved" =>
       /\ Lines(patchedFile) \ Lines(codeFile) \subseteq NewLines \ (Secrets \cup Leaks \cup Commands)
       /\ Lines(patchedFile) \cap SignalsOf[target.type] # {}
       /\ Cardinality(tests.suites) > 1 => tests.result = "PASSED"
       /\ Cardinality(tests.suites \ {"test script"}) > 1 => tests.ran = "pytest"
=============================================================================
