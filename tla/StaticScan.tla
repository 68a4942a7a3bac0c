------------------------------ MODULE StaticScan ------------------------------
(***************************************************************************)
(* A static scan in the classic composition: ScanService.startStaticScan() *)
(* and runStaticScan() over the analysis of the repository, the scanners   *)
(* that apply to it, KeyedFindingDeduplicator and PrismaScanRepository.    *)
(* Scanners run one after the other in the working tree of the analysis;   *)
(* every run of one and every statement of the database is a step.         *)
(***************************************************************************)
EXTENDS RepositoryProfile

CONSTANTS StaticScans,   \* the analyses begun by startStaticScan
          Scanners,      \* the registry, in order
          IdRank,        \* per scanner: the rank of its id in the order of strings
          AppliesTo,     \* per scanner: [kind, name] of what the profile has to show
          Reports,       \* per scanner: the findings its tool reports on the repository
          UsualConfidence, \* per scanner: the confidence of a report that gives none (0)
          SeverityOf,    \* per severity of a tool: 0 (INFO) to 4 (CRITICAL)
          SeverityThreshold

ASSUME StaticAssumption ==
  /\ StaticScans \subseteq Analyses /\ SeverityThreshold \in 0..4
  /\ IdRank \in [ToSet(Scanners) -> Nat] /\ IsInjective(IdRank)
  /\ \A s \in ToSet(Scanners) : \A f \in ToSet(Reports[s]) : f.severity \in DOMAIN SeverityOf

(* Languages are told by the extensions of files alone (languages.ts), and  *)
(* a scanner that goes by a manifest goes by one that is looked for.        *)
ASSUME ScannersAssumption ==
  /\ Scanners \in Seq(ToSet(Scanners))
  /\ \A s \in ToSet(Scanners) :
       /\ AppliesTo[s].kind = "language" =>
            \A x \in ToSet(Signals) : x.name = AppliesTo[s].name => \A f \in x.facts : f[1] = "ext"
       /\ AppliesTo[s].kind # "language" => AppliesTo[s].name \in ToSet(Manifests)
       /\ Reports[s] \in Seq(ToSet(Reports[s])) /\ UsualConfidence[s] \in Nat
       /\ \A f \in ToSet(Reports[s]) : f.confidence \in Nat

VARIABLES staticPc,    \* per scan: what it awaits
          answeredRow, \* per scan: the row whose id the caller of startStaticScan gets
          workedRow,   \* per scan: the row of runStaticScan
          runs,        \* per scan: the scanner runs so far
          savedRows,   \* per scan: the rows of Vulnerability
          staticSaid   \* per scan: its events

staticVars == <<profileVars, staticPc, answeredRow, workedRow, runs, savedRows, staticSaid>>
scanVars == <<answeredRow, workedRow, runs, savedRows, staticSaid>>

StaticPC == {"idle", "answer", "prepare", "create", "mark", "scan", "repository", "link", "findings",
             "finish", "failing", "closing", "over", "refused"}

StaticInit ==
  /\ ProfileInit /\ staticPc = [a \in StaticScans |-> "idle"]
  /\ answeredRow = [a \in StaticScans |-> "none"] /\ workedRow = [a \in StaticScans |-> "none"]
  /\ runs = [a \in StaticScans |-> <<>>] /\ savedRows = [a \in StaticScans |-> <<>>]
  /\ staticSaid = [a \in StaticScans |-> <<>>]

Scanning(a, from, to) == staticPc[a] = from /\ staticPc' = [staticPc EXCEPT ![a] = to]
SaysOfScan(a, events) == staticSaid' = [staticSaid EXCEPT ![a] = @ \o events]
Unprofiled == UNCHANGED <<analysisPc, stampOf, trees, checkout, profiles, guardIndex>>
StaticFine == UNCHANGED profileFaults

-----------------------------------------------------------------------------
(* startStaticScan(): the row it answers with is not the one that is worked *)
(* on, and runStaticScan() goes on in the background.                       *)
AskStaticScan(a) ==
  Scanning(a, "idle", "answer") /\ Unprofiled /\ StaticFine /\ UNCHANGED scanVars

AnswerStaticScan(a) ==
  /\ \/ Scanning(a, "answer", "prepare") /\ StaticFine /\ answeredRow' = [answeredRow EXCEPT ![a] = "PENDING"]
     \/ Scanning(a, "answer", "refused") /\ ProfileFault /\ UNCHANGED answeredRow
  /\ Unprofiled /\ UNCHANGED <<workedRow, runs, savedRows, staticSaid>>

(* prepareRepository() stands before the try: nothing tells of its failure. *)
Preparing(a) ==
  /\ staticPc[a] = "prepare" /\ AnalysisStep(a)
  /\ staticPc' = [staticPc EXCEPT ![a] = CASE analysisPc'[a] = "ready" -> "create"
                                           [] analysisPc'[a] \in {"failed", "rejected"} -> "over"
                                           [] OTHER -> "prepare"]
  /\ UNCHANGED scanVars

(* The row comes with the statement; the repository it is linked to may     *)
(* fail to be written, which is swallowed.  The events of the analysis were *)
(* kept back for the scan's id.                                             *)
CreateStaticScan(a) ==
  /\ \/ /\ Scanning(a, "create", "mark") /\ StaticFine /\ workedRow' = [workedRow EXCEPT ![a] = "PENDING"]
        /\ SaysOfScan(a, <<"SCAN_STARTED", "ANALYZER_STARTED", "ANALYZER_COMPLETED">>)
     \/ Scanning(a, "create", "closing") /\ ProfileFault /\ UNCHANGED <<workedRow, staticSaid>>
  /\ Unprofiled /\ UNCHANGED <<answeredRow, runs, savedRows>>

MarkStaticScan(a) ==
  /\ \/ /\ Scanning(a, "mark", "scan") /\ StaticFine /\ workedRow' = [workedRow EXCEPT ![a] = "RUNNING"]
        /\ SaysOfScan(a, <<"SCANNER_STARTED">>)
     \/ Scanning(a, "mark", "failing") /\ ProfileFault /\ UNCHANGED <<workedRow, staticSaid>>
  /\ Unprofiled /\ UNCHANGED <<answeredRow, runs, savedRows>>

-----------------------------------------------------------------------------
(* DefaultScannerRegistry.select, ScannerRunnerService.runAll               *)

Applies(need, tech, ecosystems) ==
  need.name \in (IF need.kind = "language" THEN ToSet(tech) ELSE ecosystems)

(* The elements of a sequence at some of its places, in their order.        *)
Sooner(i, j) == i < j
Filtered(seq, places) == LET kept == InOrder(places, Sooner) IN [k \in DOMAIN kept |-> seq[kept[k]]]

Selected(a) ==
  Filtered(Scanners, {i \in DOMAIN Scanners :
                        Applies(AppliesTo[Scanners[i]], profiles[a].tech, profiles[a].ecosystems)})

(* FindingNormalizer: reports below the threshold are dropped.              *)
Kept(report) == SeverityOf[report.severity] >= SeverityThreshold
Normalized(scanner) ==
  LET reports == Filtered(Reports[scanner], {i \in DOMAIN Reports[scanner] : Kept(Reports[scanner][i])})
      Unified(r) == [at |-> r.at, type |-> r.type, severity |-> SeverityOf[r.severity], scanner |-> scanner,
                     confidence |-> IF r.confidence = 0 THEN UsualConfidence[scanner] ELSE r.confidence,
                     cwe |-> r.cwe, references |-> r.references]
  IN [i \in DOMAIN reports |-> Unified(reports[i])]

(* BaseScanner.run: a tool that is missing, or whose tree is, prints        *)
(* nothing, and nothing printed is no finding.                              *)
RunScanner(a) ==
  /\ staticPc[a] = "scan" /\ Len(runs[a]) < Len(Selected(a))
  /\ LET scanner == Selected(a)[Len(runs[a]) + 1]
         Ran(status, printed, found) ==
           runs' = [runs EXCEPT ![a] = Append(@, [scanner |-> scanner, status |-> status,
                                                  printed |-> printed, findings |-> found])]
     IN \/ Readable(a) /\ StaticFine /\ Ran("completed", TRUE, Normalized(scanner))
        \/ ~Readable(a) /\ StaticFine /\ Ran("completed", FALSE, <<>>)
        \/ ProfileFault /\ Ran("completed", FALSE, <<>>)  \* the tool is missing
        \/ ProfileFault /\ Ran("failed", FALSE, <<>>)     \* a timeout, or output that is no JSON
  /\ Unprofiled /\ UNCHANGED <<staticPc, answeredRow, workedRow, savedRows, staticSaid>>

-----------------------------------------------------------------------------
(* KeyedFindingDeduplicator.deduplicate                                     *)

FindingKey(f) == <<f.at, f.type, f.severity>>
ReplacesAny(old, new) == TRUE
ShouldReplace(old, new) ==
  \/ new.confidence > old.confidence
  \/ new.confidence = old.confidence /\ IdRank[new.scanner] < IdRank[old.scanner]

MergeFinding(map, f) ==
  LET k == FindingKey(f)
      old == map[k]
      refs == old.references \cup f.references
      kept == IF ShouldReplace(old, f)
              THEN [f EXCEPT !.references = refs, !.cwe = IF @ = "none" THEN old.cwe ELSE @]
              ELSE [old EXCEPT !.references = refs]
  IN [x \in DOMAIN map \cup {k} |-> IF x # k THEN map[x] ELSE IF k \in DOMAIN map THEN kept ELSE f]

AllFindings(a) == FlattenSeq([i \in DOMAIN runs[a] |-> runs[a][i].findings])
Deduplicated(found) ==
  LET to[i \in 0..Len(found)] ==
        IF i = 0 THEN <<>> ELSE CHOOSE m \in {MergeFinding(x, found[i]) : x \in {to[i - 1]}} : TRUE
  IN to[Len(found)]

ScannersOver(a) ==
  /\ Len(runs[a]) = Len(Selected(a)) /\ Scanning(a, "scan", "repository")
  /\ Unprofiled /\ StaticFine /\ UNCHANGED scanVars

(* upsertRepository(), linkScanRepository(): here they may not fail.        *)
StoreStep(a) ==
  /\ \E to \in {<<"repository", "link">>, <<"link", "findings">>} :
       \/ Scanning(a, to[1], to[2]) /\ StaticFine
       \/ Scanning(a, to[1], "failing") /\ ProfileFault
  /\ Unprofiled /\ UNCHANGED scanVars

SaveFindings(a) ==
  /\ \/ /\ Scanning(a, "findings", "finish") /\ StaticFine
        /\ \E map \in {Deduplicated(AllFindings(a))} : savedRows' = [savedRows EXCEPT ![a] = map]
     \/ Scanning(a, "findings", "failing") /\ ProfileFault /\ UNCHANGED savedRows
  /\ Unprofiled /\ UNCHANGED <<answeredRow, workedRow, runs, staticSaid>>

FinishStaticScan(a) ==
  /\ \/ /\ Scanning(a, "finish", "closing") /\ StaticFine
        /\ workedRow' = [workedRow EXCEPT ![a] =
             IF \E i \in DOMAIN runs[a] : runs[a][i].status = "failed" THEN "FAILED" ELSE "COMPLETED"]
        /\ SaysOfScan(a, <<"SCANNER_COMPLETED", "SCAN_COMPLETED">>)
     \/ Scanning(a, "finish", "failing") /\ ProfileFault /\ UNCHANGED <<workedRow, staticSaid>>
  /\ Unprofiled /\ UNCHANGED <<answeredRow, runs, savedRows>>

(* The catch block, once there is a row; its own write may fail too.        *)
StaticScanFails(a) ==
  /\ Scanning(a, "failing", "closing") /\ SaysOfScan(a, <<"SCAN_FAILED">>)
  /\ \/ StaticFine /\ workedRow' = [workedRow EXCEPT ![a] = "FAILED"]
     \/ ProfileFault /\ UNCHANGED workedRow
  /\ Unprofiled /\ UNCHANGED <<answeredRow, runs, savedRows>>

(* The finally block.                                                       *)
CloseStaticScan(a) ==
  /\ staticPc[a] = "closing"
  /\ \/ Dispose(a) /\ UNCHANGED staticPc
     \/ analysisPc[a] = "dispose" /\ RemoveTree(a) /\ staticPc' = [staticPc EXCEPT ![a] = "over"]
  /\ UNCHANGED scanVars

StaticScanStep(a) ==
  \/ AskStaticScan(a) \/ AnswerStaticScan(a) \/ Preparing(a) \/ CreateStaticScan(a) \/ MarkStaticScan(a)
  \/ RunScanner(a) \/ ScannersOver(a) \/ StoreStep(a) \/ SaveFindings(a) \/ FinishStaticScan(a)
  \/ StaticScanFails(a) \/ CloseStaticScan(a)

PlainAnalysis(a) == (AnalysisStep(a) \/ Dispose(a)) /\ UNCHANGED <<staticPc, scanVars>>

StaticNext ==
  \/ \E a \in StaticScans : StaticScanStep(a)
  \/ \E a \in Analyses \ StaticScans : PlainAnalysis(a)

StaticSpec == StaticInit /\ [][StaticNext]_staticVars

-----------------------------------------------------------------------------
StaticTypeOK ==
  /\ ProfileTypeOK /\ staticPc \in [StaticScans -> StaticPC]
  /\ answeredRow \in [StaticScans -> {"none", "PENDING"}]
  /\ workedRow \in [StaticScans -> {"none", "PENDING", "RUNNING", "COMPLETED", "FAILED"}]
  /\ \A a \in StaticScans : Len(runs[a]) <= Len(Scanners)

(* A scan with a working tree of its own that is COMPLETED ran every        *)
(* scanner the repository calls for, none of which failed.                  *)
RightScanners(a) ==
  LET names == {Info[p].name : p \in {q \in Paths \ {TopDir} : Info[q].parent = TopDir}}
      languages == {s.name : s \in {x \in ToSet(Signals) : \E p \in Listed(a) : <<"ext", Info[p].ext>> \in x.facts}}
      called == {s \in ToSet(Scanners) :
                   AppliesTo[s].name \in (IF AppliesTo[s].kind = "language" THEN languages ELSE names)}
  IN /\ {runs[a][i].scanner : i \in DOMAIN runs[a]} = called
     /\ \A i \in DOMAIN runs[a] : runs[a][i].status = "completed"

(* Its rows are one per place, kind and severity of the findings at or      *)
(* above the threshold of the tools that answered, with the highest         *)
(* confidence, of the first scanner by id that has it, and with every       *)
(* reference; a CWE is that of one of the findings.                         *)
RightRows(a) ==
  LET answered == {runs[a][i].scanner : i \in {j \in DOMAIN runs[a] : runs[a][j].printed}}
      found == UNION {ToSet(Normalized(s)) : s \in answered}
      Of(k) == {f \in found : FindingKey(f) = k}
      Best(F) == {f \in F : \A g \in F : /\ g.confidence <= f.confidence
                                         /\ g.confidence = f.confidence => IdRank[f.scanner] <= IdRank[g.scanner]}
  IN /\ DOMAIN savedRows[a] = {FindingKey(f) : f \in found}
     /\ \A k \in DOMAIN savedRows[a] : \E F \in {Of(k)} : LET row == savedRows[a][k] IN
          /\ \E f \in Best(F) : row.scanner = f.scanner /\ row.confidence = f.confidence
          /\ row.references = UNION {f.references : f \in F}
          /\ row.cwe \in {f.cwe : f \in F}

ReportIsExact ==
  \A a \in StaticScans : workedRow[a] = "COMPLETED" /\ ~Shares(a) => RightScanners(a) /\ RightRows(a)

(* What a profile and what a report tell of the repository is exact, and    *)
(* neither leaves a working tree behind.                                    *)
ResultsAreExact == ProfileIsExact /\ ReportIsExact /\ TreesAreReleased
=============================================================================
