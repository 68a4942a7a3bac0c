SPECIFICATION ScanningSpec
CONSTANTS
  Scans = {s1, s2}
  Vulns = {v1, v2}
  MaxFaults = 2
  Analyses = {n1, n2}
  StaticScans = {n1}
  Stamps = {1, 2}
  Paths <- MCPaths
  TopDir = "top"
  Info <- MCInfo
  IgnoreList <- MCIgnore
  TooLarge = {FALSE, TRUE}
  Broken = {FALSE, TRUE}
  Signals <- MCSignals
  CategoryOrder <- MCCategories
  Manifests <- MCManifests
  SchemeOf <- MCSchemes
  MaxEndpoints = 4
  MaxGuards = 2
  KeepRepoDir = FALSE
  MaxProfileFaults = 2
  Scanners <- MCScanners
  IdRank <- MCIdRank
  AppliesTo <- MCApplies
  Reports <- MCReports
  UsualConfidence <- MCUsual
  SeverityOf <- MCSeverity
  SeverityThreshold = 2
  Scouts = {t1, t2}
  Urls <- MCUrls
  Root = "/"
  OwnOrigin <- MCOwn
  PathOf <- MCPath
  QueryOf <- MCQuery
  RedirectTo <- MCRedirect
  Locked = {"/deep"}
  RefsOf <- MCRefs
  Hints <- MCHints
  WellKnown <- MCWell
  ShapeOf <- MCShape
  TechOf <- MCTech
  MaxPages = 3
  MaxDepth = 1
  MaxReconFaults = 1
  StaticFindings <- MCStatic
  External = {"elsewhere"}
  Frameworks = {"Express"}
  RuntimeFiles <- MCRuntimeFiles
  Above <- MCAbove
  TopLevel = "top"
  SkippedDirs = {"dist"}
  BackendDirs = {"api"}
  DockerTexts <- MCDockerTexts
  PackageTexts <- MCPackageTexts
  PortOverrides = {0, 9000}
  MaxResolveFaults = 1
  MaxRuntimeFiles = 3
INVARIANTS TypeOK OneVerdict NeverSilent NothingLeftUp CompletedIsRemediated RowsTellAll SurveyTypeOK ResultsAreExact SurveyIsExact ImageIsRight
PROPERTIES ScanEnds
CHECK_DEADLOCK FALSE
