SPECIFICATION ServicesSpec
CONSTANTS
  Targets = {t1, t2}
  Findings = {f1}
  Places = {p1, p2}
  Nothing = nothing
  Concurrency = 2
  MaxAttempts = 2
  MaxSniperFaults = 1
  RuntimeBoxes = {r1, r2}
  AnalysisBoxes = {a1}
  Users = {u1}
  Destroyers = {d1}
  MaxDockerFaults = 1
  Repairable = {v1, v2}
  Files = {file1, file2}
  Scores = {45, 60}
  Providers = 2
  MaxRetries = 1
  LLMCodes = {"TIMEOUT", "MODEL_UNAVAILABLE", "AUTH"}
  MaxEngineerAttempts = 3
  Checks <- MCChecks
  Together = 2
  LabelOf <- MCLabels
  PageOf <- MCPages
  MethodOf <- MCMethods
  HasParams = {"sql"}
  CorrelationOf <- MCCorrelation
  SessionOf <- MCSession
  Faulty = {"sql", "nosql", "orders", "open", "debug", "upload"}
  Echoes = {"echo"}
  Refuses = {"debug"}
  PlainOf <- MCPlain
  Keeping = {"comments"}
  SqlTexts <- MCTexts
  MaxTries = 2
  MaxOutages = 1
  Exploits <- MCExploits
  Sources <- MCSources
  NewLines = {"bind", "encode", "bind password"}
  Secrets = {"key"}
  Leaks = {"key", "bind password"}
  Commands = {"sh"}
  SignalsOf <- MCSignals
  Unsafe = {"../up"}
  Unsupported = {"dist/app.js"}
  Manifests = {"setup.py"}
  LanguageOf <- MCLanguages
  Window = 1
  MaxLines = 4
  Context = 1
  MaxDiff = 7
  MaxFiles = 3
  MaxAssumptions = 1
  MaxSigns = 2
  Ingestions = {i1, i2}
  Shelving = {i2}
  Feeds <- MCFeeds
  Shelf <- MCShelf
  Caps = {2, 1000}
  PageSize = 2
  MaxPages = 2
  MaxFetchRetries = 1
  MaxEmbedRetries = 1
  MaxRevisions = 1
  MaxKnowledgeFaults = 1
INVARIANTS ServicesTypeOK OwnVulnerability ConfirmedIsBacked HostIsClean AskedInTurn EveryDraftIsSettled VerdictsFit PatchLands KnowledgeIsWhole
PROPERTIES EverythingEnds NeverResurrected
CHECK_DEADLOCK FALSE
