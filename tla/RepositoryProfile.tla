-------------------------- MODULE RepositoryProfile --------------------------
(***************************************************************************)
(* Analysis of a repository: RepositoryProfileService.prepareRepository()  *)
(* over RepositoryCloningService, GitRepositoryCloner, the file-system     *)
(* walk and the five analyzers.  Calls for one repository meet in the      *)
(* workspace directory, where a clone is named after the millisecond it    *)
(* began in, and in the guard expression, whose position is module state.  *)
(* Every await is a step; the files of the walk are read in one.           *)
(***************************************************************************)
EXTENDS Naturals, Sequences, FiniteSets, FiniteSetsExt, SequencesExt

CONSTANTS Analyses,          \* calls of prepareRepository for the repository
          Stamps,            \* milliseconds, an interval of Nat
          Paths, TopDir,     \* the paths of the repository, and its top directory
          Info,              \* per path: parent, name, kind, size, ext, deps, routes,
                             \* source (is it source text?), guards (where the guard
                             \* expression matches), named (after a guard)
          IgnoreList,        \* [kind, base, dirOnly, negated]: the ignore rules, in order
          TooLarge, Broken,  \* is the clone over the budget, is its package.json malformed?
          Signals,           \* [name, category, confidence, facts]: the signatures, in order
          CategoryOrder,     \* the categories of technologies, in order
          Manifests,         \* the manifests looked for, in order
          SchemeOf,          \* per dependency: the authentication scheme it implies, or "none"
          MaxEndpoints, MaxGuards, \* endpoints and guards listed
          KeepRepoDir,       \* the option that keeps working trees
          MaxProfileFaults   \* bound on failing clones and removals

ASSUME ProfileAssumption ==
  /\ Stamps \subseteq Nat \ {0} /\ Stamps # {} /\ {MaxEndpoints, MaxGuards, MaxProfileFaults} \subseteq Nat
  /\ {KeepRepoDir} \cup TooLarge \cup Broken \subseteq BOOLEAN

(* A repository is a tree of directories: whatever set of paths below the   *)
(* top is taken, one of them lies in a directory outside the set.  No two   *)
(* files are of one size.                                                   *)
ASSUME TreeAssumption ==
  /\ IsFiniteSet(Paths) /\ TopDir \in Paths /\ Info[TopDir].kind = "dir" /\ Info[TopDir].parent \notin Paths
  /\ \A p \in Paths : Info[p].kind \in {"file", "dir", "link"} /\ Info[p].size \in Nat
                      /\ Info[p].routes \in Seq(ToSet(Info[p].routes)) /\ Info[p].guards \subseteq Nat
  /\ \A p \in Paths \ {TopDir} : Info[p].parent \in Paths /\ Info[Info[p].parent].kind = "dir"
  /\ \A S \in SUBSET (Paths \ {TopDir}) : S # {} => \E p \in S : Info[p].parent \notin S
  /\ \A p \in Paths, q \in Paths : p # q /\ Info[p].kind = "file" => Info[p].size # Info[q].size

ASSUME SignalsAssumption ==
  /\ Signals \in Seq(ToSet(Signals))
  /\ \A s \in ToSet(Signals) : s.category \in ToSet(CategoryOrder) /\ s.confidence \in Nat
  /\ CategoryOrder \in Seq(ToSet(CategoryOrder))

VARIABLES analysisPc,     \* per call: what it awaits
          stampOf,        \* per call: the name of its directory, 0 before
          trees,          \* per directory: its contents
          checkout,       \* what the constants leave open about the repository
          profiles,       \* per call: what its analyzers returned
          guardIndex,     \* lastIndex of the guard expression
          profileFaults   \* failures so far

profileVars == <<analysisPc, stampOf, trees, checkout, profiles, guardIndex, profileFaults>>

AnalysisPC == {"idle", "clone", "git", "size", "walk", "technology", "dependencies", "architecture",
               "api", "schemes", "guards", "ready", "unclone", "again", "dispose", "discard", "done", "failed", "rejected"}
NoProfile == [files |-> <<>>, dirs |-> {}, tech |-> <<>>, ecosystems |-> {}, shape |-> "Unknown",
              api |-> <<>>, schemes |-> {}, guards |-> <<>>, next |-> 1]

ProfileInit ==
  /\ analysisPc = [a \in Analyses |-> "idle"] /\ stampOf = [a \in Analyses |-> 0]
  /\ trees = [t \in Stamps |-> "none"]
  /\ checkout \in [large : TooLarge, broken : Broken]
  /\ profiles = [a \in Analyses |-> NoProfile] /\ guardIndex = 0 /\ profileFaults = 0

Analysing(a, from, to) == analysisPc[a] = from /\ analysisPc' = [analysisPc EXCEPT ![a] = to]
ProfileFault == profileFaults < MaxProfileFaults /\ profileFaults' = profileFaults + 1

-----------------------------------------------------------------------------
(* RepositoryCloningService.clone, GitRepositoryCloner.clone                *)

(* The directory is named after the clock, which never goes back.           *)
StartAnalysis(a) ==
  /\ \/ Analysing(a, "idle", "rejected") /\ UNCHANGED stampOf   \* no GitHub address
     \/ /\ Analysing(a, "idle", "clone")
        /\ \E t \in Stamps : /\ \A b \in Analyses : stampOf[b] <= t
                             /\ stampOf' = [stampOf EXCEPT ![a] = t]
  /\ UNCHANGED <<trees, checkout, profiles, guardIndex, profileFaults>>

FreshDir(a) == trees[stampOf[a]] = "none"

(* git refuses a directory that is not empty.                               *)
GitStarts(a) ==
  /\ \/ Analysing(a, "clone", "git") /\ FreshDir(a) /\ trees' = [trees EXCEPT ![stampOf[a]] = "partial"]
     \/ Analysing(a, "clone", "unclone") /\ ~FreshDir(a) /\ UNCHANGED trees
  /\ UNCHANGED <<stampOf, checkout, profiles, guardIndex, profileFaults>>

GitEnds(a) ==
  /\ \/ /\ Analysing(a, "git", "size") /\ trees[stampOf[a]] = "partial" /\ UNCHANGED profileFaults
        /\ trees' = [trees EXCEPT ![stampOf[a]] = "whole"]
     \/ Analysing(a, "git", "unclone") /\ trees[stampOf[a]] # "partial" /\ UNCHANGED <<trees, profileFaults>>
     \/ Analysing(a, "git", "unclone") /\ ProfileFault /\ UNCHANGED trees
  /\ UNCHANGED <<stampOf, checkout, profiles, guardIndex>>

Readable(a) == trees[stampOf[a]] = "whole"

(* A tree that has gone weighs nothing.                                     *)
MeasureTree(a) ==
  /\ Analysing(a, "size", IF Readable(a) /\ checkout.large THEN "unclone" ELSE "walk")
  /\ UNCHANGED <<stampOf, trees, checkout, profiles, guardIndex, profileFaults>>

(* The removals, all by name: that of the cloner (or of the size check),    *)
(* that of the catch block of clone() which follows it, and those of        *)
(* disposeRepository().  Their own errors change nothing but the message.   *)
RemoveTree(a) ==
  /\ \E end \in {<<"unclone", "again">>, <<"again", "failed">>, <<"discard", "failed">>, <<"dispose", "done">>} :
       /\ Analysing(a, end[1], end[2])
       /\ IF KeepRepoDir /\ end[1] \in {"discard", "dispose"} THEN UNCHANGED <<trees, profileFaults>>
          ELSE \/ trees' = [trees EXCEPT ![stampOf[a]] = "none"] /\ UNCHANGED profileFaults
               \/ ProfileFault /\ UNCHANGED trees
  /\ UNCHANGED <<stampOf, checkout, profiles, guardIndex>>

-----------------------------------------------------------------------------
(* DefaultFileSystemAnalyzer.walk, IgnoreRules                              *)

SegmentsOf[p \in Paths] == IF p = TopDir THEN {} ELSE {Info[p].name} \cup SegmentsOf[Info[p].parent]
TopOf[p \in Paths] == IF Info[p].parent = TopDir THEN Info[p].name ELSE TopOf[Info[p].parent]
IsDir(p) == Info[p].kind = "dir"
Matches(rule, p) ==
  /\ rule.dirOnly => IsDir(p)
  /\ CASE rule.kind = "name" -> rule.base \in SegmentsOf[p]
       [] rule.kind = "anchored" -> rule.base = TopOf[p]
       [] OTHER -> rule.base = Info[p].ext

(* The last rule that matches decides.                                      *)
Ignored(p) ==
  LET hits == {i \in DOMAIN IgnoreList : Matches(IgnoreList[i], p)}
  IN hits # {} /\ ~IgnoreList[Max(hits)].negated

Entries(d) == {p \in Paths \ {TopDir} : Info[p].parent = d /\ Info[p].kind # "link" /\ ~Ignored(p)}

(* Everything below a directory, ignored subtrees pruned.                   *)
Walk ==
  LET below[d \in Paths] == Entries(d) \cup UNION {below[p] : p \in {q \in Entries(d) : IsDir(q)}}
  IN below[TopDir]

(* A set sorted: at k is the element that k - 1 others precede.             *)
InOrder(S, Precedes(_, _)) ==
  [k \in 1..Cardinality(S) |-> CHOOSE x \in S : Cardinality({y \in S : Precedes(y, x)}) = k - 1]

(* The files, largest first, as the later analyzers go through them.        *)
Larger(p, q) == Info[p].size > Info[q].size
BySize(S) == InOrder(S, Larger)
FilesOf(S) == {p \in S : ~IsDir(p)}

WalkTree(a) ==
  /\ Analysing(a, "walk", "technology")
  /\ profiles' = IF ~Readable(a) THEN profiles
                 ELSE [profiles EXCEPT ![a].files = BySize(FilesOf(Walk)), ![a].dirs = Walk \ FilesOf(Walk)]
  /\ UNCHANGED <<stampOf, trees, checkout, guardIndex, profileFaults>>

-----------------------------------------------------------------------------
(* The analyzers work on the list of files; contents they read again.       *)

Listed(a) == ToSet(profiles[a].files)
Declared(a) ==
  LET Read(p) == Info[p].parent = TopDir /\ ~(checkout.broken /\ Info[p].name = "package.json")
  IN IF Readable(a) THEN UNION {Info[p].deps : p \in {q \in Paths \ {TopDir} : Read(q)}} ELSE {}

(* detectTechnologies: a signature with any evidence at all is listed, by   *)
(* category and then by confidence.                                         *)
Facts(files, dirs, deps) ==
  {<<"file", Info[p].name>> : p \in files} \cup {<<"ext", Info[p].ext>> : p \in files}
  \cup {<<"dir", Info[p].name>> : p \in {q \in dirs : Info[q].parent = TopDir}}
  \cup {<<"dep", d>> : d \in deps}
Rank(i) == CHOOSE k \in DOMAIN CategoryOrder : CategoryOrder[k] = Signals[i].category
Before(i, j) ==
  \/ Rank(i) < Rank(j)
  \/ Rank(i) = Rank(j) /\ Signals[i].confidence > Signals[j].confidence
  \/ Rank(i) = Rank(j) /\ Signals[i].confidence = Signals[j].confidence /\ i < j
Technologies(facts) ==
  LET hits == InOrder({i \in DOMAIN Signals : Signals[i].facts \cap facts # {}}, Before)
  IN [k \in DOMAIN hits |-> Signals[hits[k]].name]

Detect(a) ==
  /\ Analysing(a, "technology", "dependencies")
  /\ profiles' = [profiles EXCEPT ![a].tech = Technologies(Facts(Listed(a), profiles[a].dirs, Declared(a)))]
  /\ UNCHANGED <<stampOf, trees, checkout, guardIndex, profileFaults>>

(* The catch block of prepareRepository() gives the tree up.                *)
OnError == "discard"

(* Of the manifests only package.json is parsed without a catch.            *)
ReadManifests(a) ==
  /\ analysisPc[a] = "dependencies"
  /\ IF Readable(a) /\ checkout.broken
     THEN Analysing(a, "dependencies", OnError) /\ UNCHANGED profiles
     ELSE /\ Analysing(a, "dependencies", "architecture")
          /\ profiles' = IF ~Readable(a) THEN profiles
                         ELSE [profiles EXCEPT ![a].ecosystems =
                                 {m \in ToSet(Manifests) : \E p \in Paths : /\ Info[p].parent = TopDir
                                                                            /\ Info[p].name = m}]
  /\ UNCHANGED <<stampOf, trees, checkout, guardIndex, profileFaults>>

(* SignatureArchitectureAnalyzer: confidence in percent, of directories     *)
(* that hold files and of manifests; a topology comes before everything.    *)
Candidate(type, confidence, given) == IF given THEN <<[type |-> type, confidence |-> confidence]>> ELSE <<>>
Shapes(files, dirs) ==
  LET names == UNION {SegmentsOf[Info[p].parent] : p \in files}
      N(layers) == Cardinality(layers \cap names)
      Layered(type, layers) == Candidate(type, IF N(layers) >= 3 THEN 85 ELSE 60, N(layers) >= 2)
      top == {p \in dirs : Info[p].parent = TopDir}
      Holds(d, ns) == \E p \in files : Info[p].parent = d /\ Info[p].name \in ns
      packages == {p \in files : /\ Info[p].name = "package.json"
                                 /\ Info[p].parent \in top \cup {TopDir}}
      nested == {p \in files : Info[p].name = "package.json" /\ Info[p].parent # TopDir}
      workspace == Holds(TopDir, {"pnpm-workspace.yaml", "turbo.json", "nx.json", "lerna.json", "rush.json"})
      manifests == {"package.json", "go.mod", "Cargo.toml", "pyproject.toml"}
      services == {d \in top : Holds(d, manifests \cup {"requirements.txt"})}
  IN Layered("clean", {"domain", "application", "infrastructure", "presentation"})
     \o Layered("hexagonal", {"adapters", "ports", "application", "domain"})
     \o Layered("layered", {"controllers", "services", "repositories"})
     \o Candidate("mvc", 70, N({"controllers", "models", "views"}) >= 2)
     \o Candidate("client-server", 80, \E pair \in {{"client", "server"}, {"frontend", "backend"}, {"front-end", "back-end"}} :
                                           pair \subseteq names)
     \o Candidate("monorepo", IF workspace \/ Cardinality(packages) >= 3 THEN 90 ELSE 70,
                  workspace \/ Cardinality(packages) >= 2)
     \o Candidate("microservices", 70, Cardinality(services) >= 3)
     \o Candidate("monolith", 60, /\ Holds(TopDir, manifests) /\ nested = {}
                                  /\ {"services", "api"} \cap {Info[d].name : d \in top} = {})
     \o Candidate("serverless", 60, Holds(TopDir, {"serverless.yml", "serverless.yaml", "vercel.json",
                                                    "netlify.toml", "wrangler.toml"}))
Primary(shapes) ==
  LET Of(t) == \E i \in DOMAIN shapes : shapes[i].type = t
      topology == SelectSeq(<<"microservices", "client-server", "monorepo">>, Of)
      best == {i \in DOMAIN shapes : \A j \in DOMAIN shapes : shapes[j].confidence <= shapes[i].confidence}
  IN IF topology # <<>> THEN Head(topology)
     ELSE IF shapes = <<>> THEN "Unknown" ELSE shapes[Min(best)].type

DetectShape(a) ==
  /\ Analysing(a, "architecture", "api")
  /\ profiles' = [profiles EXCEPT ![a].shape = Primary(Shapes(Listed(a), profiles[a].dirs))]
  /\ UNCHANGED <<stampOf, trees, checkout, guardIndex, profileFaults>>

(* RegexApiAnalyzer: every method and path once, where it is met first.     *)
Earlier(x, y) == x[1] < y[1] \/ (x[1] = y[1] /\ x[2] < y[2])
RoutesOf(files) ==
  LET Route(x) == Info[files[x[1]]].routes[x[2]]
      declared == UNION {{i} \X DOMAIN Info[files[i]].routes : i \in DOMAIN files}
      first == {x \in declared : \A y \in declared : Earlier(y, x) => Route(y) # Route(x)}
      met == InOrder(first, Earlier)
  IN [k \in 1..Min({Cardinality(first), MaxEndpoints}) |-> <<Route(met[k]), files[met[k][1]]>>]

ListRoutes(a) ==
  /\ Analysing(a, "api", "schemes")
  /\ profiles' = [profiles EXCEPT ![a].api = IF Readable(a) THEN RoutesOf(profiles[a].files) ELSE <<>>]
  /\ UNCHANGED <<stampOf, trees, checkout, guardIndex, profileFaults>>

(* RegexAuthenticationAnalyzer                                              *)
ListSchemes(a) ==
  /\ Analysing(a, "schemes", "guards")
  /\ profiles' = [profiles EXCEPT ![a].schemes = {SchemeOf[d] : d \in Declared(a)} \ {"none"}]
  /\ UNCHANGED <<stampOf, trees, checkout, guardIndex, profileFaults>>

(* findMiddlewareFiles: the expression is global and remembers where its    *)
(* last match ended, so it may begin a file in the middle.                  *)
GuardsOver(a) == profiles[a].next > Len(profiles[a].files) \/ Len(profiles[a].guards) >= MaxGuards

TestGuards(a) ==
  /\ ~GuardsOver(a) /\ Analysing(a, "guards", "guards")
  /\ LET file == profiles[a].files[profiles[a].next]
         tested == Info[file].source /\ ~Info[file].named /\ Readable(a)
         ahead == {g \in Info[file].guards : g >= guardIndex}
         found == Info[file].source /\ (Info[file].named \/ (tested /\ ahead # {}))
         listed == [profiles[a] EXCEPT !.next = @ + 1, !.guards = IF found THEN Append(@, file) ELSE @]
     IN /\ profiles' = [profiles EXCEPT ![a] = listed]
        /\ guardIndex' = IF ~tested THEN guardIndex ELSE IF ahead = {} THEN 0 ELSE Min(ahead) + 1
  /\ UNCHANGED <<stampOf, trees, checkout, profileFaults>>

Prepared(a) ==
  /\ GuardsOver(a) /\ Analysing(a, "guards", "ready")
  /\ UNCHANGED <<stampOf, trees, checkout, profiles, guardIndex, profileFaults>>

AnalysisStep(a) ==
  \/ StartAnalysis(a) \/ GitStarts(a) \/ GitEnds(a) \/ MeasureTree(a) \/ RemoveTree(a) \/ WalkTree(a)
  \/ Detect(a) \/ ReadManifests(a) \/ DetectShape(a) \/ ListRoutes(a) \/ ListSchemes(a) \/ TestGuards(a)
  \/ Prepared(a)

(* analyzeRepository(), the caller that only wants the profile.             *)
Dispose(a) ==
  /\ Analysing(a, "ready", "dispose")
  /\ UNCHANGED <<stampOf, trees, checkout, profiles, guardIndex, profileFaults>>

-----------------------------------------------------------------------------
ProfileTypeOK ==
  /\ analysisPc \in [Analyses -> AnalysisPC] /\ stampOf \in [Analyses -> Stamps \cup {0}]
  /\ trees \in [Stamps -> {"none", "partial", "whole"}] /\ guardIndex \in Nat
  /\ \A a \in Analyses : Listed(a) \subseteq Paths /\ profiles[a].next \in 1..(Len(profiles[a].files) + 1)
  /\ profileFaults \in 0..MaxProfileFaults

(* Two calls that began in the same millisecond work in one directory.      *)
Shares(a) == \E b \in Analyses \ {a} : stampOf[b] = stampOf[a] /\ stampOf[a] # 0
ProfileDone(a) == analysisPc[a] \in {"ready", "dispose", "done"}

(* The files that neither they nor a directory above them is hidden, by a   *)
(* rule or as a link; the dependencies of the manifests at the top.         *)
AboveOf[p \in Paths] == IF p = TopDir THEN {} ELSE {p} \cup AboveOf[Info[p].parent]
Visible == {p \in Paths : Info[p].kind # "link" /\ ~Ignored(p)}
Seen == {p \in Paths : Info[p].kind = "file" /\ AboveOf[p] \subseteq Visible}
TopDeps == UNION {Info[p].deps : p \in {q \in Paths \ {TopDir} : Info[q].parent = TopDir}}

(* Every route of these files once, of the largest file that has it.        *)
RoutesAreExact(api) ==
  LET listed == {api[i][1] : i \in DOMAIN api}
      routes == UNION {ToSet(Info[p].routes) : p \in Seen}
  IN /\ listed \subseteq routes /\ Cardinality(listed) = Len(api)
     /\ Cardinality(routes) <= MaxEndpoints => listed = routes
     /\ \A i \in DOMAIN api : \A p \in Seen :
          api[i][1] \in ToSet(Info[p].routes) => Info[p].size <= Info[api[i][2]].size

(* The profile of a call with a directory of its own tells of exactly these *)
(* files, of the technologies they show, of each of their routes once, and  *)
(* of no guard that is not there.                                           *)
ProfileIsExact ==
  \A a \in Analyses : ProfileDone(a) /\ ~Shares(a) =>
    /\ Listed(a) = Seen
    /\ ToSet(profiles[a].tech) =
         {s.name : s \in {x \in ToSet(Signals) : x.facts \cap Facts(Seen, profiles[a].dirs, TopDeps) # {}}}
    /\ RoutesAreExact(profiles[a].api)
    /\ \A p \in ToSet(profiles[a].guards) : Info[p].guards # {} \/ Info[p].named

(* When every call is over there are no more working trees left than        *)
(* removals failed, unless they were to be kept.                            *)
AnalysisOver(a) == analysisPc[a] \in {"idle", "done", "failed", "rejected"}
TreesAreReleased ==
  (\A a \in Analyses : AnalysisOver(a)) /\ ~KeepRepoDir =>
    Cardinality({t \in Stamps : trees[t] # "none"}) <= profileFaults
=============================================================================
