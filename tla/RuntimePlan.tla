----------------------------- MODULE RuntimePlan -----------------------------
(***************************************************************************)
(* How the application in a runtime sandbox is built and started:          *)
(* resolveRuntimeConfig(), which create() calls between its workspace and  *)
(* its image.  It lists the files of the clone and takes the repository's  *)
(* Dockerfile, or else generates one for a Python or a Node application.   *)
(* A file is a place in RuntimeFiles, which is in the order of the sorted  *)
(* listing; every read is a step, and what cannot be read is passed over.  *)
(***************************************************************************)
EXTENDS Integers, Sequences, FiniteSets, FiniteSetsExt, SequencesExt

CONSTANTS RuntimeFiles,     \* <<[dir, name], ...>>: the files a repository may have, by path
          Above,            \* for a directory, itself and those it lies in; TopLevel lies in none
          TopLevel,
          SkippedDirs,      \* directories the walk leaves out
          BackendDirs,      \* directories whose path tells of a backend
          DockerTexts,      \* [blank, cmd, expose]: expose has the first number of each EXPOSE line
          PackageTexts,     \* [json, main, manager, versions, scripts]; of a script [port, known]: the port it
                            \* fixes, 0 for none, and whether it does with --port, -p or PORT=, glued or not
          PortOverrides,    \* ports a caller asks for, 0 for none
          MaxRuntimeFiles,  \* bound on the files of one repository
          MaxResolveFaults  \* bound on reads that fail

VARIABLES resolvePc,     \* what resolveRuntimeConfig() awaits
          clone,         \* the repository: its files, its Dockerfile, its packages, the port asked for
          inReach,       \* the files that were listed
          packagesLeft,  \* package.json files not read yet
          runtimePlan,   \* what was resolved
          resolveFaults

resolveVars == <<resolvePc, clone, inReach, packagesLeft, runtimePlan, resolveFaults>>

EntryPoints == <<"app.py", "main.py", "server.py", "wsgi.py", "run.py">>
PythonManifests == <<"requirements.txt", "pyproject.toml", "Pipfile">>
StartScripts == <<"start", "serve", "dev", "preview">>
Ports == [DOCKERFILE |-> 8080, PYTHON |-> 8000, NODE |-> 3000]

MaxPort == 65535
(* The files are a list, and what may be asked for is a port.              *)
ASSUME ImageAssumption ==
  /\ Len(RuntimeFiles) \in Nat /\ DOMAIN RuntimeFiles = 1..Len(RuntimeFiles)
  /\ MaxRuntimeFiles \in Nat /\ MaxResolveFaults \in Nat
  /\ PortOverrides \subseteq 0..MaxPort
(* So is what a script is told to listen on.                               *)
ASSUME ScriptsAssumption ==
  \A text \in PackageTexts : \A n \in DOMAIN text.scripts : text.scripts[n].port \in 0..MaxPort

Numbered == DOMAIN RuntimeFiles
DirOf(k) == RuntimeFiles[k].dir
NameOf(k) == RuntimeFiles[k].name
NotFound == 0
Least(S) == IF S = {} THEN NotFound ELSE Min(S)
Called(S, n) == {k \in S : NameOf(k) = n}
FirstName(S, names) ==
  LET hits == {i \in DOMAIN names : Called(S, names[i]) # {}}
  IN IF hits = {} THEN NotFound ELSE Least(Called(S, names[Min(hits)]))

Unresolved == [strategy |-> "none", at |-> NotFound, entry |-> NotFound, command |-> <<>>, port |-> 0, image |-> "none"]

ResolveInit ==
  /\ resolvePc = "list" /\ inReach = {} /\ packagesLeft = {} /\ runtimePlan = Unresolved /\ resolveFaults = 0
  /\ \E files \in UNION {kSubset(n, Numbered) : n \in 0..MaxRuntimeFiles}, d \in DockerTexts, port \in PortOverrides :
       \E texts \in [Called(files, "package.json") -> PackageTexts] :
         clone = [files |-> files, docker |-> d, packages |-> texts, override |-> port]

Unreadable == resolveFaults < MaxResolveFaults /\ resolveFaults' = resolveFaults + 1

(* listAllFiles(): three levels of directories; one that cannot be read has *)
(* no files.                                                                *)
Walked(lost) ==
  {k \in clone.files : Cardinality(Above[DirOf(k)]) <= 3
                       /\ Above[DirOf(k)] \cap (SkippedDirs \cup lost) = {}}
ListFiles ==
  /\ resolvePc = "list" /\ resolvePc' = "docker"
  /\ \/ inReach' = Walked({}) /\ UNCHANGED resolveFaults
     \/ Unreadable /\ \E d \in {DirOf(k) : k \in clone.files} : inReach' = Walked({d})
  /\ UNCHANGED <<clone, packagesLeft, runtimePlan>>

(* findDockerfile(): the one at the top, or any that is named like one.     *)
FindDockerfile(S) ==
  LET named == {k \in S : NameOf(k) \in {"Dockerfile", "Dockerfile.dev"}}
      top == {k \in named : DirOf(k) = TopLevel /\ NameOf(k) = "Dockerfile"}
  IN IF top # {} THEN Least(top) ELSE Least(named)

(* parseExposePort(): the last EXPOSE line, if it names a port.             *)
ParseExposePort(d) ==
  IF d.expose # <<>> /\ Last(d.expose) \in 10..MaxPort THEN Last(d.expose) ELSE NotFound

OverrideOr(port) == IF clone.override # 0 THEN clone.override ELSE port

Settle(plan) == resolvePc' = "resolved" /\ runtimePlan' = plan
DockerPlan(f, command) ==
  LET exposed == ParseExposePort(clone.docker)
  IN [Unresolved EXCEPT !.strategy = "DOCKERFILE", !.at = f, !.command = command,
        !.port = OverrideOr(IF exposed = NotFound THEN Ports["DOCKERFILE"] ELSE exposed)]

(* findPythonTarget(): an entry point, one at the top before one in a       *)
(* directory, or what would be it beside a manifest.                        *)
PythonEntry(S) ==
  LET top == FirstName({k \in S : DirOf(k) = TopLevel}, EntryPoints)
  IN IF top # NotFound THEN top ELSE FirstName(S, EntryPoints)
PythonTarget(S) ==
  IF PythonEntry(S) # NotFound THEN {RuntimeFiles[PythonEntry(S)]}
  ELSE IF FirstName(S, PythonManifests) # NotFound
       THEN {[dir |-> DirOf(FirstName(S, PythonManifests)), name |-> "app.py"]} ELSE {}
Requirements(S) == Least(Called(S, "requirements.txt"))

(* findNodeTarget(): the package at the top, then those of a backend; of    *)
(* each the first script there is, npm start if there is none of the four.  *)
AsListed(k) == k  \* slip: the packages in the order of the listing
PackageRank(k) ==
  k + (IF DirOf(k) = TopLevel THEN 0 ELSE IF DirOf(k) \in BackendDirs THEN 1 ELSE 2) * Len(RuntimeFiles)
NextPackage(S) == CHOOSE k \in S : \A j \in S : PackageRank(k) <= PackageRank(j)

Scripts(text) == DOMAIN text.scripts
Startable(text) == \E n \in ToSet(StartScripts) : n \in Scripts(text)
UsablePackage(text) == text.json /\ (Startable(text) \/ text.main \/ Scripts(text) # {})
SelectedScript(text) == StartScripts[Min({i \in DOMAIN StartScripts : StartScripts[i] \in Scripts(text)})]

(* detectPortFromScript(): four or five digits behind --port, -p or PORT=,  *)
(* with blanks between them or not.                                         *)
DetectedPort(text) ==
  IF Startable(text)
  THEN LET s == text.scripts[SelectedScript(text)]
       IN IF s.known /\ s.port \in 1000..MaxPort THEN s.port ELSE Ports["NODE"]
  ELSE Ports["NODE"]

DetectPackageManager(text) ==
  IF text.manager # "none" THEN text.manager
  ELSE IF Called(inReach, "pnpm-lock.yaml") # {} THEN "pnpm"
  ELSE IF Called(inReach, "yarn.lock") # {} THEN "yarn" ELSE "npm"

DetectNodeEngine(text) ==
  CASE 18 \in text.versions /\ text.versions \cap {20, 22} = {} -> "node:18"
    [] 16 \in text.versions /\ text.versions \cap {18, 20, 22} = {} -> "node:16"
    [] OTHER -> "node:22"

(* nodeDockerfile(): the CMD; npm is always told to start a package that is *)
(* in a directory.                                                          *)
NodeCommand(k, text) ==
  LET manager == DetectPackageManager(text)
      script == IF Startable(text) THEN SelectedScript(text) ELSE "start"
  IN <<manager, IF DirOf(k) # TopLevel /\ manager = "npm" THEN "start" ELSE script>>
NodePlan(k, text) ==
  [Unresolved EXCEPT !.strategy = "NODE", !.at = k, !.command = NodeCommand(k, text),
     !.port = OverrideOr(DetectedPort(text)), !.image = DetectNodeEngine(text)]
PythonPlan(target) ==
  [Unresolved EXCEPT !.strategy = "PYTHON", !.at = Requirements(inReach), !.entry = target,
     !.port = OverrideOr(Ports["PYTHON"]), !.image = "python:3.11"]

(* A Dockerfile governs; one without a CMD gets the command of the stack.   *)
ReadDockerfile ==
  LET f == FindDockerfile(inReach)
  IN /\ resolvePc = "docker" /\ f # NotFound
     /\ \/ Unreadable /\ resolvePc' = "unsupported" /\ UNCHANGED <<runtimePlan, packagesLeft>>
        \/ /\ UNCHANGED resolveFaults
           /\ \/ clone.docker.blank /\ resolvePc' = "unsupported" /\ UNCHANGED <<runtimePlan, packagesLeft>>
              \/ ~clone.docker.blank /\ clone.docker.cmd /\ Settle(DockerPlan(f, <<>>)) /\ UNCHANGED packagesLeft
              \/ /\ ~clone.docker.blank /\ ~clone.docker.cmd /\ UNCHANGED packagesLeft
                 /\ \E t \in PythonTarget(inReach) : Settle(DockerPlan(f, <<"python", t>>))
              \/ /\ ~clone.docker.blank /\ ~clone.docker.cmd /\ PythonTarget(inReach) = {}
                 /\ resolvePc' = "packages" /\ packagesLeft' = Called(inReach, "package.json")
                 /\ UNCHANGED runtimePlan
     /\ UNCHANGED <<clone, inReach>>

ChooseStack ==
  /\ resolvePc = "docker" /\ FindDockerfile(inReach) = NotFound
  /\ \/ (\E t \in PythonTarget(inReach) : Settle(PythonPlan(t))) /\ UNCHANGED packagesLeft
     \/ /\ PythonTarget(inReach) = {} /\ resolvePc' = "packages"
        /\ packagesLeft' = Called(inReach, "package.json") /\ UNCHANGED runtimePlan
  /\ UNCHANGED <<clone, inReach, resolveFaults>>

ReadPackage ==
  /\ resolvePc = "packages" /\ packagesLeft # {}
  /\ \E k \in {NextPackage(packagesLeft)} : LET text == clone.packages[k] IN
       \/ Unreadable /\ packagesLeft' = packagesLeft \ {k} /\ UNCHANGED <<resolvePc, runtimePlan>>
       \/ /\ ~UsablePackage(text) /\ packagesLeft' = packagesLeft \ {k}
          /\ UNCHANGED <<resolvePc, runtimePlan, resolveFaults>>
       \/ /\ UsablePackage(text) /\ UNCHANGED <<packagesLeft, resolveFaults>>
          /\ Settle(IF FindDockerfile(inReach) # NotFound
                    THEN DockerPlan(FindDockerfile(inReach), <<DetectPackageManager(text), "start">>)
                    ELSE NodePlan(k, text))
  /\ UNCHANGED <<clone, inReach>>

NoPackage ==
  /\ resolvePc = "packages" /\ packagesLeft = {}
  /\ IF FindDockerfile(inReach) # NotFound THEN Settle(DockerPlan(FindDockerfile(inReach), <<>>))
     ELSE resolvePc' = "unsupported" /\ UNCHANGED runtimePlan
  /\ UNCHANGED <<clone, inReach, packagesLeft, resolveFaults>>

ResolveNext == ListFiles \/ ReadDockerfile \/ ChooseStack \/ ReadPackage \/ NoPackage
ResolveSpec == ResolveInit /\ [][ResolveNext]_resolveVars

-----------------------------------------------------------------------------
ResolveTypeOK ==
  /\ resolvePc \in {"list", "docker", "packages", "resolved", "unsupported"}
  /\ inReach \subseteq clone.files /\ packagesLeft \subseteq Called(inReach, "package.json")
  /\ runtimePlan.port \in 0..MaxPort /\ resolveFaults \in 0..MaxResolveFaults

(* What is started is there, and listens where the probe will ask: a        *)
(* Python entry point is a file, unless none is in reach; a Node command is *)
(* a script of its package, but for a package without any of the four and   *)
(* for one in a directory that npm starts though it has no start script;    *)
(* and its port is the one the script fixes, unless the caller asked for    *)
(* another, the number has less than four digits, or it is not said with    *)
(* --port, -p or PORT=.                                                     *)
PlanStarts ==
  /\ runtimePlan.strategy = "PYTHON" =>
       \/ \E k \in clone.files : RuntimeFiles[k] = runtimePlan.entry
       \/ \A k \in inReach : NameOf(k) \notin ToSet(EntryPoints)
  /\ runtimePlan.strategy = "NODE" =>
       LET text == clone.packages[runtimePlan.at]
           script == runtimePlan.command[2]
           fixed == IF Startable(text) THEN text.scripts[SelectedScript(text)] ELSE [port |-> 0, known |-> TRUE]
       IN /\ script \notin Scripts(text) <=>
               \/ ~Startable(text)
               \/ /\ runtimePlan.command[1] = "npm" /\ DirOf(runtimePlan.at) # TopLevel
                  /\ "start" \notin Scripts(text)
          /\ fixed.port \notin {0, runtimePlan.port} => clone.override # 0 \/ ~fixed.known \/ fixed.port < 1000

(* The strategy is the first that the repository has the files for, of Node *)
(* packages one of the top, then one of a backend, is not passed over, and  *)
(* a repository is unsupported only if it is: unless a read failed.         *)
PlanIsFirst ==
  resolvePc \in {"resolved", "unsupported"} /\ resolveFaults = 0 =>
    LET named(ns) == {k \in inReach : NameOf(k) \in ns}
        docker == named({"Dockerfile", "Dockerfile.dev"})
        python == named(ToSet(EntryPoints) \cup ToSet(PythonManifests))
        node == {k \in named({"package.json"}) : UsablePackage(clone.packages[k])}
        In(D) == {k \in node : DirOf(k) \in D}
    IN /\ runtimePlan.strategy =
            CASE docker # {} -> IF clone.docker.blank THEN "none" ELSE "DOCKERFILE"
              [] docker = {} /\ python # {} -> "PYTHON"
              [] docker \cup python = {} /\ node # {} -> "NODE"
              [] OTHER -> "none"
       /\ runtimePlan.strategy = "NODE" =>
            /\ In({TopLevel}) # {} => DirOf(runtimePlan.at) = TopLevel
            /\ In({TopLevel} \cup BackendDirs) # {} => DirOf(runtimePlan.at) \in {TopLevel} \cup BackendDirs

(* What create() builds and probes for a repository.                        *)
ImageIsRight == PlanStarts /\ PlanIsFirst
=============================================================================
