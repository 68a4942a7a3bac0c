----------------------------- MODULE SandboxManager -----------------------------
(***************************************************************************)
(* SandboxManagerService over the DockerSandboxBackend, for the sandboxes  *)
(* of one scan: runtime sandboxes share the scan's internal network,       *)
(* analysis sandboxes have a workspace directory on the host each.         *)
(* backend.create() goes on by itself when the manager's timer has given   *)
(* it up.  The store of records is in memory: its calls take no time of    *)
(* their own, so a step reaches from one docker command to the next.       *)
(***************************************************************************)
EXTENDS Naturals

CONSTANTS RuntimeBoxes, AnalysisBoxes,  \* sandboxes that may be created
          Users,                        \* callers of waitUntilReady, execute, applyPatch, restart
          Destroyers,                   \* callers of destroy
          MaxDockerFaults               \* bound on removals that fail unnoticed

Boxes == RuntimeBoxes \cup AnalysisBoxes
ASSUME DockerAssumption ==
  /\ RuntimeBoxes \cap AnalysisBoxes = {} /\ Boxes \cap Destroyers = {}
  /\ MaxDockerFaults \in Nat

VARIABLES record,      \* Sandbox.status by id; none: not in the store
          handle,      \* sandboxes whose record has its containerId
          call,        \* per sandbox: what createSandbox() awaits
          job,         \* per sandbox: what backend.create() awaits
          known,       \* sandboxes the backend has a context of
          running,     \* sandboxes whose container exists
          workspaces,  \* sandboxes whose directory exists
          network,     \* amass-net-<scan> exists
          use,         \* per user: the call it is in
          wreck,       \* per destroy(), that of createSandbox()'s catch included: where it is
          loss,        \* per sandbox: what went wrong behind the manager's back
          dockerFaults

store == <<record, handle>>
host == <<known, running, workspaces, network>>
managerVars == <<store, call, job, host, use, wreck, loss, dockerFaults>>

BoxStatus == {"pending", "creating", "starting", "ready", "executing", "restarting", "running", "failed"}
CallPC == {"idle", "creating", "starting", "failing", "returned", "threw"}
JobPC == {"idle", "inspect", "network", "workspace", "run", "done", "threw"}
Loss == {"none", "late", "threw", "unowned", "cut", "kept"}
NoUse == [kind |-> "none", box |-> "none"]
NoWreck == [step |-> "none", box |-> "none", real |-> FALSE, ctx |-> FALSE]
Wreckers == Boxes \cup Destroyers

ManagerInit ==
  /\ record = [b \in Boxes |-> "none"] /\ handle = {}
  /\ call = [b \in Boxes |-> "idle"] /\ job = [b \in Boxes |-> "idle"]
  /\ known = {} /\ running = {} /\ workspaces = {} /\ network = FALSE
  /\ use = [u \in Users |-> NoUse] /\ wreck = [w \in Wreckers |-> NoWreck]
  /\ loss = [b \in Boxes |-> "none"] /\ dockerFaults = 0

(* transition(): only a record that is in the store is written.            *)
Upsert(b, s) == record' = [record EXCEPT ![b] = s]  \* slip: the record is not looked up first
Moved(b, s) == record' = [record EXCEPT ![b] = IF @ = "none" THEN @ ELSE s]
Calls(b, c) == call' = [call EXCEPT ![b] = c]
Jobs(b, j) == job' = [job EXCEPT ![b] = j]
Loses(b, l) == loss' = [loss EXCEPT ![b] = l]

-----------------------------------------------------------------------------
(* DockerSandboxBackend.create(), which nobody stops *)

(* ensureNetwork: siblings share the network; the error of its creation is *)
(* not looked at.                                                          *)
InspectNetwork(b) ==
  /\ job[b] = "inspect" /\ Jobs(b, IF network THEN "run" ELSE "network")
  /\ UNCHANGED <<store, call, host, use, wreck, loss, dockerFaults>>
CreateNetwork(b) ==
  /\ job[b] = "network" /\ Jobs(b, "run")
  /\ network' \in {TRUE, network}
  /\ UNCHANGED <<store, call, known, running, workspaces, use, wreck, loss, dockerFaults>>

(* provisionWorkspace: the directory, then its owner; if the owner cannot  *)
(* be set the directory stays.                                             *)
ProvisionWorkspace(b) ==
  /\ job[b] = "workspace" /\ workspaces' = workspaces \cup {b}
  /\ \/ Jobs(b, "run") /\ UNCHANGED loss
     \/ Jobs(b, "threw") /\ Loses(b, "unowned")
  /\ UNCHANGED <<store, call, known, running, network, use, wreck, dockerFaults>>

(* docker run: the container is up at once and removes itself when it      *)
(* ends.  A failed command takes the workspace back; one that was cut off  *)
(* by its own timeout may have started the container all the same.         *)
KeepsWorkspace(b) == workspaces  \* slip: the failure of docker run does not take the workspace back
TakesBack(b) == workspaces \ {b}
RunContainer(b) ==
  /\ job[b] = "run"
  /\ \/ /\ b \in RuntimeBoxes => network
        /\ running' = running \cup {b} /\ known' = known \cup {b}
        /\ Jobs(b, "done") /\ UNCHANGED <<workspaces, loss>>
     \/ /\ Jobs(b, "threw") /\ workspaces' = TakesBack(b) /\ UNCHANGED <<known, running>>
        /\ Loses(b, IF loss[b] = "late" THEN "late" ELSE "threw")
     \/ /\ b \in RuntimeBoxes => network
        /\ Jobs(b, "threw") /\ workspaces' = TakesBack(b)
        /\ running' = running \cup {b} /\ Loses(b, "cut") /\ UNCHANGED known
  /\ UNCHANGED <<store, call, network, use, wreck, dockerFaults>>

Job(b) == InspectNetwork(b) \/ CreateNetwork(b) \/ ProvisionWorkspace(b) \/ RunContainer(b)

(* The process in the container ends: --rm.                                *)
Exit(b) ==
  /\ b \in running /\ running' = running \ {b}
  /\ UNCHANGED <<store, call, job, known, workspaces, network, use, wreck, loss, dockerFaults>>

-----------------------------------------------------------------------------
(* SandboxManagerService.destroy() *)

(* require(), then docker rm with the handle, or with the id if there is   *)
(* none: which names no container.  The backend reads its context first.   *)
StartsDestroy(w, b) ==
  LET real == record[b] # "none" /\ b \in handle IN
    wreck' = [wreck EXCEPT ![w] = [step |-> "rm", box |-> b, real |-> real, ctx |-> real /\ b \in known]]

(* The context and the record go, whatever the commands answered.          *)
Forgets(w, b) ==
  /\ known' = IF wreck[w].real THEN known \ {b} ELSE known
  /\ record' = [record EXCEPT ![b] = "none"] /\ handle' = handle \ {b}
  /\ wreck' = [wreck EXCEPT ![w] = NoWreck]
  /\ call' = IF w = b THEN [call EXCEPT ![b] = "threw"] ELSE call

DockerFault(b) ==
  dockerFaults < MaxDockerFaults /\ dockerFaults' = dockerFaults + 1 /\ Loses(b, "kept")
NoFault == UNCHANGED <<loss, dockerFaults>>

RemoveContainer(w) ==
  /\ wreck[w].step = "rm"
  /\ LET b == wreck[w].box IN
       /\ \/ running' = (IF wreck[w].real THEN running \ {b} ELSE running) /\ NoFault
          \/ wreck[w].real /\ b \in running /\ DockerFault(b) /\ UNCHANGED running
       /\ \/ /\ wreck[w].ctx
             /\ wreck' = [wreck EXCEPT ![w].step = IF b \in RuntimeBoxes THEN "network" ELSE "workspace"]
             /\ UNCHANGED <<store, call, known>>
          \/ ~wreck[w].ctx /\ Forgets(w, b)
  /\ UNCHANGED <<job, workspaces, network, use>>

(* docker network rm fails while a container of a sibling is attached.     *)
Attached == running \cap RuntimeBoxes # {}
RemoveNetwork(w) ==
  /\ wreck[w].step = "network"
  /\ LET b == wreck[w].box IN
       /\ \/ network' = (network /\ Attached) /\ NoFault
          \/ network /\ ~Attached /\ DockerFault(b) /\ UNCHANGED network
       /\ Forgets(w, b)
  /\ UNCHANGED <<job, running, workspaces, use>>

RemoveWorkspace(w) ==
  /\ wreck[w].step = "workspace"
  /\ LET b == wreck[w].box IN
       /\ \/ workspaces' = workspaces \ {b} /\ NoFault
          \/ DockerFault(b) /\ UNCHANGED workspaces
       /\ Forgets(w, b)
  /\ UNCHANGED <<job, running, network, use>>

(* destroy() by somebody createSandbox() has returned the sandbox to.      *)
DestroyBox(w, b) ==
  /\ wreck[w] = NoWreck /\ call[b] = "returned" /\ StartsDestroy(w, b)
  /\ UNCHANGED <<store, call, job, host, use, loss, dockerFaults>>

Wreck(w) == RemoveContainer(w) \/ RemoveNetwork(w) \/ RemoveWorkspace(w)

-----------------------------------------------------------------------------
(* SandboxManagerService.createSandbox() *)

CreateBox(b) ==
  /\ call[b] = "idle" /\ Calls(b, "creating")
  /\ record' = [record EXCEPT ![b] = "creating"]
  /\ Jobs(b, IF b \in RuntimeBoxes THEN "inspect" ELSE "workspace")
  /\ UNCHANGED <<handle, host, use, wreck, loss, dockerFaults>>

(* The handle is stored and docker start follows.                          *)
Created(b) ==
  /\ call[b] = "creating" /\ job[b] = "done" /\ Calls(b, "starting")
  /\ handle' = handle \cup {b} /\ record' = [record EXCEPT ![b] = "starting"]
  /\ UNCHANGED <<job, host, use, wreck, loss, dockerFaults>>

(* withTimeout: the timer wins over a backend that has not answered.       *)
NoTimer(b) == FALSE  \* slip: backend.create() is awaited without a timer
TimerEnds(b) == job[b] \notin {"done", "threw"}
CreateFails(b) ==
  /\ call[b] = "creating" /\ Calls(b, "failing") /\ StartsDestroy(b, b)
  /\ \/ job[b] = "threw" /\ UNCHANGED loss
     \/ TimerEnds(b) /\ Loses(b, "late")
  /\ UNCHANGED <<store, job, host, use, dockerFaults>>

(* docker start has a timeout of its own, shorter than the manager's.      *)
Started(b) ==
  /\ call[b] = "starting"
  /\ \/ b \in running /\ Calls(b, "returned") /\ UNCHANGED wreck
     \/ Calls(b, "failing") /\ StartsDestroy(b, b)
  /\ UNCHANGED <<store, job, host, use, loss, dockerFaults>>

-----------------------------------------------------------------------------
(* The calls on a sandbox that was returned *)

InUse(u, k, b) == use' = [use EXCEPT ![u] = [kind |-> k, box |-> b]]
Usable(b) == call[b] = "returned" /\ record[b] # "none" /\ b \in handle

(* require(); execute() and restart() also write their status.             *)
BeginUse(u) ==
  /\ use[u] = NoUse
  /\ \E b \in Boxes :
       /\ Usable(b)
       /\ \/ InUse(u, "wait", b) /\ UNCHANGED record
          \/ InUse(u, "execute", b) /\ Moved(b, "executing")
          \/ InUse(u, "patch", b) /\ UNCHANGED record
          \/ InUse(u, "restart", b) /\ Moved(b, "restarting")
  /\ UNCHANGED <<handle, call, job, host, wreck, loss, dockerFaults>>

(* The docker command has answered; the status is written if the record is *)
(* still there.  A failed command or a deadline throws.                    *)
EndUse(u) ==
  /\ LET b == use[u].box IN
       \/ use[u].kind = "wait" /\ use' = [use EXCEPT ![u] = NoUse]
            /\ IF b \in running THEN Moved(b, "ready") ELSE UNCHANGED record
       \/ use[u].kind = "execute" /\ use' = [use EXCEPT ![u] = NoUse] /\ Moved(b, "running")
       \/ use[u].kind = "patch"
            /\ \/ b \in running /\ record[b] # "none" /\ InUse(u, "restart", b) /\ Moved(b, "restarting")
               \/ use' = [use EXCEPT ![u] = NoUse] /\ UNCHANGED record
       \/ use[u].kind = "restart" /\ use' = [use EXCEPT ![u] = NoUse]
            /\ \/ b \in running /\ Moved(b, "running")
               \/ Moved(b, "failed")
  /\ UNCHANGED <<handle, call, job, host, wreck, loss, dockerFaults>>

-----------------------------------------------------------------------------
ManagerNext ==
  \/ \E b \in Boxes : \/ CreateBox(b) \/ Created(b) \/ CreateFails(b) \/ Started(b)
                      \/ Job(b) \/ Exit(b)
  \/ \E w \in Wreckers : Wreck(w)
  \/ \E w \in Destroyers, b \in Boxes : DestroyBox(w, b)
  \/ \E u \in Users : BeginUse(u) \/ EndUse(u)

ManagerSpec == ManagerInit /\ [][ManagerNext]_managerVars
ManagerFair ==
  /\ \A b \in Boxes : WF_managerVars(Created(b) \/ CreateFails(b) \/ Started(b))
  /\ \A w \in Wreckers : WF_managerVars(Wreck(w))
FairManagerSpec == ManagerSpec /\ ManagerFair

-----------------------------------------------------------------------------
(* Types of the variables.                                                 *)
ManagerTypeOK ==
  /\ record \in [Boxes -> BoxStatus \cup {"none"}] /\ handle \subseteq Boxes
  /\ call \in [Boxes -> CallPC] /\ job \in [Boxes -> JobPC]
  /\ known \subseteq Boxes /\ running \subseteq Boxes
  /\ workspaces \subseteq AnalysisBoxes /\ network \in BOOLEAN
  /\ use \in [Users -> [kind : {"none", "wait", "execute", "patch", "restart"}, box : Boxes \cup {"none"}]]
  /\ wreck \in [Wreckers -> [step : {"none", "rm", "network", "workspace"}, box : Boxes \cup {"none"},
                             real : BOOLEAN, ctx : BOOLEAN]]
  /\ loss \in [Boxes -> Loss] /\ dockerFaults \in 0..MaxDockerFaults

(* Nobody is at work on the sandboxes and none is left in the store.       *)
AllGone ==
  /\ \A b \in Boxes : record[b] = "none" /\ job[b] \in {"idle", "done", "threw"}
  /\ \A w \in Wreckers : wreck[w] = NoWreck

(* When every sandbox is gone so is what it had on the host, the network   *)
(* the siblings shared and fought over included - and where something is   *)
(* left, it is the leavings of one of the ways the manager cannot see: a   *)
(* create that was given up or cut off, an owner that could not be set, a  *)
(* backend that failed after making the network, a removal that failed.    *)
HostIsClean ==
  AllGone =>
    /\ \A b \in running : loss[b] \in {"late", "cut", "kept"}
    /\ \A b \in workspaces : loss[b] \in {"late", "unowned", "kept"}
    /\ network => \E b \in RuntimeBoxes : loss[b] # "none"

(* A sandbox that was destroyed does not come back: an execute, a restart  *)
(* or a poll that answers late finds no record and writes none.            *)
NeverResurrected ==
  [][\A b \in Boxes : record[b] = "none" /\ call[b] # "idle" => record'[b] = "none"]_managerVars

(* A createSandbox() that has not answered yet; it does even if docker     *)
(* never does.                                                             *)
ManagerUnderWay == \E b \in Boxes : call[b] \in {"creating", "starting", "failing"}
CreateReturns == ManagerUnderWay ~> ~ManagerUnderWay
=============================================================================
