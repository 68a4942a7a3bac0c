-------------------------- MODULE SandboxManagerProofs --------------------------
(***************************************************************************)
(* Proofs about SandboxManager for any number of sandboxes of both kinds,  *)
(* of users, of destroyers and of removals that fail unnoticed.            *)
(***************************************************************************)
EXTENDS SandboxManager, TLAPS

USE DockerAssumption

-----------------------------------------------------------------------------
(* Types.  Only analysis sandboxes are given a workspace, and only runtime *)
(* sandboxes a network.                                                    *)
Kinds == \A b \in Boxes : /\ job[b] = "workspace" => b \in AnalysisBoxes
                          /\ job[b] \in {"inspect", "network"} => b \in RuntimeBoxes
TypeInv == ManagerTypeOK /\ Kinds

LEMMA StartTypes == ManagerInit => TypeInv
<1> SUFFICES ASSUME ManagerInit PROVE TypeInv
  OBVIOUS
<1>1. wreck \in [Wreckers -> [step : {"none", "rm", "network", "workspace"}, box : Boxes \cup {"none"},
                              real : BOOLEAN, ctx : BOOLEAN]]
  BY DEF ManagerInit, NoWreck
<1>2. use \in [Users -> [kind : {"none", "wait", "execute", "patch", "restart"}, box : Boxes \cup {"none"}]]
  BY DEF ManagerInit, NoUse
<1>3. 0 \in 0..MaxDockerFaults
  OBVIOUS
<1> QED BY <1>1, <1>2, <1>3 DEF ManagerInit, TypeInv, Kinds, ManagerTypeOK, CallPC, JobPC, Loss

LEMMA JobTypes ==
  ASSUME TypeInv, NEW b \in Boxes, Job(b) \/ Exit(b)
  PROVE  TypeInv'
<1> USE DEF TypeInv, Kinds, ManagerTypeOK, store, host, Jobs, Loses, JobPC, Loss
<1>1. CASE InspectNetwork(b)
  BY <1>1 DEF InspectNetwork
<1>2. CASE CreateNetwork(b)
  BY <1>2 DEF CreateNetwork
<1>3. CASE ProvisionWorkspace(b)
  BY <1>3 DEF ProvisionWorkspace
<1>4. CASE RunContainer(b)
  BY <1>4 DEF RunContainer, TakesBack
<1>5. CASE Exit(b)
  BY <1>5 DEF Exit
<1> QED BY <1>1, <1>2, <1>3, <1>4, <1>5 DEF Job

LEMMA BeginWreckTypes ==
  ASSUME TypeInv, NEW w \in Wreckers, NEW b \in Boxes, StartsDestroy(w, b)
  PROVE  wreck' \in [Wreckers -> [step : {"none", "rm", "network", "workspace"}, box : Boxes \cup {"none"},
                                  real : BOOLEAN, ctx : BOOLEAN]]
<1> DEFINE k == [step |-> "rm", box |-> b, real |-> record[b] # "none" /\ b \in handle,
                 ctx |-> (record[b] # "none" /\ b \in handle) /\ b \in known]
<1>1. wreck' = [wreck EXCEPT ![w] = k]
  BY DEF StartsDestroy
<1>2. k \in [step : {"none", "rm", "network", "workspace"}, box : Boxes \cup {"none"},
             real : BOOLEAN, ctx : BOOLEAN]
  OBVIOUS
<1> QED BY <1>1, <1>2 DEF TypeInv, ManagerTypeOK

LEMMA CallTypes ==
  ASSUME TypeInv, NEW b \in Boxes, CreateBox(b) \/ Created(b) \/ CreateFails(b) \/ Started(b)
  PROVE  TypeInv'
<1> USE DEF TypeInv, Kinds, ManagerTypeOK, store, host, Jobs, Calls, Loses, JobPC, CallPC, BoxStatus, Loss
<1>0. b \in Wreckers
  BY DEF Wreckers
<1>1. CASE CreateBox(b)
  BY <1>1 DEF CreateBox, Boxes
<1>2. CASE Created(b)
  BY <1>2 DEF Created
<1>3. CASE CreateFails(b)
  BY <1>0, <1>3, BeginWreckTypes DEF CreateFails
<1>4. CASE Started(b)
  BY <1>0, <1>4, BeginWreckTypes DEF Started
<1> QED BY <1>1, <1>2, <1>3, <1>4

LEMMA ForgetsTypes ==
  ASSUME TypeInv, NEW w \in Wreckers, NEW b \in Boxes, Forgets(w, b)
  PROVE  /\ known' \subseteq Boxes /\ record' \in [Boxes -> BoxStatus \cup {"none"}]
         /\ handle' \subseteq Boxes /\ call' \in [Boxes -> CallPC]
         /\ wreck' \in [Wreckers -> [step : {"none", "rm", "network", "workspace"},
                                     box : Boxes \cup {"none"}, real : BOOLEAN, ctx : BOOLEAN]]
BY DEF TypeInv, ManagerTypeOK, Forgets, NoWreck, CallPC

LEMMA WreckTypes ==
  ASSUME TypeInv, NEW w \in Wreckers, wreck[w].box \in Boxes, Wreck(w)
  PROVE  TypeInv'
<1> DEFINE b == wreck[w].box
<1>1. DockerFault(b) => /\ loss' \in [Boxes -> Loss] /\ dockerFaults' \in 0..MaxDockerFaults
  BY DEF DockerFault, Loses, Loss, TypeInv, ManagerTypeOK
<1>2. NoFault => /\ loss' \in [Boxes -> Loss] /\ dockerFaults' \in 0..MaxDockerFaults
  BY DEF NoFault, TypeInv, ManagerTypeOK
<1> USE DEF TypeInv, Kinds, ManagerTypeOK, store
<1>3. CASE RemoveContainer(w)
  <2>1. running' \subseteq Boxes /\ loss' \in [Boxes -> Loss] /\ dockerFaults' \in 0..MaxDockerFaults
    BY <1>1, <1>2, <1>3 DEF RemoveContainer
  <2>2. UNCHANGED <<job, workspaces, network, use>>
    BY <1>3 DEF RemoveContainer
  <2>3. CASE Forgets(w, b)
    BY <2>1, <2>2, <2>3, ForgetsTypes
  <2>4. CASE /\ wreck' = [wreck EXCEPT ![w].step = IF b \in RuntimeBoxes THEN "network" ELSE "workspace"]
             /\ UNCHANGED <<store, call, known>>
    BY <2>1, <2>2, <2>4
  <2> QED BY <1>3, <2>3, <2>4 DEF RemoveContainer
<1>4. CASE RemoveNetwork(w)
  <2>1. network' \in BOOLEAN
    BY <1>4 DEF RemoveNetwork, Attached
  <2> QED BY <1>1, <1>2, <1>4, <2>1, ForgetsTypes DEF RemoveNetwork
<1>5. CASE RemoveWorkspace(w)
  BY <1>1, <1>2, <1>5, ForgetsTypes DEF RemoveWorkspace
<1> QED BY <1>3, <1>4, <1>5 DEF Wreck

LEMMA DestroyTypes ==
  ASSUME TypeInv, NEW w \in Destroyers, NEW b \in Boxes, DestroyBox(w, b)
  PROVE  TypeInv'
<1>1. w \in Wreckers
  BY DEF Wreckers
<1> QED BY <1>1, BeginWreckTypes DEF DestroyBox, TypeInv, Kinds, ManagerTypeOK, store, host

LEMMA UseTypes ==
  ASSUME TypeInv, NEW u \in Users, BeginUse(u) \/ EndUse(u)
  PROVE  TypeInv'
<1>1. /\ UNCHANGED <<handle, call, job, host, wreck, loss, dockerFaults>>
  BY DEF BeginUse, EndUse
<1>2. ASSUME NEW b, NEW st \in BoxStatus, Moved(b, st) PROVE record' \in [Boxes -> BoxStatus \cup {"none"}]
  <2>1. record \in [Boxes -> BoxStatus \cup {"none"}]
    BY DEF TypeInv, ManagerTypeOK
  <2>2. record' = [c \in Boxes |-> IF c = b THEN IF record[c] = "none" THEN record[c] ELSE st ELSE record[c]]
    BY <1>2, <2>1 DEF Moved
  <2>3. \A c \in Boxes : record'[c] \in BoxStatus \cup {"none"}
    BY <2>1, <2>2
  <2> QED BY <2>2, <2>3
<1>3. {"ready", "executing", "restarting", "running", "failed"} \subseteq BoxStatus
  BY DEF BoxStatus
<1>4. \A k \in {"wait", "execute", "patch", "restart"}, b \in Boxes \cup {"none"} : InUse(u, k, b) =>
        use' \in [Users -> [kind : {"none", "wait", "execute", "patch", "restart"}, box : Boxes \cup {"none"}]]
  BY DEF InUse, TypeInv, ManagerTypeOK
<1>5. use' = [use EXCEPT ![u] = NoUse] =>
        use' \in [Users -> [kind : {"none", "wait", "execute", "patch", "restart"}, box : Boxes \cup {"none"}]]
  BY DEF NoUse, TypeInv, ManagerTypeOK
<1>6. use[u].box \in Boxes \cup {"none"}
  BY DEF TypeInv, ManagerTypeOK
<1>7. UNCHANGED record => record' \in [Boxes -> BoxStatus \cup {"none"}]
  BY DEF TypeInv, ManagerTypeOK
<1>8. /\ record' \in [Boxes -> BoxStatus \cup {"none"}]
      /\ use' \in [Users -> [kind : {"none", "wait", "execute", "patch", "restart"}, box : Boxes \cup {"none"}]]
  <2>1. CASE BeginUse(u)
    BY <1>2, <1>3, <1>4, <1>7, <2>1 DEF BeginUse
  <2>2. CASE EndUse(u)
    BY <1>2, <1>3, <1>4, <1>5, <1>6, <1>7, <2>2 DEF EndUse
  <2> QED BY <2>1, <2>2
<1> QED BY <1>1, <1>8 DEF TypeInv, Kinds, ManagerTypeOK, host

-----------------------------------------------------------------------------
(* What a sandbox has on the host, by how far its backend call came and by *)
(* what went wrong with it; and what a destroy() under way knows of it.    *)
Working == {"inspect", "network", "workspace", "run"}

BoxInv(b) ==
  /\ call[b] = "idle" <=> job[b] = "idle"
  /\ call[b] = "creating" => record[b] # "none"
  /\ b \in handle => job[b] = "done"
  /\ loss[b] = "none" /\ call[b] \notin {"idle", "creating"} => job[b] = "done"
  /\ job[b] = "idle" => loss[b] = "none" /\ b \notin running /\ b \notin workspaces
  /\ job[b] \in Working => loss[b] \in {"none", "late"} /\ b \notin running
  /\ job[b] = "threw" =>
       /\ loss[b] \in {"threw", "cut", "unowned", "late"}
       /\ b \in running => loss[b] = "cut"
       /\ b \in workspaces => loss[b] = "unowned"
  /\ job[b] = "done" =>
       /\ loss[b] \in {"none", "late", "kept"}
       /\ loss[b] = "none" =>
            \/ record[b] # "none" /\ b \in known /\ (call[b] = "creating" \/ b \in handle)
            \/ record[b] = "none" /\ b \notin running /\ b \notin workspaces

WreckInv(w) ==
  LET k == wreck[w] IN k.step # "none" =>
    /\ k.box \in Boxes
    /\ w \in Boxes => k.box = w /\ call[w] = "failing"
    /\ w \notin Boxes => call[k.box] = "returned"
    /\ k.real => job[k.box] = "done"
    /\ k.ctx => k.real
    /\ loss[k.box] = "none" /\ record[k.box] # "none" => k.ctx
    /\ k.step \in {"network", "workspace"} => k.ctx /\ (loss[k.box] = "none" => k.box \notin running)
    /\ k.step = "network" <=> k.step # "rm" /\ k.box \in RuntimeBoxes

(* Who is still to see that the network goes: a sibling whose container is *)
(* about to start or whose record is there.                                *)
Heir(b) ==
  /\ b \in RuntimeBoxes
  /\ \/ job[b] = "run"
     \/ job[b] = "done" /\ record[b] # "none"
NetworkInv == network /\ (\A b \in RuntimeBoxes : loss[b] = "none") => \E b \in Boxes : Heir(b)

HostInv ==
  /\ TypeInv /\ NetworkInv
  /\ \A b \in Boxes : BoxInv(b)
  /\ \A w \in Wreckers : WreckInv(w)

LEMMA HostIsCleanHolds == HostInv => HostIsClean
<1> SUFFICES ASSUME HostInv, AllGone PROVE HostIsClean
  BY DEF HostIsClean
<1>1. ASSUME NEW b \in Boxes
      PROVE  /\ b \in running => loss[b] \in {"late", "cut", "kept"}
             /\ b \in workspaces => loss[b] \in {"late", "unowned", "kept"}
  BY DEF HostInv, AllGone, BoxInv
<1>2. network => \E b \in RuntimeBoxes : loss[b] # "none"
  BY DEF HostInv, NetworkInv, Heir, AllGone
<1>3. running \subseteq Boxes /\ workspaces \subseteq Boxes
  BY DEF HostInv, TypeInv, ManagerTypeOK, Boxes
<1> QED BY <1>1, <1>2, <1>3 DEF HostIsClean

LEMMA StartHost == ManagerInit => HostInv
<1> SUFFICES ASSUME ManagerInit PROVE HostInv
  OBVIOUS
<1>1. \A b \in Boxes : BoxInv(b)
  BY DEF ManagerInit, BoxInv, Working
<1>2. \A w \in Wreckers : WreckInv(w)
  BY DEF ManagerInit, WreckInv, NoWreck
<1> QED BY <1>1, <1>2, StartTypes DEF ManagerInit, HostInv, NetworkInv

(* A sandbox a step leaves as it is, its status apart.                     *)
SameBox(b) ==
  /\ (record'[b] = "none") = (record[b] = "none") /\ (b \in handle') = (b \in handle)
  /\ call'[b] = call[b] /\ job'[b] = job[b] /\ loss'[b] = loss[b]
  /\ (b \in known') = (b \in known) /\ (b \in running') = (b \in running)
  /\ (b \in workspaces') = (b \in workspaces)

LEMMA BoxFrame ==
  ASSUME NEW b \in Boxes, BoxInv(b), SameBox(b)
  PROVE  BoxInv(b)'
BY DEF BoxInv, SameBox

LEMMA WreckFrame ==
  ASSUME NEW w \in Wreckers, WreckInv(w), wreck'[w] = wreck[w],
         wreck[w].step # "none" => SameBox(wreck[w].box)
  PROVE  WreckInv(w)'
BY DEF WreckInv, SameBox

(* createSandbox() and the backend's part of it.                           *)
LEMMA JobHost ==
  ASSUME HostInv, NEW b \in Boxes, Job(b), TypeInv'
  PROVE  HostInv'
<1> USE DEF HostInv, TypeInv, ManagerTypeOK, store, host, Jobs, Loses
<1>1. /\ \A c \in Boxes \ {b} : SameBox(c)
      /\ UNCHANGED <<record, handle, call, wreck>> /\ job[b] \in Working
  <2> USE DEF SameBox, Working
  <2>1. CASE InspectNetwork(b)
    BY <2>1 DEF InspectNetwork
  <2>2. CASE CreateNetwork(b)
    BY <2>2 DEF CreateNetwork
  <2>3. CASE ProvisionWorkspace(b)
    BY <2>3 DEF ProvisionWorkspace
  <2>4. CASE RunContainer(b)
    BY <2>4 DEF RunContainer, TakesBack
  <2> QED BY <2>1, <2>2, <2>3, <2>4 DEF Job
<1>2. BoxInv(b)'
  <2>1. CASE InspectNetwork(b)
    BY <2>1 DEF InspectNetwork, BoxInv, Working
  <2>2. CASE CreateNetwork(b)
    BY <2>2 DEF CreateNetwork, BoxInv, Working
  <2>3. CASE ProvisionWorkspace(b)
    BY <2>3 DEF ProvisionWorkspace, BoxInv, Working
  <2>4. CASE RunContainer(b)
    BY <2>4 DEF RunContainer, TakesBack, BoxInv, Working
  <2> QED BY <2>1, <2>2, <2>3, <2>4 DEF Job
<1>3. ASSUME NEW w \in Wreckers PROVE WreckInv(w)'
  <2>1. CASE wreck[w].step = "none" \/ wreck[w].box # b
    BY <1>1, <2>1, WreckFrame DEF WreckInv
  <2>2. CASE wreck[w].step # "none" /\ wreck[w].box = b
    <3>1. BoxInv(b) /\ WreckInv(w) /\ job[b] \in Working /\ job[b] # "done"
      BY <1>1 DEF Working
    <3>2. ~wreck[w].real /\ ~wreck[w].ctx /\ loss[b] # "none"
      BY <2>2, <3>1 DEF WreckInv, BoxInv, Working
    <3>3. loss'[b] # "none"
      BY <3>2 DEF Job, InspectNetwork, CreateNetwork, ProvisionWorkspace, RunContainer
    <3> QED BY <1>1, <2>2, <3>1, <3>2, <3>3 DEF WreckInv
  <2> QED BY <2>1, <2>2
<1>4. ASSUME network', \A c \in RuntimeBoxes : loss'[c] = "none"
      PROVE  \E c \in Boxes : Heir(c)'
  <2>1. \A c \in RuntimeBoxes \ {b} : loss[c] = "none"
    BY <1>1, <1>4 DEF SameBox, Boxes
  <2>2. \A c \in Boxes \ {b} : Heir(c) => Heir(c)'
    BY <1>1 DEF Heir, SameBox
  <2>3. CASE InspectNetwork(b)
    BY <1>4, <2>2, <2>3 DEF InspectNetwork, NetworkInv, Heir
  <2>4. CASE CreateNetwork(b)
    <3>1. Heir(b)'
      BY <2>4 DEF CreateNetwork, Kinds, Heir
    <3> QED BY <3>1
  <2>5. CASE ProvisionWorkspace(b)
    <3>1. b \notin RuntimeBoxes /\ network
      BY <1>4, <2>5 DEF ProvisionWorkspace, Kinds
    <3> QED BY <2>1, <2>2, <3>1 DEF NetworkInv, Heir
  <2>6. CASE RunContainer(b)
    <3>1. network
      BY <1>4, <2>6 DEF RunContainer
    <3>2. CASE b \notin RuntimeBoxes
      BY <2>1, <2>2, <3>1, <3>2 DEF NetworkInv, Heir
    <3>3. CASE b \in RuntimeBoxes
      <4>1. job'[b] = "done" /\ loss[b] = "none"
        BY <1>4, <2>6, <3>3 DEF RunContainer
      <4>2. record'[b] # "none"
        BY <1>1, <4>1 DEF BoxInv, Working
      <4> QED BY <3>3, <4>1, <4>2 DEF Heir
    <3> QED BY <3>2, <3>3
  <2> QED BY <2>3, <2>4, <2>5, <2>6 DEF Job
<1> QED BY <1>1, <1>2, <1>3, <1>4, BoxFrame DEF NetworkInv

(* A step that touches only the network's heirs' own records.              *)
LEMMA NetworkFrame ==
  ASSUME HostInv, network' => network,
         \A c \in RuntimeBoxes : loss'[c] = "none" => loss[c] = "none",
         (\A c \in RuntimeBoxes : loss'[c] = "none") /\ network' =>
            \A c \in Boxes : Heir(c) => Heir(c)'
  PROVE  NetworkInv'
BY DEF HostInv, NetworkInv

LEMMA ExitHost ==
  ASSUME HostInv, NEW b \in Boxes, Exit(b), TypeInv'
  PROVE  HostInv'
<1>1. UNCHANGED <<record, handle, call, job, known, workspaces, network, use, wreck, loss>>
      /\ running' = running \ {b}
  BY DEF Exit, store
<1>2. \A c \in Boxes : BoxInv(c)'
  BY <1>1 DEF HostInv, BoxInv
<1>3. \A w \in Wreckers : WreckInv(w)'
  BY <1>1 DEF HostInv, WreckInv
<1>4. NetworkInv'
  BY <1>1, NetworkFrame DEF Heir
<1> QED BY <1>2, <1>3, <1>4 DEF HostInv

LEMMA UseHost ==
  ASSUME HostInv, NEW u \in Users, BeginUse(u) \/ EndUse(u), TypeInv'
  PROVE  HostInv'
<1>1. UNCHANGED <<handle, call, job, host, wreck, loss>>
  BY DEF BeginUse, EndUse
<1>2. \A b, st : Moved(b, st) /\ st # "none" => \A c \in Boxes : (record'[c] = "none") = (record[c] = "none")
  BY DEF Moved, HostInv, TypeInv, ManagerTypeOK
<1>3. \A c \in Boxes : (record'[c] = "none") = (record[c] = "none")
  BY <1>2 DEF BeginUse, EndUse
<1>4. \A c \in Boxes : SameBox(c)
  BY <1>1, <1>3 DEF SameBox, host
<1>5. \A w \in Wreckers : WreckInv(w)'
  BY <1>1, <1>4, WreckFrame DEF HostInv, WreckInv
<1>6. NetworkInv'
  BY <1>1, <1>3, NetworkFrame DEF Heir, host
<1> QED BY <1>4, <1>5, <1>6, BoxFrame DEF HostInv

(* A destroy() begins: what it reads is what there is.                     *)
LEMMA BeginWreck ==
  ASSUME HostInv, NEW w \in Wreckers, NEW b \in Boxes, StartsDestroy(w, b),
         w \in Boxes => w = b /\ call'[b] = "failing", w \notin Boxes => call'[b] = "returned",
         UNCHANGED <<record, handle, job, known, running>>,
         loss'[b] = "none" => loss[b] = "none" /\ call[b] \notin {"idle", "creating"}
  PROVE  WreckInv(w)'
<1>1. wreck'[w] = [step |-> "rm", box |-> b, real |-> record[b] # "none" /\ b \in handle,
                   ctx |-> (record[b] # "none" /\ b \in handle) /\ b \in known]
  BY DEF StartsDestroy, HostInv, TypeInv, ManagerTypeOK
<1>2. BoxInv(b)
  BY DEF HostInv
<1>3. b \in handle => job'[b] = "done"
  BY <1>2 DEF BoxInv
<1>4. loss'[b] = "none" /\ record'[b] # "none" => record[b] # "none" /\ b \in handle /\ b \in known
  BY <1>2 DEF BoxInv
<1>5. /\ wreck'[w].step = "rm" /\ wreck'[w].box = b
      /\ wreck'[w].real = (record[b] # "none" /\ b \in handle)
      /\ wreck'[w].ctx = ((record[b] # "none" /\ b \in handle) /\ b \in known)
  BY <1>1
<1> QED BY <1>3, <1>4, <1>5 DEF WreckInv

LEMMA CallHost ==
  ASSUME HostInv, NEW b \in Boxes, CreateBox(b) \/ Created(b) \/ CreateFails(b) \/ Started(b), TypeInv'
  PROVE  HostInv'
<1> USE DEF HostInv, TypeInv, ManagerTypeOK, store, host, Jobs, Calls, Loses
<1>0. b \in Wreckers /\ BoxInv(b) /\ \A w \in Wreckers \ {b} : w \in Boxes \/ w \notin Boxes
  BY DEF Wreckers
<1>1. \A c \in Boxes \ {b} : SameBox(c)
  <2> USE DEF SameBox
  <2>1. CASE CreateBox(b) \/ Created(b)
    BY <2>1 DEF CreateBox, Created
  <2>2. CASE CreateFails(b) \/ Started(b)
    BY <2>2 DEF CreateFails, Started
  <2> QED BY <2>1, <2>2
<1>2. UNCHANGED <<known, running, workspaces, network>>
  BY DEF CreateBox, Created, CreateFails, Started
<1>3. BoxInv(b)'
  <2>1. CASE CreateBox(b)
    BY <1>0, <1>2, <2>1 DEF CreateBox, BoxInv, Working
  <2>2. CASE Created(b)
    BY <1>0, <1>2, <2>2 DEF Created, BoxInv, Working
  <2>3. CASE CreateFails(b)
    BY <1>0, <1>2, <2>3 DEF CreateFails, TimerEnds, BoxInv, Working, JobPC
  <2>4. CASE Started(b)
    BY <1>0, <1>2, <2>4 DEF Started, BoxInv, Working
  <2> QED BY <2>1, <2>2, <2>3, <2>4
<1>4. ASSUME NEW w \in Wreckers PROVE WreckInv(w)'
  <2>1. call[b] \in {"idle", "creating", "starting"}
    BY DEF CreateBox, Created, CreateFails, Started
  <2>2. wreck[w].step # "none" => w # b /\ wreck[w].box # b /\ wreck[w].box \in Boxes
    BY <2>1 DEF WreckInv
  <2>3. CASE UNCHANGED wreck
    BY <1>1, <2>2, <2>3, WreckFrame
  <2>4. CASE StartsDestroy(b, b) /\ w # b
    <3>1. wreck'[w] = wreck[w]
      BY <2>4 DEF StartsDestroy
    <3> QED BY <1>1, <2>2, <3>1, WreckFrame
  <2>5. CASE StartsDestroy(b, b) /\ w = b /\ CreateFails(b)
    <3>1. loss'[b] # "none"
      BY <1>0, <2>5 DEF CreateFails, BoxInv
    <3> QED BY <1>2, <2>5, <3>1, BeginWreck DEF CreateFails
  <2>6. CASE StartsDestroy(b, b) /\ w = b /\ Started(b) /\ call'[b] = "failing"
    BY <1>2, <2>6, BeginWreck DEF Started
  <2> QED BY <2>3, <2>4, <2>5, <2>6 DEF CreateBox, Created, CreateFails, Started
<1>5. NetworkInv'
  <2>1. \A c \in RuntimeBoxes : loss'[c] = "none" => loss[c] = "none"
    BY <1>1, <1>0 DEF SameBox, CreateBox, Created, CreateFails, Started, Boxes
  <2>2. Heir(b) => Heir(b)'
    BY <1>0 DEF Heir, CreateBox, Created, CreateFails, Started, BoxInv
  <2>3. \A c \in Boxes \ {b} : Heir(c) => Heir(c)'
    BY <1>1 DEF Heir, SameBox
  <2> QED BY <1>2, <2>1, <2>2, <2>3, NetworkFrame
<1> QED BY <1>1, <1>3, <1>4, <1>5, BoxFrame

LEMMA DestroyHost ==
  ASSUME HostInv, NEW w \in Destroyers, NEW b \in Boxes, DestroyBox(w, b), TypeInv'
  PROVE  HostInv'
<1>1. UNCHANGED <<store, call, job, host, use, loss, dockerFaults>> /\ call[b] = "returned"
  BY DEF DestroyBox
<1>2. w \in Wreckers /\ w \notin Boxes
  BY DEF Wreckers
<1>3. \A c \in Boxes : SameBox(c)
  BY <1>1 DEF SameBox, store, host
<1>4. WreckInv(w)'
  BY <1>1, <1>2, BeginWreck DEF DestroyBox, store, host
<1>5. \A v \in Wreckers \ {w} : wreck'[v] = wreck[v]
  BY DEF DestroyBox, StartsDestroy, HostInv, TypeInv, ManagerTypeOK
<1>6. \A v \in Wreckers \ {w} : WreckInv(v)'
  BY <1>3, <1>5, WreckFrame DEF HostInv, WreckInv
<1>7. NetworkInv'
  BY <1>1, NetworkFrame DEF Heir, store, host
<1> QED BY <1>3, <1>4, <1>6, <1>7, BoxFrame DEF HostInv

(* A destroy() goes on.  The sandbox is forgotten: if nothing went wrong   *)
(* with it, its container and its workspace are gone.                      *)
LEMMA ForgetsHost ==
  ASSUME HostInv, NEW w \in Wreckers, NEW b \in Boxes, Forgets(w, b),
         wreck[w].step # "none", wreck[w].box = b,
         UNCHANGED job,
         \A c \in Boxes \ {b} : /\ loss'[c] = loss[c] /\ (c \in running') = (c \in running)
                                /\ (c \in workspaces') = (c \in workspaces),
         loss'[b] = loss[b] \/ (loss'[b] = "kept" /\ job[b] = "done"),
         b \in running' => b \in running, b \in workspaces' => b \in workspaces,
         loss'[b] = "none" => b \notin running' /\ b \notin workspaces'
  PROVE  /\ \A c \in Boxes : BoxInv(c)'
         /\ \A v \in Wreckers : WreckInv(v)'
<1> USE DEF HostInv, TypeInv, ManagerTypeOK
<1>1. WreckInv(w) /\ BoxInv(b) /\ call[b] \in {"failing", "returned"}
  BY DEF WreckInv, Wreckers
<1>2. \A c \in Boxes \ {b} : SameBox(c)
  BY DEF Forgets, SameBox
<1>3. /\ record'[b] = "none" /\ b \notin handle' /\ job'[b] = job[b]
      /\ call'[b] = call[b] \/ (w = b /\ call'[b] = "threw")
      /\ wreck'[w].step = "none" /\ \A v \in Wreckers \ {w} : wreck'[v] = wreck[v]
  BY DEF Forgets, NoWreck
<1>4. BoxInv(b)'
  BY <1>1, <1>3 DEF BoxInv, Working
<1>5. ASSUME NEW v \in Wreckers PROVE WreckInv(v)'
  <2>1. CASE v = w
    BY <1>3, <2>1 DEF WreckInv
  <2>2. CASE v # w /\ (wreck[v].step = "none" \/ wreck[v].box # b)
    BY <1>2, <1>3, <2>2, WreckFrame DEF WreckInv
  <2>3. CASE v # w /\ wreck[v].step # "none" /\ wreck[v].box = b
    <3>1. WreckInv(v) /\ wreck'[v] = wreck[v]
      BY <1>3, <2>3
    <3>2. v \in Boxes => v = b /\ call[b] = "failing" /\ w # b
      BY <2>3, <3>1 DEF WreckInv
    <3>3. w \in Boxes => w = b /\ call[b] = "failing"
      BY <1>1 DEF WreckInv
    <3>4. w \notin Boxes => call[b] = "returned"
      BY <1>1 DEF WreckInv
    <3>5. v \notin Boxes /\ call[b] = "returned" /\ w \notin Boxes
      BY <2>3, <3>1, <3>2, <3>3, <3>4 DEF WreckInv
    <3>6. call'[b] = "returned"
      BY <1>3, <3>5
    <3> QED BY <1>3, <2>3, <3>1, <3>5, <3>6 DEF WreckInv
  <2> QED BY <2>1, <2>2, <2>3
<1> QED BY <1>2, <1>4, <1>5, BoxFrame

LEMMA RemoveContainerHost ==
  ASSUME HostInv, NEW w \in Wreckers, NEW b \in Boxes, wreck[w].box = b, RemoveContainer(w), TypeInv'
  PROVE  HostInv'
<1> USE DEF HostInv, TypeInv, ManagerTypeOK
<1>1. WreckInv(w) /\ wreck[w].step = "rm" /\ b \in Boxes /\ BoxInv(b)
  BY DEF RemoveContainer, WreckInv
<1>2. /\ UNCHANGED <<job, workspaces, network>>
      /\ \/ running' = (IF wreck[w].real THEN running \ {b} ELSE running) /\ UNCHANGED loss
         \/ wreck[w].real /\ loss' = [loss EXCEPT ![b] = "kept"] /\ UNCHANGED running
  BY DEF RemoveContainer, NoFault, DockerFault, Loses
<1>3. /\ \A c \in Boxes \ {b} : loss'[c] = loss[c] /\ (c \in running') = (c \in running)
      /\ loss'[b] = loss[b] \/ (loss'[b] = "kept" /\ job[b] = "done")
      /\ b \in running' => b \in running
      /\ loss'[b] = "none" => b \notin running' \/ ~wreck[w].real
  BY <1>1, <1>2 DEF WreckInv
<1>4. CASE ~wreck[w].ctx /\ Forgets(w, b)
  <2>1. loss'[b] = "none" => loss[b] = "none" /\ record[b] = "none" /\ job[b] = "done"
    BY <1>1, <1>2, <1>4 DEF WreckInv, BoxInv
  <2>2. loss'[b] = "none" => b \notin running' /\ b \notin workspaces'
    BY <1>1, <1>2, <1>3, <2>1 DEF BoxInv
  <2>3. /\ \A c \in Boxes : BoxInv(c)'
        /\ \A v \in Wreckers : WreckInv(v)'
    BY <1>1, <1>2, <1>3, <1>4, <2>2, ForgetsHost
  <2>4. \A c \in RuntimeBoxes : loss'[c] = "none" => loss[c] = "none"
    BY <1>2, <1>3 DEF Boxes
  <2>5. ASSUME NEW c \in Boxes, Heir(c), \A d \in RuntimeBoxes : loss'[d] = "none" PROVE Heir(c)'
    <3>1. CASE c = b
      BY <1>2, <2>1, <2>5, <3>1 DEF Heir
    <3>2. CASE c # b
      BY <1>2, <1>4, <2>5, <3>2 DEF Heir, Forgets
    <3> QED BY <3>1, <3>2
  <2> QED BY <1>2, <2>3, <2>4, <2>5, NetworkFrame
<1>5. CASE /\ wreck[w].ctx /\ UNCHANGED <<store, call, known>>
           /\ wreck' = [wreck EXCEPT ![w].step = IF b \in RuntimeBoxes THEN "network" ELSE "workspace"]
  <2>1. \A c \in Boxes \ {b} : SameBox(c)
    BY <1>2, <1>3, <1>5 DEF SameBox, store
  <2>2. BoxInv(b)'
    BY <1>1, <1>2, <1>3, <1>5 DEF BoxInv, WreckInv, store, Working
  <2>3. ASSUME NEW v \in Wreckers PROVE WreckInv(v)'
    <3>1. WreckInv(v)
      OBVIOUS
    <3>2. CASE v # w /\ wreck[v].box # b
      BY <1>5, <2>1, <3>1, <3>2, WreckFrame DEF WreckInv
    <3>3. CASE v # w /\ wreck[v].box = b
      <4>1. wreck'[v] = wreck[v]
        BY <1>5, <3>3
      <4>2. UNCHANGED <<record, handle, call, job>> /\ (loss'[b] = "none" => loss[b] = "none")
        BY <1>2, <1>5 DEF store
      <4> QED BY <1>1, <1>3, <3>1, <3>3, <4>1, <4>2 DEF WreckInv
    <3>4. CASE v = w
      <4>1. /\ wreck'[w].step = (IF b \in RuntimeBoxes THEN "network" ELSE "workspace")
            /\ wreck'[w].box = b /\ wreck'[w].real = wreck[w].real /\ wreck'[w].ctx = wreck[w].ctx
        <5> DEFINE next == IF b \in RuntimeBoxes THEN "network" ELSE "workspace"
        <5>1. wreck[w] \in [step : {"none", "rm", "network", "workspace"}, box : Boxes \cup {"none"},
                             real : BOOLEAN, ctx : BOOLEAN]
          OBVIOUS
        <5>2. wreck'[w] = [wreck[w] EXCEPT !.step = next]
          BY <1>5
        <5> HIDE DEF next
        <5>3. /\ wreck'[w].step = next /\ wreck'[w].box = b
              /\ wreck'[w].real = wreck[w].real /\ wreck'[w].ctx = wreck[w].ctx
          BY <5>1, <5>2
        <5> QED BY <5>3 DEF next
      <4>2. UNCHANGED <<record, handle, call, job>>
        BY <1>2, <1>5 DEF store
      <4> QED BY <1>1, <1>3, <1>5, <3>4, <4>1, <4>2 DEF WreckInv
    <3> QED BY <3>2, <3>3, <3>4
  <2>4. NetworkInv'
    <3>1. \A c \in RuntimeBoxes : loss'[c] = "none" => loss[c] = "none"
      BY <1>2, <1>3 DEF Boxes
    <3> QED BY <1>2, <1>5, <3>1, NetworkFrame DEF Heir, store
  <2>5. ASSUME NEW c \in Boxes PROVE BoxInv(c)'
    <3>1. CASE c # b
      BY <2>1, <3>1, BoxFrame
    <3> QED BY <2>2, <3>1
  <2> HIDE DEF TypeInv, ManagerTypeOK
  <2> QED BY <2>3, <2>4, <2>5
<1> HIDE DEF HostInv, TypeInv, ManagerTypeOK
<1> QED BY <1>4, <1>5 DEF RemoveContainer

LEMMA RemoveNetworkHost ==
  ASSUME HostInv, NEW w \in Wreckers, RemoveNetwork(w), TypeInv'
  PROVE  HostInv'
<1> DEFINE b == wreck[w].box
<1> USE DEF HostInv, TypeInv, ManagerTypeOK
<1>1. /\ WreckInv(w) /\ wreck[w].step = "network" /\ b \in Boxes /\ BoxInv(b)
      /\ b \in RuntimeBoxes /\ job[b] = "done" /\ b \notin workspaces
  BY DEF RemoveNetwork, WreckInv, Boxes
<1>2. /\ UNCHANGED <<job, running, workspaces>> /\ Forgets(w, b)
      /\ \/ network' = (network /\ Attached) /\ UNCHANGED loss
         \/ loss' = [loss EXCEPT ![b] = "kept"] /\ UNCHANGED network
  BY DEF RemoveNetwork, NoFault, DockerFault, Loses
<1>3. loss'[b] = "none" => loss[b] = "none" /\ b \notin running'
  BY <1>1, <1>2 DEF WreckInv
<1>4. /\ \A c \in Boxes : BoxInv(c)'
      /\ \A v \in Wreckers : WreckInv(v)'
  BY <1>1, <1>2, <1>3, ForgetsHost
<1>5. ASSUME network', \A c \in RuntimeBoxes : loss'[c] = "none" PROVE \E c \in Boxes : Heir(c)'
  <2>1. UNCHANGED loss /\ Attached
    BY <1>1, <1>2, <1>5
  <2>2. PICK c \in RuntimeBoxes : c \in running
    BY <2>1 DEF Attached
  <2>3. c \in Boxes /\ c # b /\ BoxInv(c) /\ loss[c] = "none"
    BY <1>2, <1>3, <1>5, <2>1, <2>2 DEF Boxes
  <2>4. job[c] = "done" /\ record[c] # "none"
    BY <2>2, <2>3 DEF BoxInv, Working, JobPC
  <2>5. record'[c] = record[c]
    BY <1>2, <2>3 DEF Forgets
  <2> QED BY <1>2, <2>2, <2>3, <2>4, <2>5 DEF Heir
<1> QED BY <1>4, <1>5 DEF NetworkInv

LEMMA RemoveWorkspaceHost ==
  ASSUME HostInv, NEW w \in Wreckers, RemoveWorkspace(w), TypeInv'
  PROVE  HostInv'
<1> DEFINE b == wreck[w].box
<1> USE DEF HostInv, TypeInv, ManagerTypeOK
<1>1. /\ WreckInv(w) /\ wreck[w].step = "workspace" /\ b \in Boxes /\ BoxInv(b)
      /\ b \notin RuntimeBoxes /\ job[b] = "done"
  BY DEF RemoveWorkspace, WreckInv
<1>2. /\ UNCHANGED <<job, running, network>> /\ Forgets(w, b)
      /\ \/ workspaces' = workspaces \ {b} /\ UNCHANGED loss
         \/ loss' = [loss EXCEPT ![b] = "kept"] /\ UNCHANGED workspaces
  BY DEF RemoveWorkspace, NoFault, DockerFault, Loses
<1>3. loss'[b] = "none" => loss[b] = "none" /\ b \notin running' /\ b \notin workspaces'
  BY <1>1, <1>2 DEF WreckInv
<1>4. /\ \A c \in Boxes : BoxInv(c)'
      /\ \A v \in Wreckers : WreckInv(v)'
  BY <1>1, <1>2, <1>3, ForgetsHost
<1>5. \A c \in Boxes : Heir(c) => Heir(c)'
  BY <1>1, <1>2 DEF Heir, Forgets
<1>6. \A c \in RuntimeBoxes : loss'[c] = "none" => loss[c] = "none"
  BY <1>1, <1>2 DEF Boxes
<1> QED BY <1>2, <1>4, <1>5, <1>6, NetworkFrame

LEMMA StepHost == HostInv /\ [ManagerNext]_managerVars => HostInv'
<1> SUFFICES ASSUME HostInv, [ManagerNext]_managerVars PROVE HostInv'
  OBVIOUS
<1>1. CASE UNCHANGED managerVars
  BY <1>1 DEF managerVars, store, host, HostInv, TypeInv, Kinds, ManagerTypeOK, BoxInv, WreckInv,
              NetworkInv, Heir
<1>2. ASSUME NEW b \in Boxes, CreateBox(b) \/ Created(b) \/ CreateFails(b) \/ Started(b)
      PROVE  HostInv'
  BY <1>2, CallTypes, CallHost DEF HostInv
<1>3. ASSUME NEW b \in Boxes, Job(b) PROVE HostInv'
  BY <1>3, JobTypes, JobHost DEF HostInv
<1>4. ASSUME NEW b \in Boxes, Exit(b) PROVE HostInv'
  BY <1>4, JobTypes, ExitHost DEF HostInv
<1>5. ASSUME NEW w \in Wreckers, Wreck(w) PROVE HostInv'
  <2>1. wreck[w].box \in Boxes
    BY <1>5 DEF Wreck, RemoveContainer, RemoveNetwork, RemoveWorkspace, HostInv, WreckInv
  <2> QED BY <1>5, <2>1, WreckTypes, RemoveContainerHost, RemoveNetworkHost, RemoveWorkspaceHost
          DEF Wreck, HostInv
<1>6. ASSUME NEW w \in Destroyers, NEW b \in Boxes, DestroyBox(w, b) PROVE HostInv'
  BY <1>6, DestroyTypes, DestroyHost DEF HostInv
<1>7. ASSUME NEW u \in Users, BeginUse(u) \/ EndUse(u) PROVE HostInv'
  BY <1>7, UseTypes, UseHost DEF HostInv
<1> QED BY <1>1, <1>2, <1>3, <1>4, <1>5, <1>6, <1>7 DEF ManagerNext

(* The variables keep their types.                                         *)
THEOREM ManagerTypes == ManagerSpec => []ManagerTypeOK
<1>1. HostInv => ManagerTypeOK
  BY DEF HostInv, TypeInv
<1> QED BY <1>1, StartHost, StepHost, PTL DEF ManagerSpec

(* When every sandbox is gone, what is left on the host is left by one of  *)
(* the faults the manager cannot see, whatever the order of creations that *)
(* are given up, destroys of the same sandbox and of its siblings          *)
(* (SandboxManagerService, DockerSandboxBackend).                          *)
THEOREM NothingElseIsLeft == ManagerSpec => []HostIsClean
BY StartHost, StepHost, HostIsCleanHolds, PTL DEF ManagerSpec

(* A destroyed sandbox is not written back by a call that answers late     *)
(* (SandboxManagerService.transition).                                     *)
THEOREM DestroyedStaysGone == ManagerSpec => NeverResurrected
<1>1. ASSUME HostInv, [ManagerNext]_managerVars
      PROVE  [\A b \in Boxes : record[b] = "none" /\ call[b] # "idle" => record'[b] = "none"]_managerVars
  <2> SUFFICES ASSUME ManagerNext, NEW b \in Boxes, record[b] = "none", call[b] # "idle"
               PROVE  record'[b] = "none"
    BY <1>1
  <2>1. call[b] # "creating" /\ record \in [Boxes -> BoxStatus \cup {"none"}]
    BY <1>1 DEF HostInv, BoxInv, TypeInv, ManagerTypeOK
  <2>2. ASSUME NEW c \in Boxes, CreateBox(c) \/ Created(c) \/ CreateFails(c) \/ Started(c)
        PROVE  record'[b] = "none"
    BY <2>1, <2>2 DEF CreateBox, Created, CreateFails, Started, store
  <2>3. ASSUME NEW c \in Boxes, Job(c) \/ Exit(c) PROVE record'[b] = "none"
    BY <2>3 DEF Job, InspectNetwork, CreateNetwork, ProvisionWorkspace, RunContainer, Exit, store
  <2>4. ASSUME NEW w \in Wreckers, Wreck(w) PROVE record'[b] = "none"
    BY <2>1, <2>4 DEF Wreck, RemoveContainer, RemoveNetwork, RemoveWorkspace, Forgets, store
  <2>5. ASSUME NEW w \in Destroyers, NEW c \in Boxes, DestroyBox(w, c) PROVE record'[b] = "none"
    BY <2>5 DEF DestroyBox, store
  <2>6. ASSUME NEW u \in Users, BeginUse(u) \/ EndUse(u) PROVE record'[b] = "none"
    <3>1. \A c, st : Moved(c, st) => record'[b] = "none"
      BY <2>1 DEF Moved
    <3> QED BY <2>6, <3>1 DEF BeginUse, EndUse
  <2> QED BY <2>2, <2>3, <2>4, <2>5, <2>6 DEF ManagerNext
<1> QED BY <1>1, StartHost, StepHost, PTL DEF ManagerSpec, NeverResurrected
=============================================================================
