--------------------------- MODULE RuntimeSandbox ---------------------------
(***************************************************************************)
(* The runtime-sandbox lifecycle service: concurrent create() calls, each  *)
(* sweeping what has expired before it provisions, destroy() calls, and    *)
(* process crashes.  One step is the code between two awaits.  A record in *)
(* the durable store is overwritten whole from the caller's own snapshot   *)
(* (patchSandbox), the registry of slots and the manager's id table live   *)
(* in the process, and the resources live on the host.                     *)
(***************************************************************************)
EXTENDS Naturals, FiniteSets, Sequences

CONSTANTS Requests,       \* create() calls; each mints one sandbox id
          Known,          \* the requests whose scan exists and owns the repository
          Destroyers,     \* callers of destroy()
          MaxConcurrent,  \* config.maxConcurrent
          LifetimeCovers, \* TRUE: a lifetime is longer than any provisioning
          FaultKinds,     \* subset of {"crash", "store"}
          MaxFaults       \* bound on the number of such faults

ASSUME ConstantsAssumption ==
  /\ Known \subseteq Requests
  /\ Requests \cap Destroyers = {}
  /\ MaxConcurrent \in Nat /\ MaxFaults \in Nat
  /\ LifetimeCovers \in BOOLEAN

VARIABLES store,     \* durable records: status and the resources they name
          registry,  \* slots taken (in memory)
          known,     \* ids the sandbox manager can map to a container (in memory)
          up,        \* resources that exist on the host
          aged,      \* ids whose expiresAt has passed
          pc, loc,   \* per create(): where it awaits, its local record
          sweep,     \* per create(): progress of its cleanupExpired()
          task,      \* per caller: the destroy/expire/cleanup it is performing
          faults     \* faults so far

vars == <<store, registry, known, up, aged, pc, loc, sweep, task, faults>>

Resources == {"container", "image", "workspace"}
LiveOrderNoReady == <<"CREATING", "BUILDING", "STARTING", "HEALTH_CHECKING", "DESTROYING">>
LiveOrder == <<"CREATING", "BUILDING", "STARTING", "HEALTH_CHECKING", "READY", "DESTROYING">>
Live == {"CREATING", "BUILDING", "STARTING", "HEALTH_CHECKING", "READY", "DESTROYING"}
Gone == {"DESTROYED", "EXPIRED"}
Status == Live \cup Gone \cup {"FAILED", "NONE"}
Record == [status : Status, refs : SUBSET Resources]
NoRecord == [status |-> "NONE", refs |-> {}]

Callers == Requests \cup Destroyers
Idle == [kind |-> "none"]
Task == [kind : {"destroy", "expire", "clean", "fail"}, id : Requests, rec : Record,
         at : {"get", "mark", "clean", "slot"}, left : SUBSET Resources]
Sweep == [at : 0 .. Len(LiveOrder) + 1, now : SUBSET Requests,
          todo : [Requests -> Record]]
NoSweep == [at |-> 0, now |-> {}, todo |-> [i \in Requests |-> NoRecord]]

InFlight == {"register", "prepare", "saveWorkspace", "resolve", "build", "saveImage",
             "provision", "wait", "saveStarting", "saveHealth", "probe", "saveReady", "fail"}
Over == {"idle", "refused", "returned", "failed", "crashed"}
PC == InFlight \cup Over \cup {"sweep", "count", "owner", "seed"}

Init ==
  /\ store = [i \in Requests |-> NoRecord]
  /\ registry = {} /\ known = {} /\ aged = {}
  /\ up = [i \in Requests |-> {}]
  /\ pc = [i \in Requests |-> "idle"]
  /\ loc = [i \in Requests |-> NoRecord]
  /\ sweep = [i \in Requests |-> NoSweep]
  /\ task = [c \in Callers |-> Idle]
  /\ faults = 0

-----------------------------------------------------------------------------
(* create(): the gate *)

Goto(i, l) == pc' = [pc EXCEPT ![i] = l]
FaultOf(kind) == kind \in FaultKinds /\ faults < MaxFaults /\ faults' = faults + 1

BeginCreate(i) ==
  /\ pc[i] \in {"idle", "refused"}
  /\ Goto(i, "sweep")
  /\ sweep' = [sweep EXCEPT ![i] = [at |-> 0, now |-> aged, todo |-> NoSweep.todo]]
  /\ UNCHANGED <<store, registry, known, up, aged, loc, task, faults>>

(* What the sweep takes of listByStatus for its next status: the live      *)
(* records that had expired when it started, and in the end every FAILED.  *)
Listed(s) ==
  [j \in Requests |->
     IF \/ s.at = Len(LiveOrder) /\ store[j].status = "FAILED"
        \/ s.at < Len(LiveOrder) /\ store[j].status = LiveOrder[s.at + 1] /\ j \in s.now
     THEN store[j] ELSE NoRecord]

(* An error of the query ends the sweep (it is logged).                    *)
SweepList(i) ==
  LET s == sweep[i]
  IN /\ pc[i] = "sweep" /\ task[i] = Idle
     /\ \A j \in Requests : s.todo[j] = NoRecord
     /\ \/ /\ s.at <= Len(LiveOrder)
           /\ sweep' = [sweep EXCEPT ![i] = [at |-> s.at + 1, now |-> s.now, todo |-> Listed(s)]]
           /\ UNCHANGED <<pc, faults>>
        \/ /\ IF s.at > Len(LiveOrder) THEN UNCHANGED faults ELSE FaultOf("store")
           /\ Goto(i, "count") /\ sweep' = [sweep EXCEPT ![i] = NoSweep]
     /\ UNCHANGED <<store, registry, known, up, aged, loc, task>>

(* What cleanup() reclaims of a record: all it names.                      *)
KeepsImage(rec) == rec.refs \ {"image"}                \* slip: removeImage off by default
Reclaims(rec) == rec.refs

(* One record of the list is done with.                                    *)
DoneWith(s, j) == [s EXCEPT !.todo[j] = NoRecord]

(* The loop body for one listed record: expire(id), or cleanup of a FAILED *)
(* record as it was listed.                                                *)
SweepOne(i, j) ==
  LET rec == sweep[i].todo[j]
  IN /\ pc[i] = "sweep" /\ task[i] = Idle /\ rec # NoRecord
     /\ task' = [task EXCEPT ![i] =
          IF rec.status = "FAILED"
          THEN [kind |-> "clean", id |-> j, rec |-> rec, at |-> "clean", left |-> Reclaims(rec)]
          ELSE [kind |-> "expire", id |-> j, rec |-> NoRecord, at |-> "get", left |-> {}]]
     /\ sweep' = [sweep EXCEPT ![i] = DoneWith(@, j)]
     /\ UNCHANGED <<store, registry, known, up, aged, pc, loc, faults>>

CountActive(i) ==
  /\ pc[i] = "count"
  /\ Goto(i, IF Cardinality(registry) >= MaxConcurrent THEN "refused" ELSE "owner")
  /\ UNCHANGED <<store, registry, known, up, aged, loc, sweep, task, faults>>

ValidateOwnership(i) ==
  /\ pc[i] = "owner"
  /\ Goto(i, IF i \in Known THEN "seed" ELSE "refused")
  /\ UNCHANGED <<store, registry, known, up, aged, loc, sweep, task, faults>>

-----------------------------------------------------------------------------
(* create(): provisioning.  Patch is patchSandbox: the whole record is     *)
(* written from the local one; a failed save leaves the local one as it    *)
(* was and enters fail().                                                  *)

Patch(i, from, status, new, to) ==
  LET rec == [status |-> status, refs |-> loc[i].refs \cup new]
  IN /\ pc[i] = from
     /\ \/ /\ store' = [store EXCEPT ![i] = rec]
           /\ loc' = [loc EXCEPT ![i] = rec]
           /\ Goto(i, to) /\ UNCHANGED faults
        \/ /\ FaultOf("store")
           /\ Goto(i, "fail") /\ UNCHANGED <<store, loc>>
     /\ UNCHANGED <<registry, known, up, aged, sweep, task>>

SeedSave(i) ==
  /\ pc[i] = "seed"
  /\ loc' = [loc EXCEPT ![i] = [status |-> "CREATING", refs |-> {}]]
  /\ \/ store' = [store EXCEPT ![i] = [status |-> "CREATING", refs |-> {}]]
        /\ Goto(i, "register") /\ UNCHANGED faults
     \/ FaultOf("store") /\ Goto(i, "fail") /\ UNCHANGED store
  /\ UNCHANGED <<registry, known, up, aged, sweep, task>>

Register(i) ==
  /\ pc[i] = "register"
  /\ registry' = registry \cup {i}
  /\ Goto(i, "prepare")
  /\ UNCHANGED <<store, known, up, aged, loc, sweep, task, faults>>

(* An external call of create(): it makes the resources in new and goes on, *)
(* possible only while those in needs exist, or it fails.                   *)
Call(i, from, needs, new, to) ==
  /\ pc[i] = from
  /\ \/ needs \subseteq up[i] /\ Goto(i, to) /\ up' = [up EXCEPT ![i] = @ \cup new]
     \/ Goto(i, "fail") /\ UNCHANGED up
  /\ UNCHANGED <<store, registry, aged, loc, sweep, task, faults>>

(* The directory is made first; a failing clone or copy leaves it behind.  *)
PrepareWorkspace(i) ==
  /\ pc[i] = "prepare"
  /\ \/ \E l \in {"saveWorkspace", "fail"} :
          Goto(i, l) /\ up' = [up EXCEPT ![i] = @ \cup {"workspace"}]
     \/ Goto(i, "fail") /\ UNCHANGED up
  /\ UNCHANGED <<store, registry, known, aged, loc, sweep, task, faults>>

SaveWorkspace(i) == Patch(i, "saveWorkspace", loc[i].status, {"workspace"}, "resolve")

(* resolveRuntimeConfig reads the workspace, then the record is BUILDING.  *)
ResolveFails(i) ==
  /\ pc[i] = "resolve"
  /\ Goto(i, "fail")
  /\ UNCHANGED <<store, registry, known, up, aged, loc, sweep, task, faults>>
Resolve(i) == Patch(i, "resolve", "BUILDING", {}, "build")

BuildImage(i) == Call(i, "build", {"workspace"}, {"image"}, "saveImage") /\ UNCHANGED known
SaveImage(i) == Patch(i, "saveImage", loc[i].status, {"image"}, "provision")

(* provisionContainer: the manager creates and starts the container, then  *)
(* waits for it and inspects it; only after that is its id recorded.       *)
CreateContainer(i) ==
  /\ Call(i, "provision", {"image"}, {"container"}, "wait")
  /\ known' = IF pc'[i] = "wait" THEN known \cup {i} ELSE known
WaitUntilReady(i) == Call(i, "wait", {"container"}, {}, "saveStarting") /\ UNCHANGED known
SaveStarting(i) == Patch(i, "saveStarting", "STARTING", {"container"}, "saveHealth")
SaveHealth(i) == Patch(i, "saveHealth", "HEALTH_CHECKING", {}, "probe")
Probe(i) == Call(i, "probe", {"container"}, {}, "saveReady") /\ UNCHANGED known
SaveReady(i) == Patch(i, "saveReady", "READY", {}, "returned")

(* fail(): the record becomes FAILED (an error of that save is swallowed), *)
(* then the resources it names are reclaimed and the slot released.        *)
Fail(i) ==
  LET rec == [loc[i] EXCEPT !.status = "FAILED"]
      cleaning(r) == [kind |-> "fail", id |-> i, rec |-> r, at |-> "clean", left |-> Reclaims(r)]
  IN /\ pc[i] = "fail" /\ task[i] = Idle
     /\ \/ /\ store' = [store EXCEPT ![i] = rec]
           /\ task' = [task EXCEPT ![i] = cleaning(rec)] /\ UNCHANGED faults
        \/ /\ FaultOf("store")
           /\ task' = [task EXCEPT ![i] = cleaning(loc[i])] /\ UNCHANGED store
     /\ UNCHANGED <<registry, known, up, aged, pc, loc, sweep>>

-----------------------------------------------------------------------------
(* destroy(), expire() and the cleanup they share with fail() *)

(* A caller knows the id once create() has answered with it.               *)
BeginDestroy(d, i) ==
  /\ task[d] = Idle /\ pc[i] \in {"returned", "failed"}
  /\ task' = [task EXCEPT ![d] =
       [kind |-> "destroy", id |-> i, rec |-> NoRecord, at |-> "get", left |-> {}]]
  /\ UNCHANGED <<store, registry, known, up, aged, pc, loc, sweep, faults>>

(* store.get: a missing record is an error, a DESTROYED or EXPIRED one is  *)
(* returned as it is.                                                      *)
TaskGet(c) ==
  LET rec == store[task[c].id]
  IN /\ task[c] # Idle /\ task[c].at = "get"
     /\ \/ /\ rec.status \notin Gone \cup {"NONE"} /\ UNCHANGED faults
           /\ task' = [task EXCEPT ![c].rec = rec, ![c].at = "mark"]
        \/ /\ IF rec.status \in Gone \cup {"NONE"} THEN UNCHANGED faults ELSE FaultOf("store")
           /\ task' = [task EXCEPT ![c] = Idle]
     /\ UNCHANGED <<store, registry, known, up, aged, pc, loc, sweep>>

MarkExpiring(kind) == "EXPIRING"  \* slip: a status the records do not have
MarkStatus(kind) == IF kind = "expire" THEN "EXPIRED" ELSE "DESTROYING"

(* DESTROYING or EXPIRED is written before anything is reclaimed; a failed *)
(* save ends the call.                                                     *)
TaskMark(c) ==
  LET t == task[c]
      rec == [t.rec EXCEPT !.status = MarkStatus(t.kind)]
  IN /\ t # Idle /\ t.at = "mark"
     /\ \/ /\ store' = [store EXCEPT ![t.id] = rec]
           /\ task' = [task EXCEPT ![c].rec = rec, ![c].at = "clean", ![c].left = Reclaims(rec)]
           /\ UNCHANGED faults
        \/ FaultOf("store") /\ task' = [task EXCEPT ![c] = Idle] /\ UNCHANGED store
     /\ UNCHANGED <<registry, known, up, aged, pc, loc, sweep>>

(* cleanup(): container, image, workspace, in that order.  manager.destroy *)
(* of an id the manager no longer maps removes nothing.  (A removal the    *)
(* host refuses is logged and skipped by the code; it is not modelled.)    *)
CleanOrder == <<"container", "image", "workspace">>
TaskClean(c) ==
  LET t == task[c]
  IN /\ t # Idle /\ t.at = "clean" /\ t.left # {}
     /\ \E k \in 1 .. 3 :
          LET r == CleanOrder[k]
          IN /\ r \in t.left /\ \A m \in 1 .. k - 1 : CleanOrder[m] \notin t.left
             /\ task' = [task EXCEPT ![c].left = @ \ {r}]
             /\ up' = IF r = "container" /\ t.id \notin known THEN up
                      ELSE [up EXCEPT ![t.id] = @ \ {r}]
             /\ known' = IF r = "container" THEN known \ {t.id} ELSE known
     /\ UNCHANGED <<store, registry, aged, pc, loc, sweep, faults>>

FromFirstRead(rec) == [rec EXCEPT !.status = "READY"]  \* slip: built from the first read
Destroyed(rec) == [rec EXCEPT !.status = "DESTROYED"]

(* destroy() records DESTROYED once the cleanup is over.                   *)
TaskFinal(c) ==
  LET t == task[c]
      rec == Destroyed(t.rec)
  IN /\ t # Idle /\ t.kind = "destroy" /\ t.at = "clean" /\ t.left = {}
     /\ \/ /\ store' = [store EXCEPT ![t.id] = rec]
           /\ task' = [task EXCEPT ![c].rec = rec, ![c].at = "slot"] /\ UNCHANGED faults
        \/ FaultOf("store") /\ task' = [task EXCEPT ![c] = Idle] /\ UNCHANGED store
     /\ UNCHANGED <<registry, known, up, aged, pc, loc, sweep>>

AllButExpire == {"destroy", "clean", "fail"}  \* slip: expire() keeps its slot
ReleasesSlot == {"destroy", "expire", "clean", "fail"}

(* registry.remove, the last step of every path.                           *)
TaskSlot(c) ==
  LET t == task[c]
  IN /\ t # Idle
     /\ IF t.kind = "destroy" THEN t.at = "slot" ELSE t.at = "clean" /\ t.left = {}
     /\ registry' = IF t.kind \in ReleasesSlot THEN registry \ {t.id} ELSE registry
     /\ task' = [task EXCEPT ![c] = Idle]
     /\ pc' = IF t.kind = "fail" THEN [pc EXCEPT ![c] = "failed"] ELSE pc
     /\ UNCHANGED <<store, known, up, aged, loc, sweep, faults>>

-----------------------------------------------------------------------------
(* The environment *)

Age(i) ==
  /\ store[i].status # "NONE" /\ i \notin aged
  /\ LifetimeCovers => pc[i] \notin InFlight
  /\ aged' = aged \cup {i}
  /\ UNCHANGED <<store, registry, known, up, pc, loc, sweep, task, faults>>

(* The process dies and is started again: memory is lost, calls in         *)
(* progress never answer, the store and the host stay as they are.         *)
Crash ==
  /\ FaultOf("crash")
  /\ registry' = {} /\ known' = {}
  /\ pc' = [i \in Requests |-> IF pc[i] \in InFlight THEN "crashed"
                               ELSE IF pc[i] \in Over THEN pc[i] ELSE "idle"]
  /\ sweep' = [i \in Requests |-> NoSweep]
  /\ task' = [c \in Callers |-> Idle]
  /\ UNCHANGED <<store, up, aged, loc>>

-----------------------------------------------------------------------------
Provision(i) ==
  \/ SeedSave(i) \/ Register(i) \/ PrepareWorkspace(i) \/ SaveWorkspace(i)
  \/ ResolveFails(i) \/ Resolve(i) \/ BuildImage(i) \/ SaveImage(i)
  \/ CreateContainer(i) \/ WaitUntilReady(i) \/ SaveStarting(i) \/ SaveHealth(i)
  \/ Probe(i) \/ SaveReady(i) \/ Fail(i)
Gate(i) ==
  \/ SweepList(i) \/ (\E j \in Requests : SweepOne(i, j))
  \/ CountActive(i) \/ ValidateOwnership(i)
TaskStep(c) == TaskGet(c) \/ TaskMark(c) \/ TaskClean(c) \/ TaskFinal(c) \/ TaskSlot(c)

Next ==
  \/ \E i \in Requests : BeginCreate(i) \/ Gate(i) \/ Provision(i) \/ Age(i)
  \/ \E c \in Callers : TaskStep(c)
  \/ \E d \in Destroyers, i \in Requests : BeginDestroy(d, i)
  \/ Crash

Spec == Init /\ [][Next]_vars

(* A call whose awaited operation answers always goes on (the event loop   *)
(* is fair, and every external operation has a timeout).                   *)
Fairness ==
  /\ \A i \in Requests : WF_vars(Gate(i)) /\ WF_vars(Provision(i))
  /\ \A c \in Callers : WF_vars(TaskStep(c))
FairSpec == Spec /\ Fairness
(* In addition create() calls keep arriving: expired sandboxes are swept   *)
(* only by them.                                                           *)
TrafficSpec == FairSpec /\ \A i \in Requests : WF_vars(BeginCreate(i))

-----------------------------------------------------------------------------
(* The abstract lifecycle the records implement when no sandbox outlives   *)
(* its lifetime while it is provisioned.                                   *)
RecordState(i) ==
  CASE store[i].status = "NONE" -> "none"
    [] store[i].status \in Live \ {"READY", "DESTROYING"} -> "provisioning"
    [] store[i].status = "READY" -> "ready"
    [] store[i].status = "FAILED" -> "failed"
    [] OTHER -> "gone"
Lifecycle == INSTANCE SandboxLifecycle WITH state <- [i \in Requests |-> RecordState(i)]

-----------------------------------------------------------------------------
(* Properties *)

(* The records of the service go through the abstract lifecycle: a         *)
(* DESTROYED or EXPIRED sandbox is never written back to life.             *)
LifecycleSpec == Lifecycle!Spec

(* Every variable keeps its type (the shape of the records and tasks).     *)
TypeOK ==
  /\ store \in [Requests -> Record] /\ loc \in [Requests -> Record]
  /\ registry \subseteq Requests /\ known \subseteq Requests /\ aged \subseteq Requests
  /\ up \in [Requests -> SUBSET Resources]
  /\ pc \in [Requests -> PC]
  /\ sweep \in [Requests -> Sweep]
  /\ task \in [Callers -> Task \cup {Idle}]
  /\ faults \in 0 .. MaxFaults

(* Nobody is working on sandbox i.                                         *)
Quiet(i) == pc[i] \in Over /\ \A c \in Callers : task[c] # Idle => task[c].id # i

(* A slot of the concurrency ceiling is never left behind: once nobody     *)
(* works on a sandbox, it is registered only if its record is still live.  *)
SlotsHeldByLive ==
  \A i \in registry : Quiet(i) => store[i].status \in Live

(* The converse: an unattended READY sandbox is counted by the ceiling.    *)
(* The registry is documented as the registry of LIVE runtime sandboxes.   *)
ReadyHoldsSlot ==
  \A i \in Requests : Quiet(i) /\ store[i].status = "READY" => i \in registry

(* The ceiling itself: never more slots taken than config.maxConcurrent.   *)
CapacityIsCeiling == Cardinality(registry) <= MaxConcurrent

(* A create() that has answered with an error left nothing of what it had  *)
(* recorded on the host, whoever else swept or destroyed the sandbox.      *)
FailedCreateReclaims ==
  \A i \in Requests : pc[i] = "failed" => up[i] \cap loc[i].refs = {}

(* An unattended sandbox whose record is terminal has none of the resources*)
(* its create() recorded on the host.                                      *)
TerminalIsReclaimed ==
  \A i \in Requests :
    Quiet(i) /\ store[i].status \in Gone \cup {"FAILED"} => up[i] \cap loc[i].refs = {}

(* What nobody works on agrees with its record: a READY sandbox has its    *)
(* slot, a terminal one has nothing on the host.                           *)
QuietIsSettled == ReadyHoldsSlot /\ TerminalIsReclaimed

(* DESTROYED is written only after the cleanup, so at any time, across     *)
(* crashes and races with a sweep, nothing it names is left on the disk.   *)
DestroyedIsClean ==
  \A i \in Requests :
    store[i].status = "DESTROYED" => up[i] \cap store[i].refs \subseteq {"container"}

(* What is over has left nothing behind: a failed create() and a destroyed *)
(* sandbox alike.                                                          *)
OverIsClean == FailedCreateReclaims /\ DestroyedIsClean

(* The same with the container, which the durable record is kept for: a    *)
(* sandbox can be cleaned when the process that created it is gone.        *)
DestroyedLeavesNothing ==
  \A i \in Requests :
    store[i].status = "DESTROYED" => up[i] \cap store[i].refs = {}

(* Every create() call answers, unless the process dies under it.          *)
CreateAnswers ==
  \A i \in Requests : pc[i] = "sweep" ~> pc[i] \in Over

(* Past its lifetime, a finished sandbox is reclaimed as long as create()  *)
(* calls arrive.                                                           *)
ExpiredIsReclaimed ==
  \A i \in Requests :
    i \in aged /\ pc[i] = "returned"
      ~> store[i].status \in Gone /\ up[i] = {} /\ i \notin registry

(* Under traffic every call answers and every expired sandbox goes.        *)
TrafficReclaims == CreateAnswers /\ ExpiredIsReclaimed
=============================================================================
