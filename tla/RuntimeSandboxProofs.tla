------------------------ MODULE RuntimeSandboxProofs ------------------------
(***************************************************************************)
(* Proofs about RuntimeSandbox for every set of requests and destroyers,   *)
(* every ceiling and lifetime policy, and every bound on the faults; and   *)
(* about RuntimePlan for every repository.                                 *)
(***************************************************************************)
EXTENDS RuntimeSandbox, RuntimePlan, FiniteSetTheorems, SequenceTheorems, TLAPS

USE ConstantsAssumption

(* The records and tasks keep their shape.                                 *)
LEMMA CallerTypes == /\ \A i \in Requests : i \in Callers
                     /\ \A d \in Destroyers : d \in Callers
BY DEF Callers

(* One patchSandbox of create() keeps the types.                           *)
LEMMA PatchTypes ==
  ASSUME TypeOK, NEW i \in Requests, NEW from, NEW status \in Status,
         NEW new \in SUBSET Resources, NEW to \in PC, Patch(i, from, status, new, to)
  PROVE  TypeOK'
<1> DEFINE rec == [status |-> status, refs |-> loc[i].refs \cup new]
<1>1. rec \in Record
  BY DEF TypeOK, Record
<1>2. CASE store' = [store EXCEPT ![i] = rec] /\ loc' = [loc EXCEPT ![i] = rec]
           /\ Goto(i, to) /\ UNCHANGED faults
  BY <1>1, <1>2 DEF TypeOK, Patch, Goto
<1>3. CASE FaultOf("store") /\ Goto(i, "fail") /\ UNCHANGED <<store, loc>>
  BY <1>3 DEF TypeOK, Patch, Goto, FaultOf, PC, InFlight
<1> QED BY <1>2, <1>3 DEF Patch

LEMMA CallTypes ==
  ASSUME TypeOK, NEW i \in Requests, NEW from, NEW needs,
         NEW new \in SUBSET Resources, NEW to \in PC, Call(i, from, needs, new, to),
         known' \subseteq Requests
  PROVE  TypeOK'
BY DEF TypeOK, Call, Goto, PC, InFlight

(* One step of create() before it provisions anything.                     *)
LEMMA GateTypes ==
  ASSUME TypeOK, NEW i \in Requests, BeginCreate(i) \/ Gate(i)
  PROVE  TypeOK'
<1>1. CASE BeginCreate(i)
  BY <1>1 DEF TypeOK, BeginCreate, Goto, PC, Sweep, NoSweep, LiveOrder, NoRecord, Record, Status
<1>2. CASE SweepList(i)
  <2> DEFINE turn == [at |-> sweep[i].at + 1, now |-> sweep[i].now, todo |-> Listed(sweep[i])]
  <2>1. Listed(sweep[i]) \in [Requests -> Record]
    BY DEF TypeOK, Listed, Record, NoRecord, Status
  <2>2. ASSUME sweep[i].at <= Len(LiveOrder) PROVE turn \in Sweep
    <3>1. sweep[i].at \in Nat /\ sweep[i].now \subseteq Requests
      BY DEF TypeOK, Sweep
    <3> QED BY <2>1, <2>2, <3>1 DEF Sweep, LiveOrder
  <2>3. NoSweep \in Sweep
    BY DEF Sweep, NoSweep, LiveOrder, NoRecord, Record, Status
  <2>4. CASE sweep' = [sweep EXCEPT ![i] = NoSweep] /\ Goto(i, "count")
             /\ (UNCHANGED faults \/ FaultOf("store"))
    BY <1>2, <2>3, <2>4 DEF TypeOK, SweepList, Goto, PC, FaultOf
  <2>5. CASE sweep[i].at <= Len(LiveOrder) /\ UNCHANGED <<pc, faults>>
             /\ sweep' = [sweep EXCEPT ![i] = turn]
    BY <1>2, <2>2, <2>5 DEF TypeOK, SweepList
  <2> QED BY <1>2, <2>4, <2>5 DEF SweepList
<1>3. ASSUME NEW j \in Requests, SweepOne(i, j) PROVE TypeOK'
  <2>1. sweep[i] \in Sweep /\ sweep[i].todo[j] \in Record
    BY DEF TypeOK, Sweep
  <2>2. DoneWith(sweep[i], j) \in Sweep
    BY <2>1 DEF DoneWith, Sweep, NoRecord, Record, Status
  <2>3. task' \in [Callers -> Task \cup {Idle}]
    BY <1>3, <2>1, CallerTypes DEF TypeOK, SweepOne, Task, Reclaims, Record, NoRecord, Status
  <2> QED BY <1>3, <2>2, <2>3 DEF TypeOK, SweepOne
<1>4. CASE CountActive(i)
  BY <1>4 DEF TypeOK, CountActive, Goto, PC, Over
<1>5. CASE ValidateOwnership(i)
  BY <1>5 DEF TypeOK, ValidateOwnership, Goto, PC, Over
<1> QED BY <1>1, <1>2, <1>3, <1>4, <1>5 DEF Gate

LEMMA ProvisionTypes ==
  ASSUME TypeOK, NEW i \in Requests, Provision(i)
  PROVE  TypeOK'
<1> USE DEF PC, InFlight, Over
<1>1. CASE SeedSave(i)
  <2> DEFINE seed == [status |-> "CREATING", refs |-> {}]
  <2>1. seed \in Record
    BY DEF Record, Status, Live
  <2> HIDE DEF seed
  <2>2. CASE store' = [store EXCEPT ![i] = seed] /\ Goto(i, "register") /\ UNCHANGED faults
    BY <1>1, <2>1, <2>2 DEF TypeOK, SeedSave, Goto, seed
  <2>3. CASE FaultOf("store") /\ Goto(i, "fail") /\ UNCHANGED store
    BY <1>1, <2>1, <2>3 DEF TypeOK, SeedSave, Goto, FaultOf, seed
  <2> QED BY <1>1, <2>2, <2>3 DEF SeedSave, seed
<1>2. CASE Register(i)
  BY <1>2 DEF TypeOK, Register, Goto
<1>3. CASE PrepareWorkspace(i)
  BY <1>3 DEF TypeOK, PrepareWorkspace, Goto, Resources
<1>4. CASE SaveWorkspace(i) \/ SaveImage(i)
  <2>1. loc[i].status \in Status
    BY DEF TypeOK, Record
  <2> QED BY <1>4, <2>1, PatchTypes DEF SaveWorkspace, SaveImage, Resources
<1>5. CASE ResolveFails(i)
  BY <1>5 DEF TypeOK, ResolveFails, Goto
<1>6. CASE Resolve(i) \/ SaveStarting(i) \/ SaveHealth(i) \/ SaveReady(i)
  BY <1>6, PatchTypes DEF Resolve, SaveStarting, SaveHealth, SaveReady, Resources, Status, Live
<1>7. CASE BuildImage(i) \/ WaitUntilReady(i) \/ Probe(i)
  BY <1>7, CallTypes DEF BuildImage, WaitUntilReady, Probe, Resources, TypeOK
<1>8. CASE CreateContainer(i)
  <2>1. known' \subseteq Requests
    BY <1>8 DEF CreateContainer, TypeOK
  <2> QED BY <1>8, <2>1, CallTypes DEF CreateContainer, Resources
<1>9. CASE Fail(i)
  <2>1. loc[i] \in Record /\ [loc[i] EXCEPT !.status = "FAILED"] \in Record
    BY DEF TypeOK, Record, Status
  <2> DEFINE cleaning(r) == [kind |-> "fail", id |-> i, rec |-> r, at |-> "clean",
                             left |-> Reclaims(r)]
             rec == [loc[i] EXCEPT !.status = "FAILED"]
  <2>2. ASSUME NEW r \in Record PROVE cleaning(r) \in Task
    BY <2>2 DEF Task, Reclaims, Record
  <2> HIDE DEF cleaning, rec
  <2>3. CASE store' = [store EXCEPT ![i] = rec] /\ task' = [task EXCEPT ![i] = cleaning(rec)]
             /\ UNCHANGED faults
    BY <1>9, <2>1, <2>2, <2>3, CallerTypes DEF TypeOK, Fail, rec
  <2>4. CASE FaultOf("store") /\ task' = [task EXCEPT ![i] = cleaning(loc[i])] /\ UNCHANGED store
    BY <1>9, <2>1, <2>2, <2>4, CallerTypes DEF TypeOK, Fail, FaultOf
  <2> QED BY <1>9, <2>3, <2>4 DEF Fail, cleaning, rec
<1> QED BY <1>1, <1>2, <1>3, <1>4, <1>5, <1>6, <1>7, <1>8, <1>9 DEF Provision

LEMMA TaskTypes ==
  ASSUME TypeOK, NEW c \in Callers, TaskStep(c)
  PROVE  TypeOK'
<1> DEFINE t == task[c]
<1>1. t # Idle /\ t \in Task
  BY DEF TaskStep, TaskGet, TaskMark, TaskClean, TaskFinal, TaskSlot, TypeOK
<1>2. t.id \in Requests /\ t.rec \in Record /\ t.left \subseteq Resources
  BY <1>1 DEF Task
<1>3. CASE TaskGet(c)
  <2>1. store[t.id] \in Record
    BY <1>2 DEF TypeOK
  <2> QED BY <1>1, <1>3, <2>1 DEF TypeOK, TaskGet, FaultOf, Task
<1>4. CASE TaskMark(c)
  <2>1. [t.rec EXCEPT !.status = MarkStatus(t.kind)] \in Record
    BY <1>2 DEF MarkStatus, Record, Status, Live, Gone
  <2> QED BY <1>1, <1>2, <1>4, <2>1 DEF TypeOK, TaskMark, FaultOf, Task, Reclaims, Record
<1>5. CASE TaskClean(c)
  BY <1>1, <1>2, <1>5 DEF TypeOK, TaskClean, Task
<1>6. CASE TaskFinal(c)
  <2>1. Destroyed(t.rec) \in Record
    BY <1>2 DEF Destroyed, Record, Status, Gone
  <2> QED BY <1>1, <1>2, <1>6, <2>1 DEF TypeOK, TaskFinal, FaultOf, Task
<1>7. CASE TaskSlot(c)
  BY <1>1, <1>2, <1>7 DEF TypeOK, TaskSlot, PC, Over
<1> QED BY <1>3, <1>4, <1>5, <1>6, <1>7 DEF TaskStep

LEMMA CrashTypes ==
  ASSUME TypeOK, Crash
  PROVE  TypeOK'
<1>1. NoSweep \in Sweep
  BY DEF Sweep, NoSweep, LiveOrder, NoRecord, Record, Status
<1> QED BY <1>1 DEF TypeOK, Crash, FaultOf, PC, Over

(* Type correctness of the service.                                        *)
THEOREM TypeCorrect == Spec => []TypeOK
<1>1. Init => TypeOK
  BY DEF Init, TypeOK, NoRecord, Record, Status, PC, Over, Sweep, NoSweep, LiveOrder
<1>2. TypeOK /\ [Next]_vars => TypeOK'
  <2> SUFFICES ASSUME TypeOK, [Next]_vars PROVE TypeOK'
    OBVIOUS
  <2>1. ASSUME NEW i \in Requests, BeginCreate(i) \/ Gate(i) PROVE TypeOK'
    BY <2>1, GateTypes
  <2>2. ASSUME NEW i \in Requests, Provision(i) PROVE TypeOK'
    BY <2>2, ProvisionTypes
  <2>3. ASSUME NEW i \in Requests, Age(i) PROVE TypeOK'
    BY <2>3 DEF TypeOK, Age
  <2>4. ASSUME NEW c \in Callers, TaskStep(c) PROVE TypeOK'
    BY <2>4, TaskTypes
  <2>5. ASSUME NEW d \in Destroyers, NEW i \in Requests, BeginDestroy(d, i) PROVE TypeOK'
    BY <2>5, CallerTypes DEF TypeOK, BeginDestroy, Task, NoRecord, Record, Status
  <2>6. CASE Crash
    BY <2>6, CrashTypes
  <2>7. CASE UNCHANGED vars
    BY <2>7 DEF vars, TypeOK
  <2> QED BY <2>1, <2>2, <2>3, <2>4, <2>5, <2>6, <2>7 DEF Next
<1> QED BY <1>1, <1>2, PTL DEF Spec

-----------------------------------------------------------------------------
(* What the steps of create() have in common, for the proofs below.        *)

Unborn == {"idle", "refused", "sweep", "count", "owner", "seed"}
Working == InFlight \ {"fail"}
Answered == {"returned", "failed"}
Provisioning == Live \ {"READY", "DESTROYING"}
TakenDown == Gone \cup {"DESTROYING"}

PatchStep(i) ==
  SaveWorkspace(i) \/ Resolve(i) \/ SaveImage(i) \/ SaveStarting(i) \/ SaveHealth(i) \/ SaveReady(i)
CallStep(i) ==
  \/ PrepareWorkspace(i) \/ ResolveFails(i) \/ BuildImage(i) \/ CreateContainer(i)
  \/ WaitUntilReady(i) \/ Probe(i)

LEMMA ProvisionSteps ==
  ASSUME NEW i \in Requests, Provision(i)
  PROVE  SeedSave(i) \/ Register(i) \/ PatchStep(i) \/ CallStep(i) \/ Fail(i)
BY DEF Provision, PatchStep, CallStep

(* A patch writes the local record, and the last one writes READY.         *)
LEMMA PatchStepFacts ==
  ASSUME TypeOK, NEW i \in Requests, PatchStep(i)
  PROVE  /\ pc[i] \in Working \ {"register"}
         /\ UNCHANGED <<registry, known, up, aged, sweep, task>>
         /\ \E to \in InFlight \cup {"returned"}, rec \in Record :
              /\ pc' = [pc EXCEPT ![i] = to]
              /\ \/ /\ store' = [store EXCEPT ![i] = rec] /\ loc' = [loc EXCEPT ![i] = rec]
                    /\ IF to = "returned" THEN rec.status = "READY"
                       ELSE rec.status \in Provisioning \cup {loc[i].status}
                 \/ to = "fail" /\ UNCHANGED <<store, loc>>
<1> DEFINE Goal ==
      /\ UNCHANGED <<registry, known, up, aged, sweep, task>>
      /\ \E to \in InFlight \cup {"returned"}, rec \in Record :
           /\ pc' = [pc EXCEPT ![i] = to]
           /\ \/ /\ store' = [store EXCEPT ![i] = rec] /\ loc' = [loc EXCEPT ![i] = rec]
                 /\ IF to = "returned" THEN rec.status = "READY"
                    ELSE rec.status \in Provisioning \cup {loc[i].status}
              \/ to = "fail" /\ UNCHANGED <<store, loc>>
<1>1. ASSUME NEW from, NEW status \in Status, NEW new \in SUBSET Resources,
             NEW to \in InFlight \cup {"returned"},
             IF to = "returned" THEN status = "READY"
             ELSE status \in Provisioning \cup {loc[i].status},
             Patch(i, from, status, new, to)
      PROVE  Goal
  <2> DEFINE rec == [status |-> status, refs |-> loc[i].refs \cup new]
  <2>1. rec \in Record /\ rec.status = status /\ loc[i] \in Record
    BY <1>1 DEF TypeOK, Record, Status
  <2> HIDE DEF rec
  <2>2. CASE store' = [store EXCEPT ![i] = rec] /\ loc' = [loc EXCEPT ![i] = rec] /\ Goto(i, to)
    BY <1>1, <2>1, <2>2 DEF Patch, Goto
  <2>3. CASE Goto(i, "fail") /\ UNCHANGED <<store, loc>>
    BY <1>1, <2>1, <2>3 DEF Patch, Goto, InFlight
  <2> QED BY <1>1, <2>2, <2>3 DEF Patch, rec
<1>2. pc[i] \in Working \ {"register"}
  BY DEF PatchStep, SaveWorkspace, Resolve, SaveImage, SaveStarting, SaveHealth, SaveReady, Patch,
         Working, InFlight
<1> HIDE DEF Goal
<1>0. loc[i].status \in Status
  BY DEF TypeOK, Record
<1>3. ASSUME SaveWorkspace(i) \/ SaveImage(i) PROVE Goal
  BY <1>0, <1>1, <1>3 DEF SaveWorkspace, SaveImage, Resources, InFlight
<1>4. ASSUME Resolve(i) \/ SaveStarting(i) \/ SaveHealth(i) \/ SaveReady(i) PROVE Goal
  BY <1>1, <1>4 DEF Resolve, SaveStarting, SaveHealth, SaveReady, Resources, InFlight,
              Status, Provisioning, Live
<1>5. Goal
  BY <1>3, <1>4 DEF PatchStep
<1> QED BY <1>2, <1>5 DEF Goal

(* Any other provisioning step only makes resources of its own sandbox,    *)
(* and the manager knows the container it makes.                           *)
LEMMA CallStepFacts ==
  ASSUME TypeOK, NEW i \in Requests, CallStep(i)
  PROVE  /\ pc[i] \in Working \ {"register"}
         /\ UNCHANGED <<store, registry, aged, loc, sweep, task>>
         /\ known \subseteq known' /\ known' \subseteq known \cup {i}
         /\ \E to \in InFlight : pc' = [pc EXCEPT ![i] = to]
         /\ \E new \in SUBSET Resources :
              up' = [up EXCEPT ![i] = up[i] \cup new] /\ ("container" \in new => i \in known')
<1> USE DEF Working, InFlight, Goto, Resources
<1>0. up = [up EXCEPT ![i] = up[i] \cup {}]
  BY DEF TypeOK
<1>1. CASE PrepareWorkspace(i) \/ ResolveFails(i)
  BY <1>0, <1>1 DEF PrepareWorkspace, ResolveFails
<1>2. CASE BuildImage(i) \/ WaitUntilReady(i) \/ Probe(i)
  BY <1>0, <1>2 DEF BuildImage, WaitUntilReady, Probe, Call
<1>3. CASE CreateContainer(i)
  <2>1. CASE Goto(i, "wait") /\ up' = [up EXCEPT ![i] = up[i] \cup {"container"}]
    <3>1. pc'[i] = "wait"
      BY <2>1 DEF TypeOK
    <3> QED BY <1>3, <2>1, <3>1 DEF CreateContainer, Call
  <2>2. CASE Goto(i, "fail") /\ UNCHANGED up
    <3>1. pc'[i] = "fail"
      BY <2>2 DEF TypeOK
    <3> QED BY <1>0, <1>3, <2>2, <3>1 DEF CreateContainer, Call
  <2> QED BY <1>3, <2>1, <2>2 DEF CreateContainer, Call
<1> QED BY <1>1, <1>2, <1>3 DEF CallStep

-----------------------------------------------------------------------------
(* Slots.  A slot outlives neither its create() nor its live record unless *)
(* a caller that will release it is on its way: that is the strengthening  *)
(* SlotsHeldByLive needs, since a terminal status is always written before *)
(* the slot is released.                                                   *)

Releasing(c, i) ==
  /\ task[c] # Idle /\ task[c].id = i
  /\ IF task[c].kind = "destroy" THEN task[c].at = "slot" ELSE task[c].at = "clean"

FailTasks ==
  \A c \in Callers : task[c] # Idle /\ task[c].kind = "fail"
                      => c \in Requests /\ task[c].id = c /\ pc[c] = "fail"

SlotInv ==
  \A i \in registry :
    pc[i] \notin InFlight /\ store[i].status \notin Live => \E c \in Callers : Releasing(c, i)

LEMMA IdleIsNoTask == Idle \notin Task
BY DEF Idle, Task

(* Only create() itself runs a "fail" task, and only while it is failing.  *)
LEMMA FailTasksStep ==
  ASSUME TypeOK, FailTasks, [Next]_vars
  PROVE  FailTasks'
<1> USE CallerTypes, IdleIsNoTask
<1>1. ASSUME NEW i \in Requests, BeginCreate(i) \/ SweepList(i) \/ CountActive(i) \/ ValidateOwnership(i)
      PROVE  FailTasks'
  BY <1>1 DEF FailTasks, TypeOK, BeginCreate, SweepList, CountActive, ValidateOwnership, Goto
<1>2. ASSUME NEW i \in Requests, NEW j \in Requests, SweepOne(i, j) PROVE FailTasks'
  BY <1>2 DEF FailTasks, TypeOK, SweepOne
<1>3. ASSUME NEW i \in Requests, Provision(i) PROVE FailTasks'
  <2>1. CASE SeedSave(i) \/ Register(i)
    BY <1>3, <2>1 DEF FailTasks, TypeOK, SeedSave, Register, Goto
  <2>2. CASE PatchStep(i)
    BY <1>3, <2>2, PatchStepFacts DEF FailTasks, TypeOK, Working
  <2>3. CASE CallStep(i)
    BY <1>3, <2>3, CallStepFacts DEF FailTasks, TypeOK, Working
  <2>4. CASE Fail(i)
    BY <1>3, <2>4 DEF FailTasks, TypeOK, Fail
  <2> QED BY <1>3, <2>1, <2>2, <2>3, <2>4, ProvisionSteps
<1>4. ASSUME NEW c \in Callers, TaskStep(c) PROVE FailTasks'
  <2>1. task[c] # Idle /\ task[c] \in Task
    BY <1>4 DEF TaskStep, TaskGet, TaskMark, TaskClean, TaskFinal, TaskSlot, TypeOK
  <2>2. CASE TaskGet(c) \/ TaskMark(c) \/ TaskClean(c) \/ TaskFinal(c)
    <3>1. /\ pc' = pc
          /\ \/ task' = [task EXCEPT ![c] = Idle]
             \/ \E t \in [kind : {task[c].kind}, id : {task[c].id}, rec : Record,
                           at : {"get", "mark", "clean", "slot"}, left : SUBSET Resources] :
                  task' = [task EXCEPT ![c] = t]
      <4>1. pc' = pc
        BY <2>2 DEF TaskGet, TaskMark, TaskClean, TaskFinal
      <4>2. TypeOK'
        BY <1>4, TaskTypes
      <4>3. /\ task' = [task EXCEPT ![c] = task'[c]]
            /\ task'[c] # Idle => task'[c].kind = task[c].kind /\ task'[c].id = task[c].id
        BY <2>1, <2>2 DEF TaskGet, TaskMark, TaskClean, TaskFinal, TypeOK, Task
      <4> QED BY <4>1, <4>2, <4>3 DEF TypeOK, Task
    <3> QED BY <2>1, <3>1 DEF FailTasks, TypeOK
  <2>3. CASE TaskSlot(c)
    BY <2>1, <2>3 DEF FailTasks, TypeOK, TaskSlot
  <2> QED BY <1>4, <2>2, <2>3 DEF TaskStep
<1>5. ASSUME NEW d \in Destroyers, NEW i \in Requests, BeginDestroy(d, i) PROVE FailTasks'
  BY <1>5 DEF FailTasks, TypeOK, BeginDestroy
<1>6. CASE Crash
  BY <1>6 DEF FailTasks, Crash
<1>7. ASSUME NEW i \in Requests, Age(i) PROVE FailTasks'
  BY <1>7 DEF FailTasks, Age
<1>8. CASE UNCHANGED vars
  BY <1>8 DEF FailTasks, vars
<1> QED BY <1>1, <1>2, <1>3, <1>4, <1>5, <1>6, <1>7, <1>8 DEF Next, Gate

(* A step that neither registers a slot nor takes a sandbox out of         *)
(* provisioning nor ends a live record, and starts or keeps every task.    *)
LEMMA SlotInvKept ==
  ASSUME TypeOK, SlotInv, registry' \subseteq registry,
         \A i \in Requests : pc[i] \in InFlight => pc'[i] \in InFlight,
         \A i \in Requests : store[i].status \in Live \/ pc[i] \in InFlight
                               => store'[i].status \in Live \/ pc'[i] \in InFlight,
         \A c \in Callers : task[c] # Idle => task'[c] = task[c]
  PROVE  SlotInv'
BY DEF SlotInv, Releasing, TypeOK

LEMMA SlotInvStep ==
  ASSUME TypeOK, FailTasks, SlotInv, [Next]_vars
  PROVE  SlotInv'
<1> USE CallerTypes, IdleIsNoTask
<1>1. ASSUME NEW i \in Requests, BeginCreate(i) \/ SweepList(i) \/ CountActive(i) \/ ValidateOwnership(i)
      PROVE  SlotInv'
  <2>1. /\ UNCHANGED <<registry, store, task>> /\ pc[i] \notin InFlight
        /\ \A j \in Requests \ {i} : pc'[j] = pc[j]
    BY <1>1 DEF TypeOK, BeginCreate, SweepList, CountActive, ValidateOwnership, Goto, InFlight
  <2> QED BY <2>1, SlotInvKept
<1>2. ASSUME NEW i \in Requests, NEW j \in Requests, SweepOne(i, j) PROVE SlotInv'
  <2>1. /\ UNCHANGED <<registry, store, pc>>
        /\ \A c \in Callers : task[c] # Idle => task'[c] = task[c]
    BY <1>2 DEF TypeOK, SweepOne
  <2> QED BY <2>1, SlotInvKept
<1>3. ASSUME NEW i \in Requests, Provision(i) PROVE SlotInv'
  <2>1. CASE SeedSave(i) \/ Register(i)
    BY <1>3, <2>1 DEF SlotInv, Releasing, TypeOK, SeedSave, Register, Goto, InFlight, FaultOf
  <2>2. CASE PatchStep(i)
    <3>1. PICK to \in InFlight \cup {"returned"}, rec \in Record :
            /\ pc' = [pc EXCEPT ![i] = to]
            /\ \/ store' = [store EXCEPT ![i] = rec] /\ (to = "returned" => rec.status = "READY")
               \/ to = "fail" /\ UNCHANGED store
      BY <2>2, PatchStepFacts
    <3>2. \A j \in Requests \ {i} : pc'[j] = pc[j] /\ store'[j] = store[j]
      BY <3>1 DEF TypeOK
    <3>3. pc'[i] \in InFlight \/ store'[i].status \in Live
      BY <3>1 DEF TypeOK, InFlight, Live
    <3>4. UNCHANGED <<registry, task>>
      BY <2>2, PatchStepFacts
    <3> QED BY <3>2, <3>3, <3>4 DEF SlotInv, Releasing, TypeOK
  <2>3. CASE CallStep(i)
    <3>1. UNCHANGED <<registry, store, task>> /\ \E to \in InFlight : pc' = [pc EXCEPT ![i] = to]
      BY <2>3, CallStepFacts
    <3> QED BY <3>1, SlotInvKept DEF TypeOK
  <2>4. CASE Fail(i)
    <3>1. /\ UNCHANGED <<registry, pc>> /\ pc[i] \in InFlight
          /\ \A j \in Requests \ {i} : store'[j] = store[j]
          /\ \A c \in Callers : task[c] # Idle => task'[c] = task[c]
      BY <2>4 DEF TypeOK, Fail, InFlight
    <3> QED BY <3>1, SlotInvKept
  <2> QED BY <1>3, <2>1, <2>2, <2>3, <2>4, ProvisionSteps
<1>4. ASSUME NEW c \in Callers, TaskStep(c) PROVE SlotInv'
  <2>1. task[c] # Idle /\ task[c] \in Task
    BY <1>4 DEF TaskStep, TaskGet, TaskMark, TaskClean, TaskFinal, TaskSlot, TypeOK
  <2>2. \A e \in Callers \ {c} : task'[e] = task[e]
    BY <1>4 DEF TaskStep, TaskGet, TaskMark, TaskClean, TaskFinal, TaskSlot, TypeOK
  <2>3. CASE TaskGet(c)
    BY <2>1, <2>2, <2>3 DEF SlotInv, Releasing, TypeOK, TaskGet
  <2> PICK i \in Requests : task[c].id = i
    BY <2>1 DEF Task
  <2>4. CASE TaskMark(c)
    <3>1. /\ UNCHANGED <<registry, pc>> /\ \A j \in Requests \ {i} : store'[j] = store[j]
          /\ task[c].at = "mark" /\ task[c].rec \in Record
      BY <2>1, <2>4 DEF TypeOK, TaskMark, Task
    <3>2. CASE UNCHANGED store
      BY <2>2, <3>1, <3>2 DEF SlotInv, Releasing, TypeOK
    <3>3. CASE task[c].kind = "destroy" /\ store'[i].status = "DESTROYING"
      BY <2>2, <3>1, <3>3 DEF SlotInv, Releasing, TypeOK, Live
    <3>4. CASE Releasing(c, i)'
      BY <2>2, <3>1, <3>4 DEF SlotInv, Releasing, TypeOK
    <3>5. task[c].kind = "destroy" => UNCHANGED store \/ store'[i].status = "DESTROYING"
      BY <2>4, <3>1 DEF TaskMark, TypeOK, Record, MarkStatus
    <3>6. task[c].kind # "destroy" => UNCHANGED store \/ Releasing(c, i)'
      BY <2>1, <2>4 DEF TaskMark, TypeOK, Releasing, Task, Idle
    <3> QED BY <3>2, <3>3, <3>4, <3>5, <3>6
  <2>5. CASE TaskClean(c)
    <3>1. /\ UNCHANGED <<registry, store, pc>>
          /\ \A j \in Requests : Releasing(c, j) => Releasing(c, j)'
      BY <2>1, <2>5 DEF TypeOK, TaskClean, Releasing, Task, Idle
    <3> QED BY <2>2, <3>1 DEF SlotInv, Releasing, TypeOK
  <2>6. CASE TaskFinal(c)
    <3>1. /\ UNCHANGED <<registry, pc>> /\ \A j \in Requests \ {i} : store'[j] = store[j]
          /\ task[c].kind = "destroy" /\ task[c].at = "clean"
      BY <2>1, <2>6 DEF TypeOK, TaskFinal
    <3>2. UNCHANGED store \/ Releasing(c, i)'
      BY <2>1, <2>6 DEF TaskFinal, TypeOK, Releasing, Task, Idle
    <3> QED BY <2>2, <3>1, <3>2 DEF SlotInv, Releasing, TypeOK
  <2>7. CASE TaskSlot(c)
    <3>1. /\ UNCHANGED store /\ registry' = registry \ {task[c].id}
          /\ \A j \in Requests \ {task[c].id} : pc'[j] = pc[j]
      BY <2>1, <2>7 DEF TypeOK, TaskSlot, FailTasks, ReleasesSlot, Task
    <3> QED BY <2>2, <3>1 DEF SlotInv, Releasing, TypeOK
  <2> QED BY <1>4, <2>3, <2>4, <2>5, <2>6, <2>7 DEF TaskStep
<1>5. ASSUME NEW d \in Destroyers, NEW i \in Requests, BeginDestroy(d, i) PROVE SlotInv'
  <2>1. /\ UNCHANGED <<registry, store, pc>>
        /\ \A c \in Callers : task[c] # Idle => task'[c] = task[c]
    BY <1>5 DEF TypeOK, BeginDestroy
  <2> QED BY <2>1, SlotInvKept
<1>6. CASE Crash
  BY <1>6 DEF SlotInv, Crash
<1>7. ASSUME NEW i \in Requests, Age(i) PROVE SlotInv'
  BY <1>7, SlotInvKept DEF Age
<1>8. CASE UNCHANGED vars
  BY <1>8, SlotInvKept DEF vars
<1> QED BY <1>1, <1>2, <1>3, <1>4, <1>5, <1>6, <1>7, <1>8 DEF Next, Gate

(* The slots of the ceiling are never leaked: once nobody works on a       *)
(* registered sandbox its record is live, whatever the interleaving of     *)
(* create, sweep and destroy, the faults of the store and the restarts.    *)
THEOREM SlotsHeld == Spec => []SlotsHeldByLive
<1>1. Init => FailTasks /\ SlotInv
  BY DEF Init, FailTasks, SlotInv
<1>2. TypeOK /\ FailTasks /\ SlotInv /\ [Next]_vars => FailTasks' /\ SlotInv'
  BY FailTasksStep, SlotInvStep
<1>3. SlotInv => SlotsHeldByLive
  <2> SUFFICES ASSUME SlotInv, NEW i \in registry, Quiet(i) PROVE store[i].status \in Live
    BY DEF SlotsHeldByLive
  <2>1. pc[i] \notin InFlight /\ \A c \in Callers : ~Releasing(c, i)
    BY DEF Quiet, Over, InFlight, Releasing
  <2> QED BY <2>1 DEF SlotInv
<1> QED BY <1>1, <1>2, <1>3, TypeCorrect, PTL DEF Spec

-----------------------------------------------------------------------------
(* The host.  What is over has left nothing behind because a cleaning      *)
(* caller still holds in left whatever of its record is up.  That needs    *)
(* the container of a create() under way to be known to the manager, and   *)
(* that nothing is provisioned for a sandbox once somebody may destroy it. *)

HostAt(i) ==
  /\ pc[i] \in Unborn => up[i] = {}
  /\ pc[i] \in InFlight /\ "container" \in up[i] => i \in known
  /\ loc[i].status \in Provisioning \cup {"READY", "NONE"}
  /\ store[i].status = "DESTROYED" => pc[i] \in Answered
  /\ pc[i] = "failed" => up[i] \cap loc[i].refs = {}
  /\ store[i].status = "DESTROYED" => up[i] \cap store[i].refs \subseteq {"container"}

CleanAt(t) ==
  /\ t.kind = "fail" => t.at = "clean" /\ up[t.id] \cap loc[t.id].refs \subseteq t.left
  /\ t.kind = "destroy" =>
       /\ pc[t.id] \in Answered
       /\ t.at = "clean" => up[t.id] \cap t.rec.refs \subseteq t.left \cup {"container"}

HostInv ==
  /\ \A i \in Requests : HostAt(i)
  /\ \A c \in Callers : task[c] # Idle => CleanAt(task[c])

(* The task step of a caller concerns its task and its sandbox only.       *)
LEMMA TaskFrame ==
  ASSUME TypeOK, NEW c \in Callers, TaskStep(c)
  PROVE  /\ task[c] # Idle /\ task[c] \in Task /\ task[c].id \in Requests
         /\ UNCHANGED <<aged, loc, sweep>>
         /\ \A e \in Callers \ {c} : task'[e] = task[e]
         /\ \A i \in Requests \ {task[c].id} : store'[i] = store[i] /\ up'[i] = up[i]
BY DEF TaskStep, TaskGet, TaskMark, TaskClean, TaskFinal, TaskSlot, TypeOK, Task

(* A step that makes, removes and records nothing, takes nothing out of    *)
(* the class its program counter is in but to bring it forward, and starts *)
(* only tasks that have a right to be there.                               *)
LEMMA HostKept ==
  ASSUME TypeOK, HostInv, UNCHANGED <<store, up, known, loc>>,
         \A i \in Requests : /\ pc'[i] \in Unborn => pc[i] \in Unborn
                             /\ pc'[i] \in InFlight => pc[i] \in InFlight \cup Unborn
                             /\ pc[i] \in Answered => pc'[i] \in Answered
                             /\ pc'[i] = "failed" => pc[i] = "failed",
         \A c \in Callers : task'[c] # Idle => task'[c] = task[c] \/ CleanAt(task[c])'
  PROVE  HostInv'
<1>1. ASSUME NEW i \in Requests PROVE HostAt(i)'
  BY DEF HostInv, HostAt
<1>2. ASSUME NEW c \in Callers, task'[c] # Idle PROVE CleanAt(task[c])'
  <2>1. CASE task'[c] = task[c]
    <3>1. CleanAt(task[c]) /\ task[c].id \in Requests
      BY <1>2, <2>1 DEF HostInv, TypeOK, Task
    <3> QED BY <2>1, <3>1 DEF CleanAt
  <2> QED BY <1>2, <2>1
<1> QED BY <1>1, <1>2 DEF HostInv

(* While create() provisions a sandbox, no other caller cleans it in a way *)
(* the host invariant speaks of.                                           *)
LEMMA HostProvision ==
  ASSUME TypeOK, FailTasks, HostInv, NEW i \in Requests, Provision(i)
  PROVE  HostInv'
<1> USE CallerTypes, IdleIsNoTask DEF Unborn, InFlight, Working, Answered, Over
<1>1. ASSUME pc[i] \in Working \cup {"seed"}, UNCHANGED task,
             \A j \in Requests \ {i} : pc'[j] = pc[j] /\ loc'[j] = loc[j] /\ up'[j] = up[j],
             HostAt(i)', known \subseteq known',
             \A j \in Requests \ {i} : store'[j] = store[j]
      PROVE  HostInv'
  <2>1. ASSUME NEW j \in Requests PROVE HostAt(j)'
    BY <1>1 DEF HostInv, HostAt
  <2>2. ASSUME NEW c \in Callers, task[c] # Idle PROVE CleanAt(task[c])'
    <3>1. CleanAt(task[c]) /\ task[c].id \in Requests
      BY <2>2 DEF HostInv, TypeOK, Task
    <3>2. task[c].id = i => task[c].kind \notin {"fail", "destroy"}
      BY <1>1, <2>2, <3>1 DEF FailTasks, CleanAt
    <3> QED BY <1>1, <3>1, <3>2 DEF CleanAt
  <2> QED BY <1>1, <2>1, <2>2 DEF HostInv
<1>2. HostAt(i)
  BY DEF HostInv
<1>3. CASE SeedSave(i) \/ Register(i)
  <2>1. HostAt(i)'
    BY <1>2, <1>3 DEF HostAt, SeedSave, Register, Goto, TypeOK, Provisioning, Live
  <2> QED BY <1>1, <1>3, <2>1 DEF TypeOK, SeedSave, Register, Goto
<1>4. CASE PatchStep(i)
  <2>1. pc[i] \in Working /\ UNCHANGED <<registry, known, up, aged, sweep, task>>
    BY <1>4, PatchStepFacts
  <2>2. PICK to \in InFlight \cup {"returned"}, rec \in Record :
          /\ pc' = [pc EXCEPT ![i] = to]
          /\ \/ /\ store' = [store EXCEPT ![i] = rec] /\ loc' = [loc EXCEPT ![i] = rec]
                /\ IF to = "returned" THEN rec.status = "READY"
                   ELSE rec.status \in Provisioning \cup {loc[i].status}
             \/ to = "fail" /\ UNCHANGED <<store, loc>>
    BY <1>4, PatchStepFacts
  <2>3. HostAt(i)'
    BY <1>2, <2>1, <2>2 DEF HostAt, TypeOK, Provisioning, Live
  <2> QED BY <1>1, <2>1, <2>2, <2>3 DEF TypeOK
<1>5. CASE CallStep(i)
  <2>1. pc[i] \in Working /\ UNCHANGED <<store, registry, aged, loc, sweep, task>>
        /\ known \subseteq known' /\ known' \subseteq known \cup {i}
    BY <1>5, CallStepFacts
  <2>2. PICK to \in InFlight : pc' = [pc EXCEPT ![i] = to]
    BY <1>5, CallStepFacts
  <2>3. PICK new \in SUBSET Resources :
          up' = [up EXCEPT ![i] = up[i] \cup new] /\ ("container" \in new => i \in known')
    BY <1>5, CallStepFacts
  <2>4. HostAt(i)'
    BY <1>2, <2>1, <2>2, <2>3 DEF HostAt, TypeOK
  <2> QED BY <1>1, <2>1, <2>2, <2>3, <2>4 DEF TypeOK
<1>6. CASE Fail(i)
  <2>1. /\ pc[i] = "fail" /\ task[i] = Idle /\ task'[i].id = i /\ task'[i].kind = "fail"
        /\ task'[i].at = "clean" /\ task'[i].left = loc[i].refs
        /\ \A c \in Callers \ {i} : task'[c] = task[c]
        /\ UNCHANGED <<registry, known, up, aged, pc, loc, sweep>>
        /\ \A j \in Requests \ {i} : store'[j] = store[j]
        /\ store'[i] = store[i] \/ store'[i].status = "FAILED"
    BY <1>6 DEF Fail, TypeOK, Reclaims, Record
  <2>2. ASSUME NEW j \in Requests PROVE HostAt(j)'
    <3>1. HostAt(j)
      BY DEF HostInv
    <3> QED BY <2>1, <3>1 DEF HostAt
  <2>3. ASSUME NEW c \in Callers, task'[c] # Idle PROVE CleanAt(task[c])'
    <3>1. CASE c = i
      BY <2>1, <3>1 DEF CleanAt
    <3>2. CASE c # i
      <4>1. CleanAt(task[c]) /\ task[c].id \in Requests /\ task'[c] = task[c]
        BY <2>1, <2>3, <3>2 DEF HostInv, TypeOK, Task
      <4> QED BY <2>1, <4>1 DEF CleanAt
    <3> QED BY <3>1, <3>2
  <2> QED BY <2>2, <2>3 DEF HostInv
<1> QED BY <1>3, <1>4, <1>5, <1>6, ProvisionSteps

LEMMA HostTask ==
  ASSUME TypeOK, FailTasks, HostInv, NEW c \in Callers, TaskStep(c)
  PROVE  HostInv'
<1> USE CallerTypes, IdleIsNoTask DEF Unborn, InFlight, Answered, Over
<1> DEFINE t == task[c]
<1>1. /\ t # Idle /\ t \in Task /\ t.id \in Requests /\ t.rec \in Record /\ CleanAt(t)
      /\ UNCHANGED <<aged, loc, sweep>>
      /\ \A e \in Callers \ {c} : task'[e] = task[e]
      /\ \A i \in Requests \ {t.id} : store'[i] = store[i] /\ up'[i] = up[i]
  BY TaskFrame DEF HostInv, Task
<1> HIDE DEF t
<1>2. PICK i \in Requests : t.id = i
  BY <1>1
<1>3. HostAt(i)
  BY DEF HostInv
(* A step that removes nothing it does not take off its list, and leaves   *)
(* the program counters.                                                   *)
<1>4. ASSUME up'[i] \subseteq up[i], UNCHANGED pc, task'[c] = Idle \/ CleanAt(task[c])',
             HostAt(i)', \A j \in Requests \ {i} : j \in known => j \in known'
      PROVE  HostInv'
  <2>1. ASSUME NEW j \in Requests PROVE HostAt(j)'
    <3>1. CASE j = i
      BY <1>4, <3>1
    <3>2. CASE j # i
      BY <1>1, <1>2, <1>4, <3>2 DEF HostInv, HostAt
    <3> QED BY <3>1, <3>2
  <2>2. ASSUME NEW e \in Callers, task'[e] # Idle PROVE CleanAt(task[e])'
    <3>1. CASE e = c
      BY <1>4, <2>2, <3>1
    <3>2. CASE e # c
      <4>1. CleanAt(task[e]) /\ task[e].id \in Requests /\ task'[e] = task[e]
        BY <1>1, <2>2, <3>2 DEF HostInv, TypeOK, Task
      <4>2. up'[task[e].id] \subseteq up[task[e].id]
        BY <1>1, <1>2, <1>4, <4>1
      <4> QED BY <1>1, <1>4, <4>1, <4>2 DEF CleanAt
    <3> QED BY <3>1, <3>2
  <2> QED BY <2>1, <2>2 DEF HostInv
<1>5. CASE TaskGet(c)
  <2>1. /\ UNCHANGED <<store, up, known, pc>> /\ t.at = "get"
        /\ \/ task'[c] = Idle
           \/ task'[c].at = "mark" /\ task'[c].kind = t.kind /\ task'[c].id = t.id
    <3>1. task' = [task EXCEPT ![c] = Idle]
          \/ task' = [task EXCEPT ![c].rec = store[t.id], ![c].at = "mark"]
      BY <1>5 DEF TaskGet, t
    <3>2. task' = [task EXCEPT ![c].rec = store[t.id], ![c].at = "mark"]
          => task'[c].at = "mark" /\ task'[c].kind = t.kind /\ task'[c].id = t.id
      BY <1>1 DEF TypeOK, t, Task
    <3>3. task' = [task EXCEPT ![c] = Idle] => task'[c] = Idle
      BY DEF TypeOK
    <3>4. UNCHANGED <<store, up, known, pc>> /\ t.at = "get"
      BY <1>5 DEF TaskGet, t
    <3> QED BY <3>1, <3>2, <3>3, <3>4
  <2>2. task'[c] = Idle \/ CleanAt(task[c])'
    BY <1>1, <2>1 DEF CleanAt
  <2>3. HostAt(i)'
    BY <1>1, <1>3, <2>1 DEF HostAt
  <2> QED BY <1>4, <2>1, <2>2, <2>3
<1>6. CASE TaskMark(c)
  <2>1. /\ UNCHANGED <<up, known, pc>> /\ t.at = "mark"
        /\ store'[i] = store[i] \/ store'[i].status \in {"EXPIRED", "DESTROYING"}
        /\ \/ task'[c] = Idle
           \/ /\ task'[c].at = "clean" /\ task'[c].kind = t.kind /\ task'[c].id = t.id
              /\ task'[c].left = task'[c].rec.refs
    BY <1>1, <1>2, <1>6 DEF TaskMark, TypeOK, t, Task, Record, MarkStatus, Reclaims
  <2>2. task'[c] = Idle \/ CleanAt(task[c])'
    BY <1>1, <2>1 DEF CleanAt
  <2>3. HostAt(i)'
    BY <1>1, <1>3, <2>1 DEF HostAt
  <2> QED BY <1>4, <2>1, <2>2, <2>3
<1>7. CASE TaskClean(c)
  <2>1. PICK r \in Resources :
          /\ r \in t.left /\ UNCHANGED <<store, pc>> /\ t.at = "clean"
          /\ task' = [task EXCEPT ![c].left = @ \ {r}]
          /\ up' = IF r = "container" /\ i \notin known THEN up ELSE [up EXCEPT ![i] = @ \ {r}]
          /\ known' = IF r = "container" THEN known \ {i} ELSE known
    <3>1. \A k \in 1 .. 3 : CleanOrder[k] \in Resources
      BY DEF CleanOrder, Resources
    <3> QED BY <1>1, <1>2, <1>7, <3>1 DEF TaskClean, t
  <2>2. /\ up'[i] \subseteq up[i]
        /\ up'[i] = up[i] \ {r} \/ (r = "container" /\ i \notin known /\ up'[i] = up[i])
    BY <2>1 DEF TypeOK
  <2>3. /\ task'[c].kind = t.kind /\ task'[c].id = i /\ task'[c].at = "clean"
        /\ task'[c].rec = t.rec /\ task'[c].left = t.left \ {r}
    BY <1>1, <1>2, <2>1 DEF TypeOK, t, Task
  <2>4. CleanAt(task[c])'
    <3>1. CASE t.kind = "fail"
      <4>1. pc[i] = "fail" /\ up[i] \cap loc[i].refs \subseteq t.left
        BY <1>1, <1>2, <3>1 DEF CleanAt, FailTasks, t
      <4>2. "container" \in up[i] => i \in known
        BY <1>3, <4>1 DEF HostAt
      <4> QED BY <1>1, <2>2, <2>3, <3>1, <4>1, <4>2 DEF CleanAt
    <3>2. CASE t.kind = "destroy"
      BY <1>1, <1>2, <2>1, <2>2, <2>3, <3>2 DEF CleanAt
    <3>3. CASE t.kind \notin {"fail", "destroy"}
      BY <2>3, <3>3 DEF CleanAt
    <3> QED BY <3>1, <3>2, <3>3
  <2>5. HostAt(i)'
    BY <1>1, <1>3, <2>1, <2>2 DEF HostAt
  <2> QED BY <1>4, <2>1, <2>2, <2>4, <2>5
<1>8. CASE TaskFinal(c)
  <2>1. /\ UNCHANGED <<up, known, pc>> /\ t.at = "clean" /\ t.kind = "destroy" /\ t.left = {}
        /\ store'[i] = store[i] \/ store'[i] = Destroyed(t.rec)
        /\ task'[c] = Idle \/ (task'[c].at = "slot" /\ task'[c].kind = t.kind /\ task'[c].id = t.id)
    BY <1>1, <1>2, <1>8 DEF TaskFinal, TypeOK, t, Task
  <2>2. task'[c] = Idle \/ CleanAt(task[c])'
    BY <1>1, <2>1 DEF CleanAt
  <2>3. pc[i] \in Answered /\ up[i] \cap t.rec.refs \subseteq {"container"}
    BY <1>1, <1>2, <2>1 DEF CleanAt
  <2>4. HostAt(i)'
    BY <1>1, <1>3, <2>1, <2>3 DEF HostAt, Destroyed, Record
  <2> QED BY <1>4, <2>1, <2>2, <2>4
<1>9. CASE TaskSlot(c)
  <2>1. UNCHANGED <<store, up, known, loc>> /\ task'[c] = Idle
        /\ pc' = IF t.kind = "fail" THEN [pc EXCEPT ![c] = "failed"] ELSE pc
    BY <1>9 DEF TaskSlot, TypeOK, t
  <2>2. CASE t.kind = "fail"
    <3>1. c = i /\ pc[i] = "fail" /\ up[i] \cap loc[i].refs = {}
      BY <1>1, <1>2, <1>9, <2>2 DEF TaskSlot, CleanAt, FailTasks, t
    <3>2. ASSUME NEW j \in Requests PROVE HostAt(j)'
      <4>1. HostAt(j)
        BY DEF HostInv
      <4> QED BY <2>1, <2>2, <3>1, <4>1 DEF HostAt, TypeOK
    <3>3. ASSUME NEW e \in Callers, task'[e] # Idle PROVE CleanAt(task[e])'
      <4>1. CleanAt(task[e]) /\ task[e].id \in Requests /\ task'[e] = task[e]
        BY <1>1, <2>1, <3>3 DEF HostInv, TypeOK, Task
      <4> QED BY <2>1, <2>2, <3>1, <4>1 DEF CleanAt, TypeOK
    <3> QED BY <3>2, <3>3 DEF HostInv
  <2>3. CASE t.kind # "fail"
    <3>1. HostAt(i)'
      BY <1>1, <1>3, <2>1, <2>3 DEF HostAt
    <3> QED BY <1>4, <2>1, <2>3, <3>1
  <2> QED BY <2>2, <2>3
<1> QED BY <1>5, <1>6, <1>7, <1>8, <1>9 DEF TaskStep

LEMMA HostStep ==
  ASSUME TypeOK, FailTasks, HostInv, [Next]_vars
  PROVE  HostInv'
<1> USE CallerTypes, IdleIsNoTask DEF Unborn, InFlight, Answered, Over
<1>1. ASSUME NEW i \in Requests, BeginCreate(i) \/ SweepList(i) \/ CountActive(i) \/ ValidateOwnership(i)
      PROVE  HostInv'
  <2>1. /\ UNCHANGED <<store, up, known, loc, task>> /\ pc[i] \in Unborn /\ pc'[i] \in Unborn
        /\ \A j \in Requests \ {i} : pc'[j] = pc[j]
    BY <1>1 DEF TypeOK, BeginCreate, SweepList, CountActive, ValidateOwnership, Goto
  <2> QED BY <2>1, HostKept
<1>2. ASSUME NEW i \in Requests, NEW j \in Requests, SweepOne(i, j) PROVE HostInv'
  <2>1. /\ UNCHANGED <<store, up, known, loc, pc>> /\ task'[i].kind \notin {"fail", "destroy"}
        /\ \A c \in Callers \ {i} : task'[c] = task[c]
    BY <1>2 DEF TypeOK, SweepOne
  <2>2. CleanAt(task[i])'
    BY <2>1 DEF CleanAt
  <2> QED BY <2>1, <2>2, HostKept
<1>3. ASSUME NEW d \in Destroyers, NEW i \in Requests, BeginDestroy(d, i) PROVE HostInv'
  <2>1. /\ UNCHANGED <<store, up, known, loc, pc>> /\ pc[i] \in Answered
        /\ task'[d].kind = "destroy" /\ task'[d].id = i /\ task'[d].at = "get"
        /\ \A c \in Callers \ {d} : task'[c] = task[c]
    BY <1>3 DEF TypeOK, BeginDestroy
  <2>2. CleanAt(task[d])'
    BY <2>1 DEF CleanAt
  <2> QED BY <2>1, <2>2, HostKept
<1>4. CASE Crash
  <2>1. /\ UNCHANGED <<store, up, loc>> /\ \A c \in Callers : task'[c] = Idle
        /\ \A i \in Requests : pc'[i] = IF pc[i] \in InFlight THEN "crashed"
                                        ELSE IF pc[i] \in Over THEN pc[i] ELSE "idle"
    BY <1>4 DEF Crash
  <2>2. ASSUME NEW i \in Requests PROVE HostAt(i)'
    <3>1. HostAt(i) /\ pc[i] \in PC
      BY DEF HostInv, TypeOK
    <3> QED BY <2>1, <3>1 DEF HostAt, PC
  <2> QED BY <2>1, <2>2 DEF HostInv
<1>5. ASSUME NEW i \in Requests, Age(i) PROVE HostInv'
  BY <1>5, HostKept DEF Age
<1>6. CASE UNCHANGED vars
  BY <1>6, HostKept DEF vars
<1> QED BY <1>1, <1>2, <1>3, <1>4, <1>5, <1>6, HostProvision, HostTask DEF Next, Gate

(* What is over has left nothing behind, whatever sweeps, destroys,        *)
(* failing saves and restarts come in between: a create() that answered    *)
(* with an error has none of its recorded resources on the host, and of a  *)
(* DESTROYED record at most the container a restart made unknown.          *)
THEOREM OverLeavesNothing == Spec => []OverIsClean
<1>1. Init => FailTasks /\ HostInv
  <2> SUFFICES ASSUME Init PROVE FailTasks /\ HostInv
    OBVIOUS
  <2>1. FailTasks
    BY DEF Init, FailTasks
  <2>2. HostInv
    BY DEF Init, HostInv, HostAt, NoRecord, InFlight, Gone, Live
  <2> QED BY <2>1, <2>2
<1>2. TypeOK /\ FailTasks /\ HostInv /\ [Next]_vars => FailTasks' /\ HostInv'
  BY FailTasksStep, HostStep
<1>3. HostInv => OverIsClean
  BY DEF HostInv, HostAt, OverIsClean, FailedCreateReclaims, DestroyedIsClean
<1> QED BY <1>1, <1>2, <1>3, TypeCorrect, PTL DEF Spec

-----------------------------------------------------------------------------
(* The lifecycle, when a lifetime covers any provisioning.  Then nobody    *)
(* takes a sandbox down while it is provisioned: what a sweep wants to     *)
(* expire has aged, what it wants to clean has failed, and a destroy knows *)
(* the id from the answer of its create().                                 *)

Ended == TakenDown \cup {"FAILED"}

LifeAt(i) ==
  /\ pc[i] \in Unborn => store[i].status = "NONE"
  /\ pc[i] \in Working => store[i].status \in Provisioning /\ loc[i].status \in Provisioning
  /\ pc[i] = "fail" => store[i].status \in Provisioning \cup {"NONE", "FAILED"}
  /\ i \in aged => store[i].status # "NONE" /\ pc[i] \notin InFlight

SweepAt(i) ==
  /\ sweep[i].now \subseteq aged
  /\ \A j \in Requests : sweep[i].todo[j] # NoRecord =>
       IF sweep[i].todo[j].status = "FAILED" THEN store[j].status \in Ended ELSE j \in aged

DutyAt(t) ==
  /\ t.kind = "expire" => t.id \in aged
  /\ t.kind = "destroy" => pc[t.id] \in Answered /\ (t.at # "get" => store[t.id].status # "NONE")
  /\ t.kind = "clean" => store[t.id].status \in Ended
  /\ t.kind \in {"clean", "fail"} => t.at = "clean"

LifeInv ==
  /\ \A i \in Requests : LifeAt(i) /\ SweepAt(i)
  /\ \A c \in Callers : task[c] # Idle => DutyAt(task[c])

(* What a record goes through: the step of the abstract lifecycle, or none.*)
Moves(i, rec) ==
  LET old == store[i].status
  IN \/ old = "NONE" /\ rec.status \in Provisioning
     \/ old \in Provisioning /\ rec.status \in Provisioning \cup {"READY"}
     \/ old \in Provisioning \cup {"NONE", "FAILED"} /\ rec.status = "FAILED"
     \/ old # "NONE" /\ rec.status \in TakenDown

(* A task that writes a record takes down a sandbox nobody provisions.     *)
LEMMA TaskWrites ==
  ASSUME TypeOK, LifeInv, NEW c \in Callers, TaskStep(c)
  PROVE  \/ UNCHANGED store
         \/ /\ pc[task[c].id] \notin InFlight \cup Unborn
            /\ store[task[c].id].status # "NONE"
            /\ \E rec \in Record : /\ rec.status \in TakenDown
                                   /\ store' = [store EXCEPT ![task[c].id] = rec]
<1> DEFINE t == task[c]
<1>1. t # Idle /\ t \in Task /\ t.id \in Requests /\ t.rec \in Record /\ DutyAt(t) /\ LifeAt(t.id)
  BY TaskFrame DEF LifeInv, Task
<1>2. ASSUME t.kind \in {"destroy", "expire"}, t.at # "get"
      PROVE  pc[t.id] \notin InFlight \cup Unborn /\ store[t.id].status # "NONE"
  BY <1>1, <1>2 DEF DutyAt, LifeAt, Answered, InFlight, Unborn
<1>3. CASE TaskMark(c)
  <2> DEFINE rec == [t.rec EXCEPT !.status = MarkStatus(t.kind)]
  <2>1. rec \in Record /\ rec.status \in TakenDown
    BY <1>1 DEF Record, MarkStatus, Status, TakenDown, Gone, Live
  <2>2. t.kind \in {"destroy", "expire"} /\ t.at # "get"
    BY <1>1, <1>3 DEF TaskMark, DutyAt, Task
  <2>3. UNCHANGED store \/ store' = [store EXCEPT ![t.id] = rec]
    BY <1>3 DEF TaskMark
  <2> QED BY <1>2, <2>1, <2>2, <2>3
<1>4. CASE TaskFinal(c)
  <2>1. Destroyed(t.rec) \in Record /\ Destroyed(t.rec).status \in TakenDown
    BY <1>1 DEF Destroyed, Record, Status, TakenDown, Gone
  <2>2. t.kind = "destroy" /\ t.at = "clean"
    BY <1>4 DEF TaskFinal
  <2>3. UNCHANGED store \/ store' = [store EXCEPT ![t.id] = Destroyed(t.rec)]
    BY <1>4 DEF TaskFinal
  <2> QED BY <1>2, <2>1, <2>2, <2>3
<1>5. CASE TaskGet(c) \/ TaskClean(c) \/ TaskSlot(c)
  BY <1>5 DEF TaskGet, TaskClean, TaskSlot
<1> QED BY <1>3, <1>4, <1>5 DEF TaskStep

LEMMA RecordMoves ==
  ASSUME TypeOK, LifeInv, [Next]_vars
  PROVE  \/ UNCHANGED store
         \/ \E i \in Requests, rec \in Record :
              store' = [store EXCEPT ![i] = rec] /\ Moves(i, rec)
<1>1. ASSUME NEW i \in Requests, Provision(i)
      PROVE  \/ UNCHANGED store
             \/ \E rec \in Record : store' = [store EXCEPT ![i] = rec] /\ Moves(i, rec)
  <2>0. LifeAt(i)
    BY DEF LifeInv
  <2>1. CASE SeedSave(i)
    <3> DEFINE rec == [status |-> "CREATING", refs |-> {}]
    <3>1. rec \in Record /\ rec.status \in Provisioning
      BY DEF Record, Status, Live, Provisioning
    <3>2. store[i].status = "NONE"
      BY <2>0, <2>1 DEF SeedSave, LifeAt, Unborn
    <3>3. UNCHANGED store \/ store' = [store EXCEPT ![i] = rec]
      BY <2>1 DEF SeedSave
    <3> QED BY <3>1, <3>2, <3>3 DEF Moves
  <2>2. CASE Register(i) \/ CallStep(i)
    BY <2>2, CallStepFacts DEF Register
  <2>3. CASE PatchStep(i)
    <3>1. pc[i] \in Working
      BY <2>3, PatchStepFacts
    <3>2. \/ UNCHANGED store
          \/ \E rec \in Record : /\ store' = [store EXCEPT ![i] = rec]
                                 /\ rec.status \in Provisioning \cup {"READY", loc[i].status}
      BY <2>3, PatchStepFacts
    <3> QED BY <2>0, <3>1, <3>2 DEF Moves, LifeAt
  <2>4. CASE Fail(i)
    <3> DEFINE rec == [loc[i] EXCEPT !.status = "FAILED"]
    <3>1. rec \in Record /\ rec.status = "FAILED"
      BY DEF TypeOK, Record, Status
    <3>2. pc[i] = "fail" /\ (UNCHANGED store \/ store' = [store EXCEPT ![i] = rec])
      BY <2>4 DEF Fail
    <3> QED BY <2>0, <3>1, <3>2 DEF Moves, LifeAt
  <2> QED BY <1>1, <2>1, <2>2, <2>3, <2>4, ProvisionSteps
<1>2. ASSUME NEW c \in Callers, TaskStep(c)
      PROVE  \/ UNCHANGED store
             \/ \E i \in Requests, rec \in Record :
                  store' = [store EXCEPT ![i] = rec] /\ Moves(i, rec)
  BY <1>2, TaskWrites, TaskFrame DEF Moves
<1>3. ASSUME NEW i \in Requests, BeginCreate(i) \/ Gate(i) \/ Age(i) PROVE UNCHANGED store
  BY <1>3 DEF BeginCreate, Gate, SweepList, SweepOne, CountActive, ValidateOwnership, Age
<1>4. ASSUME NEW d \in Destroyers, NEW i \in Requests, BeginDestroy(d, i) PROVE UNCHANGED store
  BY <1>4 DEF BeginDestroy
<1>5. CASE Crash \/ UNCHANGED vars
  BY <1>5 DEF Crash, vars
<1> QED BY <1>1, <1>2, <1>3, <1>4, <1>5 DEF Next

(* What a step never takes back.                                           *)
Persists ==
  /\ aged \subseteq aged'
  /\ \A i \in Requests :
       /\ pc[i] \in Answered => pc'[i] \in Answered
       /\ store[i].status # "NONE" => store'[i].status # "NONE"
       /\ store[i].status \in Ended => store'[i].status \in Ended
       /\ store[i].status \in TakenDown => store'[i].status \in TakenDown

LEMMA StepPersists ==
  ASSUME TypeOK, FailTasks, LifeInv, [Next]_vars
  PROVE  Persists
<1> USE CallerTypes
<1>1. ASSUME NEW i \in Requests
      PROVE  /\ store[i].status # "NONE" => store'[i].status # "NONE"
             /\ store[i].status \in Ended => store'[i].status \in Ended
             /\ store[i].status \in TakenDown => store'[i].status \in TakenDown
  <2>1. CASE UNCHANGED store
    BY <2>1
  <2>2. ASSUME NEW j \in Requests, NEW rec \in Record,
               store' = [store EXCEPT ![j] = rec], Moves(j, rec)
        PROVE  /\ store[i].status # "NONE" => store'[i].status # "NONE"
               /\ store[i].status \in Ended => store'[i].status \in Ended
               /\ store[i].status \in TakenDown => store'[i].status \in TakenDown
    <3>1. store'[i] = IF i = j THEN rec ELSE store[i]
      BY <2>2 DEF TypeOK
    <3>2. CASE i = j
      <4>1. /\ store[i].status # "NONE" => rec.status # "NONE"
            /\ store[i].status \in Ended => rec.status \in Ended
        BY <2>2, <3>2 DEF Moves, Ended, TakenDown, Provisioning, Live, Gone
      <4>2. store[i].status \in TakenDown => rec.status \in TakenDown
        BY <2>2, <3>2 DEF Moves, TakenDown, Provisioning, Live, Gone
      <4> QED BY <3>1, <3>2, <4>1, <4>2
    <3>3. CASE i # j
      BY <3>1, <3>3
    <3> QED BY <3>2, <3>3
  <2> QED BY <2>1, <2>2, RecordMoves
<1>2. aged \subseteq aged' /\ \A i \in Requests : pc[i] \in Answered => pc'[i] \in Answered
  <2>1. ASSUME NEW i \in Requests, BeginCreate(i) \/ Gate(i) \/ Age(i)
        PROVE  aged \subseteq aged' /\ \A j \in Requests : pc[j] \in Answered => pc'[j] \in Answered
    BY <2>1 DEF BeginCreate, Gate, SweepList, SweepOne, CountActive, ValidateOwnership, Age, Goto,
               TypeOK, Answered
  <2>2. ASSUME NEW i \in Requests, Provision(i)
        PROVE  aged \subseteq aged' /\ \A j \in Requests : pc[j] \in Answered => pc'[j] \in Answered
    <3>1. CASE SeedSave(i) \/ Register(i) \/ Fail(i)
      BY <3>1 DEF SeedSave, Register, Fail, Goto, TypeOK, Answered
    <3>2. CASE PatchStep(i)
      BY <3>2, PatchStepFacts DEF TypeOK, Answered, Working, InFlight
    <3>3. CASE CallStep(i)
      BY <3>3, CallStepFacts DEF TypeOK, Answered, Working, InFlight
    <3> QED BY <2>2, <3>1, <3>2, <3>3, ProvisionSteps
  <2>3. ASSUME NEW c \in Callers, TaskStep(c)
        PROVE  aged \subseteq aged' /\ \A j \in Requests : pc[j] \in Answered => pc'[j] \in Answered
    <3>1. UNCHANGED aged
      BY <2>3, TaskFrame
    <3>2. UNCHANGED pc \/ pc' = [pc EXCEPT ![c] = "failed"]
      BY <2>3 DEF TaskStep, TaskGet, TaskMark, TaskClean, TaskFinal, TaskSlot
    <3> QED BY <3>1, <3>2 DEF TypeOK, Answered
  <2>4. ASSUME NEW d \in Destroyers, NEW i \in Requests, BeginDestroy(d, i)
        PROVE  aged \subseteq aged' /\ \A j \in Requests : pc[j] \in Answered => pc'[j] \in Answered
    BY <2>4 DEF BeginDestroy
  <2>5. CASE Crash \/ UNCHANGED vars
    BY <2>5 DEF Crash, vars, Answered, InFlight, Over
  <2> QED BY <2>1, <2>2, <2>3, <2>4, <2>5 DEF Next
<1> QED BY <1>1, <1>2 DEF Persists

(* So only what a step touches has to be looked at again.                  *)
LEMMA LifeFrom ==
  ASSUME TypeOK, LifeInv, Persists,
         \A i \in Requests : LifeAt(i)' /\ (sweep'[i] = sweep[i] \/ SweepAt(i)'),
         \A c \in Callers : task'[c] = Idle \/ task'[c] = task[c] \/ DutyAt(task[c])'
  PROVE  LifeInv'
<1>1. ASSUME NEW i \in Requests PROVE SweepAt(i)'
  <2>1. CASE sweep'[i] = sweep[i]
    <3>1. SweepAt(i)
      BY DEF LifeInv
    <3> QED BY <2>1, <3>1 DEF SweepAt, Persists
  <2> QED BY <2>1
<1>2. ASSUME NEW c \in Callers, task'[c] # Idle PROVE DutyAt(task[c])'
  <2>1. CASE task'[c] = task[c]
    <3>1. DutyAt(task[c]) /\ task[c].id \in Requests
      BY <1>2, <2>1 DEF LifeInv, TypeOK, Task
    <3> QED BY <2>1, <3>1 DEF DutyAt, Persists
  <2> QED BY <1>2, <2>1
<1> QED BY <1>1, <1>2 DEF LifeInv

(* A step that leaves records, ages and local records alone moves nothing  *)
(* into provisioning but from before it.                                   *)
LEMMA LifeAtKept ==
  ASSUME LifeInv, UNCHANGED <<store, aged>>, NEW i \in Requests, loc'[i] = loc[i],
         pc'[i] \in Unborn => pc[i] \in Unborn,
         pc'[i] \in Working => pc[i] \in Working,
         pc'[i] = "fail" => pc[i] \in Working \cup {"fail"}
  PROVE  LifeAt(i)'
<1>1. LifeAt(i)
  BY DEF LifeInv
<1> QED BY <1>1 DEF LifeAt, Working, InFlight

LEMMA LifeGate ==
  ASSUME TypeOK, LifeInv, Persists, NEW i \in Requests, BeginCreate(i) \/ Gate(i)
  PROVE  LifeInv'
<1> USE CallerTypes, IdleIsNoTask DEF Unborn, InFlight, Working
<1>1. SweepAt(i) /\ sweep[i] \in Sweep
  BY DEF LifeInv, TypeOK
<1>2. CASE BeginCreate(i) \/ SweepList(i) \/ CountActive(i) \/ ValidateOwnership(i)
  <2>1. /\ UNCHANGED <<store, aged, loc, task>> /\ pc[i] \in Unborn /\ pc'[i] \in Unborn
        /\ \A j \in Requests \ {i} : pc'[j] = pc[j] /\ sweep'[j] = sweep[j]
    BY <1>2 DEF TypeOK, BeginCreate, SweepList, CountActive, ValidateOwnership, Goto
  <2>2. \A j \in Requests : LifeAt(j)'
    BY <2>1, LifeAtKept
  <2>3. sweep'[i] = sweep[i] \/ SweepAt(i)'
    <3>1. CASE BeginCreate(i)
      <4>1. sweep'[i] = [at |-> 0, now |-> aged, todo |-> NoSweep.todo]
        BY <3>1 DEF BeginCreate, TypeOK
      <4> QED BY <2>1, <4>1 DEF SweepAt, NoSweep
    <3>2. CASE SweepList(i)
      <4>1. CASE sweep' = [sweep EXCEPT ![i] = NoSweep]
        BY <2>1, <4>1 DEF SweepAt, NoSweep, TypeOK
      <4>2. CASE sweep' = [sweep EXCEPT ![i] = [at |-> sweep[i].at + 1, now |-> sweep[i].now,
                                               todo |-> Listed(sweep[i])]]
        <5>1. sweep'[i].now = sweep[i].now /\ sweep'[i].todo = Listed(sweep[i])
          BY <4>2 DEF TypeOK
        <5>2. ASSUME NEW j \in Requests, Listed(sweep[i])[j] # NoRecord
              PROVE  IF Listed(sweep[i])[j].status = "FAILED" THEN store[j].status \in Ended
                     ELSE j \in aged
          <6>1. /\ Listed(sweep[i])[j] = store[j]
                /\ store[j].status = "FAILED" \/ j \in sweep[i].now
            BY <5>2 DEF Listed
          <6> QED BY <1>1, <6>1 DEF SweepAt, Ended
        <5> QED BY <1>1, <2>1, <5>1, <5>2 DEF SweepAt
      <4> QED BY <3>2, <4>1, <4>2 DEF SweepList
    <3>3. CASE CountActive(i) \/ ValidateOwnership(i)
      BY <3>3 DEF CountActive, ValidateOwnership
    <3> QED BY <1>2, <3>1, <3>2, <3>3
  <2> QED BY <2>1, <2>2, <2>3, LifeFrom
<1>3. ASSUME NEW j \in Requests, SweepOne(i, j) PROVE LifeInv'
  <2>1. /\ UNCHANGED <<store, aged, pc, loc>> /\ sweep[i].todo[j] # NoRecord
        /\ \A k \in Requests \ {i} : sweep'[k] = sweep[k]
        /\ \A c \in Callers \ {i} : task'[c] = task[c]
        /\ sweep'[i] = DoneWith(sweep[i], j)
    BY <1>3 DEF SweepOne, TypeOK
  <2>2. \A k \in Requests : LifeAt(k)'
    BY <2>1, LifeAtKept
  <2>3. SweepAt(i)'
    <3>1. /\ sweep'[i].now = sweep[i].now
          /\ \A k \in Requests : sweep'[i].todo[k] # NoRecord => sweep'[i].todo[k] = sweep[i].todo[k]
      BY <1>1, <2>1 DEF DoneWith, Sweep
    <3> QED BY <1>1, <2>1, <3>1 DEF SweepAt
  <2>4. DutyAt(task[i])'
    <3>1. /\ task'[i].id = j
          /\ \/ task'[i].kind = "clean" /\ task'[i].at = "clean" /\ store[j].status \in Ended
             \/ task'[i].kind = "expire" /\ j \in aged
      BY <1>1, <1>3, <2>1 DEF SweepOne, SweepAt, TypeOK
    <3> QED BY <2>1, <3>1 DEF DutyAt
  <2> QED BY <2>1, <2>2, <2>3, <2>4, LifeFrom
<1> QED BY <1>2, <1>3 DEF Gate

LEMMA LifeProvision ==
  ASSUME TypeOK, LifeInv, Persists, NEW i \in Requests, Provision(i)
  PROVE  LifeInv'
<1> USE CallerTypes, IdleIsNoTask DEF Unborn, InFlight, Working
<1>0. LifeAt(i)
  BY DEF LifeInv
<1>1. ASSUME UNCHANGED <<aged, sweep, task>>, LifeAt(i)',
             \A j \in Requests \ {i} : pc'[j] = pc[j] /\ loc'[j] = loc[j] /\ store'[j] = store[j]
      PROVE  LifeInv'
  <2>1. ASSUME NEW j \in Requests PROVE LifeAt(j)'
    BY <1>1 DEF LifeInv, LifeAt
  <2> QED BY <1>1, <2>1, LifeFrom
<1>2. CASE SeedSave(i)
  <2>1. LifeAt(i)'
    BY <1>0, <1>2 DEF LifeAt, SeedSave, Goto, TypeOK, Provisioning, Live
  <2> QED BY <1>1, <1>2, <2>1 DEF TypeOK, SeedSave, Goto
<1>3. CASE Register(i)
  <2>1. LifeAt(i)'
    BY <1>0, <1>3 DEF LifeAt, Register, Goto, TypeOK
  <2> QED BY <1>1, <1>3, <2>1 DEF TypeOK, Register, Goto
<1>4. CASE PatchStep(i)
  <2>1. pc[i] \in Working /\ UNCHANGED <<registry, known, up, aged, sweep, task>>
    BY <1>4, PatchStepFacts
  <2>2. PICK to \in InFlight \cup {"returned"}, rec \in Record :
          /\ pc' = [pc EXCEPT ![i] = to]
          /\ \/ /\ store' = [store EXCEPT ![i] = rec] /\ loc' = [loc EXCEPT ![i] = rec]
                /\ IF to = "returned" THEN rec.status = "READY"
                   ELSE rec.status \in Provisioning \cup {loc[i].status}
             \/ to = "fail" /\ UNCHANGED <<store, loc>>
    BY <1>4, PatchStepFacts
  <2>3. LifeAt(i)'
    BY <1>0, <2>1, <2>2 DEF LifeAt, TypeOK, Provisioning, Live
  <2> QED BY <1>1, <2>1, <2>2, <2>3 DEF TypeOK
<1>5. CASE CallStep(i)
  <2>1. pc[i] \in Working /\ UNCHANGED <<store, registry, aged, loc, sweep, task>>
    BY <1>5, CallStepFacts
  <2>2. PICK to \in InFlight : pc' = [pc EXCEPT ![i] = to]
    BY <1>5, CallStepFacts
  <2>3. LifeAt(i)'
    BY <1>0, <2>1, <2>2 DEF LifeAt, TypeOK
  <2> QED BY <1>1, <2>1, <2>2, <2>3 DEF TypeOK
<1>6. CASE Fail(i)
  <2>1. /\ pc[i] = "fail" /\ UNCHANGED <<aged, pc, loc, sweep>>
        /\ task'[i].kind = "fail" /\ task'[i].at = "clean"
        /\ \A c \in Callers \ {i} : task'[c] = task[c]
        /\ \A j \in Requests \ {i} : store'[j] = store[j]
        /\ store'[i] = store[i] \/ store'[i].status = "FAILED"
    BY <1>6 DEF Fail, TypeOK, Record
  <2>2. LifeAt(i)'
    BY <1>0, <2>1 DEF LifeAt
  <2>3. ASSUME NEW j \in Requests PROVE LifeAt(j)'
    BY <2>1, <2>2 DEF LifeInv, LifeAt
  <2>4. DutyAt(task[i])'
    BY <2>1 DEF DutyAt
  <2> QED BY <2>1, <2>3, <2>4, LifeFrom
<1> QED BY <1>2, <1>3, <1>4, <1>5, <1>6, ProvisionSteps

LEMMA LifeTask ==
  ASSUME TypeOK, FailTasks, LifeInv, Persists, NEW c \in Callers, TaskStep(c)
  PROVE  LifeInv'
<1> USE CallerTypes, IdleIsNoTask DEF Unborn, InFlight, Working
<1> DEFINE t == task[c]
<1>1. /\ t # Idle /\ t \in Task /\ t.id \in Requests /\ DutyAt(t)
      /\ UNCHANGED <<aged, loc, sweep>> /\ \A e \in Callers \ {c} : task'[e] = task[e]
  BY TaskFrame DEF LifeInv
<1>2. \A i \in Requests : pc'[i] = pc[i] \/ (pc[i] = "fail" /\ pc'[i] = "failed")
  <2>1. UNCHANGED pc \/ (pc' = [pc EXCEPT ![c] = "failed"] /\ t.kind = "fail")
    BY DEF TaskStep, TaskGet, TaskMark, TaskClean, TaskFinal, TaskSlot
  <2> QED BY <1>1, <2>1 DEF FailTasks, TypeOK
<1>3. ASSUME NEW i \in Requests PROVE LifeAt(i)'
  <2>1. LifeAt(i)
    BY DEF LifeInv
  <2>2. CASE store'[i] = store[i]
    BY <1>1, <1>2, <2>1, <2>2 DEF LifeAt
  <2>3. CASE store'[i].status \in TakenDown /\ pc[i] \notin InFlight \cup Unborn
    BY <1>1, <1>2, <2>1, <2>3 DEF LifeAt, TakenDown, Gone
  <2> QED BY <2>2, <2>3, TaskWrites DEF TypeOK
<1>4. task'[c] = Idle \/ DutyAt(task[c])'
  <2>0. task'[c] = Idle \/ (task'[c].kind = t.kind /\ task'[c].id = t.id)
    BY <1>1 DEF TaskStep, TaskGet, TaskMark, TaskClean, TaskFinal, TaskSlot, TypeOK, Task
  <2>1. CASE TaskGet(c)
    <3>1. task'[c] = Idle \/ (store[t.id].status # "NONE" /\ t.at = "get")
      BY <2>1 DEF TaskGet, TypeOK
    <3> QED BY <1>1, <2>0, <3>1 DEF DutyAt, Persists, Task
  <2>2. CASE TaskMark(c) \/ TaskClean(c) \/ TaskFinal(c) \/ TaskSlot(c)
    <3>1. t.at # "get"
      BY <1>1, <2>2 DEF TaskMark, TaskClean, TaskFinal, TaskSlot
    <3>2. t.kind \in {"clean", "fail"} => task'[c] = Idle \/ task'[c].at = "clean"
      BY <1>1, <2>2 DEF TaskMark, TaskClean, TaskFinal, TaskSlot, DutyAt, TypeOK, Task
    <3> QED BY <1>1, <2>0, <3>1, <3>2 DEF DutyAt, Persists
  <2> QED BY <2>1, <2>2 DEF TaskStep
<1> QED BY <1>1, <1>3, <1>4, LifeFrom

LEMMA LifeStep ==
  ASSUME LifetimeCovers, TypeOK, FailTasks, LifeInv, [Next]_vars
  PROVE  LifeInv'
<1> USE CallerTypes, IdleIsNoTask DEF Unborn, InFlight, Working, Answered, Over
<1>0. Persists
  BY StepPersists
<1>1. ASSUME NEW d \in Destroyers, NEW i \in Requests, BeginDestroy(d, i) PROVE LifeInv'
  <2>1. /\ UNCHANGED <<store, aged, pc, loc, sweep>> /\ pc[i] \in Answered
        /\ task'[d].kind = "destroy" /\ task'[d].id = i /\ task'[d].at = "get"
        /\ \A c \in Callers \ {d} : task'[c] = task[c]
    BY <1>1 DEF TypeOK, BeginDestroy
  <2>2. DutyAt(task[d])'
    BY <2>1 DEF DutyAt
  <2>3. \A j \in Requests : LifeAt(j)'
    BY <2>1, LifeAtKept
  <2> QED BY <1>0, <2>1, <2>2, <2>3, LifeFrom
<1>2. CASE Crash
  <2>1. /\ UNCHANGED <<store, aged, loc>>
        /\ \A c \in Callers : task'[c] = Idle
        /\ \A i \in Requests : sweep'[i] = NoSweep
        /\ \A i \in Requests : pc'[i] = IF pc[i] \in InFlight THEN "crashed"
                                        ELSE IF pc[i] \in Over THEN pc[i] ELSE "idle"
    BY <1>2 DEF Crash
  <2>2. ASSUME NEW i \in Requests PROVE LifeAt(i)' /\ SweepAt(i)'
    <3>1. pc[i] \in PC
      BY DEF TypeOK
    <3>2. LifeAt(i)'
      BY <2>1, <3>1, LifeAtKept DEF PC
    <3> QED BY <2>1, <3>2 DEF SweepAt, NoSweep
  <2> QED BY <1>0, <2>1, <2>2, LifeFrom
<1>3. ASSUME NEW i \in Requests, Age(i) PROVE LifeInv'
  <2>1. /\ UNCHANGED <<store, pc, loc, sweep, task>> /\ aged' = aged \cup {i}
        /\ store[i].status # "NONE" /\ pc[i] \notin InFlight
    BY <1>3 DEF Age
  <2>2. ASSUME NEW j \in Requests PROVE LifeAt(j)'
    BY <2>1 DEF LifeInv, LifeAt
  <2> QED BY <1>0, <2>1, <2>2, LifeFrom
<1>4. CASE UNCHANGED vars
  <2>1. \A j \in Requests : LifeAt(j)'
    BY <1>4, LifeAtKept DEF vars
  <2> QED BY <1>0, <1>4, <2>1, LifeFrom DEF vars
<1> QED BY <1>0, <1>1, <1>2, <1>3, <1>4, LifeGate, LifeProvision, LifeTask DEF Next

LEMMA LifeAlways ==
  ASSUME LifetimeCovers
  PROVE  Spec => [](TypeOK /\ FailTasks /\ LifeInv)
<1>1. Init => FailTasks /\ LifeInv
  <2> SUFFICES ASSUME Init PROVE FailTasks /\ LifeInv
    OBVIOUS
  <2>1. FailTasks
    BY DEF Init, FailTasks
  <2>2. LifeInv
    BY DEF Init, LifeInv, LifeAt, SweepAt, NoRecord, NoSweep, InFlight, Working
  <2> QED BY <2>1, <2>2
<1>2. TypeOK /\ FailTasks /\ LifeInv /\ [Next]_vars => FailTasks' /\ LifeInv'
  BY FailTasksStep, LifeStep
<1> QED BY <1>1, <1>2, TypeCorrect, PTL DEF Spec

(* Every step of the service is a step of the abstract lifecycle for one   *)
(* sandbox, or none.                                                       *)
LEMMA StepImplements ==
  ASSUME TypeOK, LifeInv, [Next]_vars
  PROVE  [Lifecycle!Next]_([i \in Requests |-> RecordState(i)])
<1> DEFINE st == [i \in Requests |-> RecordState(i)]
<1>1. CASE UNCHANGED store
  BY <1>1 DEF RecordState
<1>2. ASSUME NEW i \in Requests, NEW rec \in Record,
             store' = [store EXCEPT ![i] = rec], Moves(i, rec)
      PROVE  Lifecycle!Next \/ UNCHANGED st
  <2> DEFINE new == RecordState(i)'
  <2>1. store'[i] = rec /\ \A j \in Requests \ {i} : store'[j] = store[j]
    BY <1>2 DEF TypeOK
  <2>2. \A j \in Requests \ {i} : RecordState(j)' = RecordState(j)
    BY <2>1 DEF RecordState
  <2>3. st' = [st EXCEPT ![i] = new]
    BY <2>2
  <2>4. \/ new = RecordState(i)
        \/ RecordState(i) = "none" /\ new = "provisioning"
        \/ RecordState(i) = "provisioning" /\ new = "ready"
        \/ RecordState(i) \in {"none", "provisioning"} /\ new = "failed"
        \/ RecordState(i) \in {"provisioning", "ready", "failed"} /\ new = "gone"
    <3>1. store[i].status \in Status /\ rec.status \in Status
      BY DEF TypeOK, Record
    <3> QED BY <1>2, <2>1, <3>1
            DEF Moves, RecordState, Status, Live, Gone, Provisioning, TakenDown
  <2> HIDE DEF new
  <2>5. st[i] = RecordState(i)
    OBVIOUS
  <2>6. CASE new = RecordState(i)
    BY <2>3, <2>5, <2>6
  <2>7. CASE new # RecordState(i)
    BY <2>3, <2>4, <2>5, <2>7
       DEF Lifecycle!Next, Lifecycle!Seed, Lifecycle!Ready, Lifecycle!Fail, Lifecycle!TakeDown,
           Lifecycle!Move
  <2> QED BY <2>6, <2>7
<1> QED BY <1>1, <1>2, RecordMoves

(* When no sandbox outlives its lifetime while it is provisioned, the      *)
(* durable records implement SandboxLifecycle, through failing saves,      *)
(* overlapping destroys and sweeps, and restarts.                          *)
THEOREM Implements == ASSUME LifetimeCovers PROVE Spec => LifecycleSpec
<1>1. Init => Lifecycle!Init
  <2> SUFFICES ASSUME Init PROVE Lifecycle!Init
    OBVIOUS
  <2>1. ASSUME NEW i \in Requests PROVE RecordState(i) = "none"
    <3>1. store[i].status = "NONE"
      BY DEF Init, NoRecord
    <3> QED BY <3>1 DEF RecordState, Live
  <2> QED BY <2>1 DEF Lifecycle!Init
<1>2. TypeOK /\ LifeInv /\ [Next]_vars
      => [Lifecycle!Next]_([i \in Requests |-> RecordState(i)])
  BY StepImplements
<1>3. Spec => [](TypeOK /\ FailTasks /\ LifeInv)
  BY LifeAlways
<1> QED BY <1>1, <1>2, <1>3, PTL DEF Spec, LifecycleSpec, Lifecycle!Spec

-----------------------------------------------------------------------------
(* What nobody works on.  Without restarts the record of a sandbox and the *)
(* local one of its create() name the same resources, so whoever cleans    *)
(* the sandbox owes all that is left of them, and a terminal record has    *)
(* somebody cleaning or nothing left.                                      *)

Left(i) == up[i] \cap loc[i].refs
Cleaning(c, i) == task[c] # Idle /\ task[c].id = i /\ task[c].at = "clean"
Terminal == Gone \cup {"FAILED"}

SettledAt(i) ==
  /\ store[i].refs = loc[i].refs
  /\ pc[i] \in Unborn => store[i].refs = {}
  /\ "container" \in up[i] => i \in known
  /\ pc[i] \in Working \ {"register"} => i \in registry
  /\ store[i].status = "READY" => i \in registry
  /\ store[i].status \in Terminal => Left(i) = {} \/ \E c \in Callers : Cleaning(c, i)

ListAt(i) ==
  \A j \in Requests :
    sweep[i].todo[j].status = "FAILED" => sweep[i].todo[j].refs = loc[j].refs

OwedAt(t) ==
  /\ t.at # "get" => t.rec.refs = loc[t.id].refs
  /\ t.at = "clean" => Left(t.id) \subseteq t.left
  /\ t.kind \in {"destroy", "expire"} /\ t.at \in {"clean", "slot"} => store[t.id].status \in TakenDown

SettledInv ==
  /\ \A i \in Requests : SettledAt(i) /\ ListAt(i)
  /\ \A c \in Callers : task[c] # Idle => OwedAt(task[c])

(* While a sandbox is provisioned nobody has anything to do with it.       *)
LEMMA NobodyElse ==
  ASSUME TypeOK, FailTasks, LifeInv, NEW i \in Requests, pc[i] \in Working \cup {"seed"},
         NEW c \in Callers, task[c] # Idle
  PROVE  task[c].id # i
<1>1. DutyAt(task[c]) /\ task[c] \in Task /\ LifeAt(i)
  BY DEF LifeInv, TypeOK
<1> QED BY <1>1 DEF DutyAt, LifeAt, FailTasks, Task, Working, InFlight, Unborn, Answered,
                    Ended, TakenDown, Gone, Provisioning, Live

(* A task nobody touched still owes what it owed, as long as nothing is    *)
(* made for its sandbox and its local record stays.                        *)
LEMMA OwedKept ==
  ASSUME TypeOK, SettledInv, Persists, NEW c \in Callers, task[c] # Idle, task'[c] = task[c],
         loc'[task[c].id].refs = loc[task[c].id].refs,
         up'[task[c].id] \subseteq up[task[c].id]
  PROVE  OwedAt(task[c])'
<1>1. OwedAt(task[c]) /\ task[c].id \in Requests
  BY DEF SettledInv, TypeOK, Task
<1> QED BY <1>1 DEF OwedAt, Persists, Left

(* A sandbox nothing happened to, though tasks may have been begun.        *)
LEMMA SettledAtKept ==
  ASSUME SettledInv, NEW i \in Requests,
         store'[i] = store[i], loc'[i] = loc[i], up'[i] = up[i],
         i \in known => i \in known', i \in registry => i \in registry',
         pc'[i] \in Unborn => pc[i] \in Unborn,
         pc'[i] \in Working \ {"register"} => pc[i] \in Working \ {"register"},
         \A c \in Callers : Cleaning(c, i) => Cleaning(c, i)'
  PROVE  SettledAt(i)'
<1>1. SettledAt(i)
  BY DEF SettledInv
<1> QED BY <1>1 DEF SettledAt, Left

LEMMA SettledKept ==
  ASSUME TypeOK, SettledInv, Persists, UNCHANGED <<store, loc, known, up, registry>>,
         \A i \in Requests : /\ pc'[i] \in Unborn => pc[i] \in Unborn
                             /\ pc'[i] \in Working \ {"register"} => pc[i] \in Working \ {"register"}
                             /\ sweep'[i] = sweep[i] \/ ListAt(i)',
         \A c \in Callers : /\ task[c] # Idle => task'[c] = task[c]
                            /\ task'[c] = task[c] \/ OwedAt(task[c])'
  PROVE  SettledInv'
<1>1. ASSUME NEW i \in Requests PROVE SettledAt(i)' /\ ListAt(i)'
  <2>1. \A c \in Callers : Cleaning(c, i) => Cleaning(c, i)'
    BY DEF Cleaning
  <2>2. SettledAt(i)'
    BY <2>1, SettledAtKept
  <2>3. ListAt(i)
    BY DEF SettledInv
  <2> QED BY <2>2, <2>3 DEF ListAt
<1>2. ASSUME NEW c \in Callers, task'[c] # Idle PROVE OwedAt(task[c])'
  <2>1. CASE task'[c] = task[c]
    <3>1. task[c].id \in Requests
      BY <1>2, <2>1 DEF TypeOK, Task
    <3> QED BY <1>2, <2>1, <3>1, OwedKept
  <2> QED BY <2>1
<1> QED BY <1>1, <1>2 DEF SettledInv

LEMMA SettledGate ==
  ASSUME TypeOK, SettledInv, Persists, NEW i \in Requests, BeginCreate(i) \/ Gate(i)
  PROVE  SettledInv'
<1> USE CallerTypes, IdleIsNoTask DEF Unborn, InFlight, Working
<1>1. ListAt(i) /\ sweep[i] \in Sweep
  BY DEF SettledInv, TypeOK
<1>2. CASE BeginCreate(i) \/ SweepList(i) \/ CountActive(i) \/ ValidateOwnership(i)
  <2>1. /\ UNCHANGED <<store, loc, known, up, registry, task>> /\ pc[i] \in Unborn /\ pc'[i] \in Unborn
        /\ \A j \in Requests \ {i} : pc'[j] = pc[j] /\ sweep'[j] = sweep[j]
    BY <1>2 DEF TypeOK, BeginCreate, SweepList, CountActive, ValidateOwnership, Goto
  <2>2. sweep'[i] = sweep[i] \/ ListAt(i)'
    <3>1. CASE BeginCreate(i)
      <4>1. sweep'[i] = [at |-> 0, now |-> aged, todo |-> NoSweep.todo]
        BY <3>1 DEF BeginCreate, TypeOK
      <4> QED BY <4>1 DEF ListAt, NoSweep, NoRecord
    <3>2. CASE SweepList(i)
      <4>1. CASE sweep' = [sweep EXCEPT ![i] = NoSweep]
        BY <4>1 DEF ListAt, NoSweep, NoRecord, TypeOK
      <4>2. CASE sweep' = [sweep EXCEPT ![i] = [at |-> sweep[i].at + 1, now |-> sweep[i].now,
                                               todo |-> Listed(sweep[i])]]
        <5>1. sweep'[i].todo = Listed(sweep[i])
          BY <4>2 DEF TypeOK
        <5>2. ASSUME NEW j \in Requests, Listed(sweep[i])[j].status = "FAILED"
              PROVE  Listed(sweep[i])[j].refs = loc[j].refs
          <6>1. Listed(sweep[i])[j] = store[j]
            BY <5>2 DEF Listed, NoRecord
          <6> QED BY <6>1 DEF SettledInv, SettledAt
        <5> QED BY <2>1, <5>1, <5>2 DEF ListAt
      <4> QED BY <3>2, <4>1, <4>2 DEF SweepList
    <3>3. CASE CountActive(i) \/ ValidateOwnership(i)
      BY <3>3 DEF CountActive, ValidateOwnership
    <3> QED BY <1>2, <3>1, <3>2, <3>3
  <2> QED BY <2>1, <2>2, SettledKept
<1>3. ASSUME NEW j \in Requests, SweepOne(i, j) PROVE SettledInv'
  <2>1. /\ UNCHANGED <<store, loc, known, up, registry, pc>> /\ task[i] = Idle
        /\ \A k \in Requests \ {i} : sweep'[k] = sweep[k]
        /\ \A c \in Callers \ {i} : task'[c] = task[c]
        /\ sweep'[i] = DoneWith(sweep[i], j)
    BY <1>3 DEF SweepOne, TypeOK
  <2>2. ListAt(i)'
    <3>1. \A k \in Requests : sweep'[i].todo[k] = NoRecord \/ sweep'[i].todo[k] = sweep[i].todo[k]
      BY <1>1, <2>1 DEF DoneWith, Sweep
    <3> QED BY <1>1, <2>1, <3>1 DEF ListAt, NoRecord
  <2>3. OwedAt(task[i])'
    <3>1. /\ task'[i].id = j
          /\ \/ /\ task'[i].kind = "clean" /\ task'[i].rec.refs = loc[j].refs
                /\ task'[i].left = loc[j].refs
             \/ task'[i].kind = "expire" /\ task'[i].at = "get"
      BY <1>1, <1>3, <2>1 DEF SweepOne, ListAt, TypeOK, Reclaims
    <3> QED BY <2>1, <3>1 DEF OwedAt, Left
  <2> QED BY <2>1, <2>2, <2>3, SettledKept
<1> QED BY <1>2, <1>3 DEF Gate

LEMMA SettledProvision ==
  ASSUME TypeOK, FailTasks, LifeInv, SettledInv, Persists, NEW i \in Requests, Provision(i)
  PROVE  SettledInv'
<1> USE CallerTypes, IdleIsNoTask DEF Unborn, InFlight, Working
<1>0. LifeAt(i) /\ SettledAt(i)
  BY DEF LifeInv, SettledInv
<1>1. ASSUME pc[i] \in Working \cup {"seed"}, UNCHANGED <<sweep, task>>, SettledAt(i)',
             known \subseteq known', registry \subseteq registry',
             \A j \in Requests \ {i} : /\ pc'[j] = pc[j] /\ loc'[j] = loc[j]
                                       /\ store'[j] = store[j] /\ up'[j] = up[j]
      PROVE  SettledInv'
  <2>1. ASSUME NEW j \in Requests PROVE SettledAt(j)'
    <3>1. \A c \in Callers : Cleaning(c, j) => Cleaning(c, j)'
      BY <1>1 DEF Cleaning
    <3> QED BY <1>1, <3>1, SettledAtKept
  <2>2. ASSUME NEW k \in Requests PROVE ListAt(k)'
    <3>1. ListAt(k) /\ SweepAt(k)
      BY DEF SettledInv, LifeInv
    <3>2. sweep[k].todo[i].status # "FAILED"
      BY <1>0, <1>1, <3>1
         DEF SweepAt, LifeAt, NoRecord, Ended, TakenDown, Gone, Provisioning, Live
    <3> QED BY <1>1, <3>1, <3>2 DEF ListAt
  <2>3. ASSUME NEW c \in Callers, task'[c] # Idle PROVE OwedAt(task[c])'
    <3>1. task[c] # Idle /\ task[c].id \in Requests \ {i}
      BY <1>1, <2>3, NobodyElse DEF TypeOK, Task
    <3> QED BY <1>1, <3>1, OwedKept
  <2> QED BY <2>1, <2>2, <2>3 DEF SettledInv
<1>2. CASE SeedSave(i)
  <2>1. SettledAt(i)'
    BY <1>0, <1>2 DEF SettledAt, LifeAt, SeedSave, Goto, TypeOK, Terminal, Gone
  <2> QED BY <1>1, <1>2, <2>1 DEF TypeOK, SeedSave, Goto
<1>3. CASE Register(i)
  <2>1. SettledAt(i)'
    BY <1>0, <1>3 DEF SettledAt, LifeAt, Register, Goto, TypeOK, Terminal, Gone, Provisioning, Live
  <2> QED BY <1>1, <1>3, <2>1 DEF TypeOK, Register, Goto
<1>4. CASE PatchStep(i)
  <2>1. pc[i] \in Working \ {"register"} /\ UNCHANGED <<registry, known, up, aged, sweep, task>>
    BY <1>4, PatchStepFacts
  <2>2. PICK to \in InFlight \cup {"returned"}, rec \in Record :
          /\ pc' = [pc EXCEPT ![i] = to]
          /\ \/ /\ store' = [store EXCEPT ![i] = rec] /\ loc' = [loc EXCEPT ![i] = rec]
                /\ IF to = "returned" THEN rec.status = "READY"
                   ELSE rec.status \in Provisioning \cup {loc[i].status}
             \/ to = "fail" /\ UNCHANGED <<store, loc>>
    BY <1>4, PatchStepFacts
  <2>3. store'[i].status \in Provisioning \cup {"READY"} /\ store'[i].refs = loc'[i].refs
    BY <1>0, <2>1, <2>2 DEF LifeAt, SettledAt, TypeOK
  <2>4. SettledAt(i)'
    BY <1>0, <2>1, <2>2, <2>3 DEF SettledAt, TypeOK, Terminal, Gone, Provisioning, Live
  <2> QED BY <1>1, <2>1, <2>2, <2>4 DEF TypeOK
<1>5. CASE CallStep(i)
  <2>1. /\ pc[i] \in Working \ {"register"} /\ UNCHANGED <<store, registry, aged, loc, sweep, task>>
        /\ known \subseteq known'
    BY <1>5, CallStepFacts
  <2>2. PICK to \in InFlight : pc' = [pc EXCEPT ![i] = to]
    BY <1>5, CallStepFacts
  <2>3. PICK new \in SUBSET Resources :
          up' = [up EXCEPT ![i] = up[i] \cup new] /\ ("container" \in new => i \in known')
    BY <1>5, CallStepFacts
  <2>4. SettledAt(i)'
    BY <1>0, <2>1, <2>2, <2>3 DEF SettledAt, LifeAt, TypeOK, Terminal, Gone, Provisioning, Live
  <2> QED BY <1>1, <2>1, <2>2, <2>3, <2>4 DEF TypeOK
<1>6. CASE Fail(i)
  <2>1. /\ pc[i] = "fail" /\ UNCHANGED <<registry, known, up, pc, loc, sweep>> /\ task[i] = Idle
        /\ task'[i].kind = "fail" /\ task'[i].at = "clean" /\ task'[i].id = i /\ task'[i] # Idle
        /\ task'[i].rec.refs = loc[i].refs /\ task'[i].left = loc[i].refs
        /\ \A c \in Callers \ {i} : task'[c] = task[c]
        /\ \A j \in Requests \ {i} : store'[j] = store[j]
        /\ store'[i] = store[i] \/ (store'[i].status = "FAILED" /\ store'[i].refs = loc[i].refs)
    BY <1>6 DEF Fail, TypeOK, Record, Reclaims, Idle
  <2>2. SettledAt(i)'
    BY <1>0, <2>1 DEF SettledAt, Cleaning, Left
  <2>3. ASSUME NEW j \in Requests PROVE SettledAt(j)' /\ ListAt(j)'
    <3>1. ListAt(j)
      BY DEF SettledInv
    <3>2. \A c \in Callers : Cleaning(c, j) => Cleaning(c, j)'
      BY <2>1 DEF Cleaning
    <3> QED BY <2>1, <2>2, <3>1, <3>2, SettledAtKept DEF ListAt
  <2>4. OwedAt(task[i])'
    BY <2>1 DEF OwedAt, Left
  <2>5. ASSUME NEW c \in Callers, task'[c] # Idle PROVE OwedAt(task[c])'
    <3>1. CASE c = i
      BY <2>4, <3>1
    <3>2. CASE c # i
      <4>1. task[c] # Idle /\ task'[c] = task[c] /\ task[c].id \in Requests
        BY <2>1, <2>5, <3>2 DEF TypeOK, Task
      <4> QED BY <2>1, <4>1, OwedKept
    <3> QED BY <3>1, <3>2
  <2> QED BY <2>3, <2>5 DEF SettledInv
<1> QED BY <1>2, <1>3, <1>4, <1>5, <1>6, ProvisionSteps

LEMMA SettledTask ==
  ASSUME TypeOK, FailTasks, LifeInv, SettledInv, Persists, NEW c \in Callers, TaskStep(c)
  PROVE  SettledInv'
<1> USE CallerTypes, IdleIsNoTask DEF Unborn, InFlight, Working
<1> DEFINE t == task[c]
<1>1. /\ t # Idle /\ t \in Task /\ t.id \in Requests /\ t.rec \in Record
      /\ OwedAt(t) /\ DutyAt(t)
      /\ UNCHANGED <<aged, loc, sweep>>
      /\ \A e \in Callers \ {c} : task'[e] = task[e]
      /\ \A i \in Requests \ {t.id} : store'[i] = store[i] /\ up'[i] = up[i]
  BY TaskFrame DEF SettledInv, LifeInv, Task
<1> HIDE DEF t
<1>2. PICK i \in Requests : t.id = i
  BY <1>1
<1>3. SettledAt(i) /\ LifeAt(i) /\ pc[i] \notin Working
  BY <1>1, <1>2, NobodyElse DEF SettledInv, LifeInv, t
<1>4. \A j \in Requests : pc'[j] = pc[j] \/ (pc[j] = "fail" /\ pc'[j] = "failed")
  <2>1. UNCHANGED pc \/ (pc' = [pc EXCEPT ![c] = "failed"] /\ t.kind = "fail")
    BY DEF TaskStep, TaskGet, TaskMark, TaskClean, TaskFinal, TaskSlot, t
  <2> QED BY <1>1, <2>1 DEF FailTasks, TypeOK, t
<1>5. /\ \A j \in Requests \ {i} : j \in known => j \in known'
      /\ \A j \in Requests \ {i} : j \in registry => j \in registry'
      /\ up'[i] \subseteq up[i]
  BY <1>2 DEF TaskStep, TaskGet, TaskMark, TaskClean, TaskFinal, TaskSlot, TypeOK, t
(* Only the sandbox and the task of this caller need a look.               *)
<1>6. ASSUME SettledAt(i)', task'[c] = Idle \/ OwedAt(task[c])'
      PROVE  SettledInv'
  <2>1. ASSUME NEW j \in Requests PROVE SettledAt(j)'
    <3>1. CASE j = i
      BY <1>6, <3>1
    <3>2. CASE j # i
      <4>1. \A e \in Callers : Cleaning(e, j) => Cleaning(e, j)'
        BY <1>1, <1>2, <3>2 DEF Cleaning, t
      <4> QED BY <1>1, <1>2, <1>4, <1>5, <3>2, <4>1, SettledAtKept
    <3> QED BY <3>1, <3>2
  <2>2. ASSUME NEW j \in Requests PROVE ListAt(j)'
    <3>1. ListAt(j)
      BY DEF SettledInv
    <3> QED BY <1>1, <3>1 DEF ListAt
  <2>3. ASSUME NEW e \in Callers, task'[e] # Idle PROVE OwedAt(task[e])'
    <3>1. CASE e = c
      BY <1>6, <2>3, <3>1
    <3>2. CASE e # c
      <4>1. task[e] # Idle /\ task'[e] = task[e] /\ task[e].id \in Requests
        BY <1>1, <2>3, <3>2 DEF TypeOK, Task
      <4>2. up'[task[e].id] \subseteq up[task[e].id]
        BY <1>1, <1>2, <1>5, <4>1
      <4> QED BY <1>1, <4>1, <4>2, OwedKept
    <3> QED BY <3>1, <3>2
  <2> QED BY <2>1, <2>2, <2>3 DEF SettledInv
<1>7. \A e \in Callers \ {c} : Cleaning(e, i) => Cleaning(e, i)'
  BY <1>1 DEF Cleaning
<1>8. CASE TaskGet(c)
  <2>1. UNCHANGED <<store, registry, up, known, pc>> /\ t.at = "get"
    BY <1>8 DEF TaskGet, t
  <2>2. task'[c] = Idle \/ (task'[c].at = "mark" /\ task'[c].id = i /\ task'[c].rec = store[i])
    <3>1. task' = [task EXCEPT ![c] = Idle]
          \/ task' = [task EXCEPT ![c].rec = store[i], ![c].at = "mark"]
      BY <1>2, <1>8 DEF TaskGet, t
    <3>2. task' = [task EXCEPT ![c].rec = store[i], ![c].at = "mark"]
          => task'[c].at = "mark" /\ task'[c].id = i /\ task'[c].rec = store[i]
      BY <1>1, <1>2 DEF TypeOK, t, Task
    <3>3. task' = [task EXCEPT ![c] = Idle] => task'[c] = Idle
      BY DEF TypeOK
    <3> QED BY <3>1, <3>2, <3>3
  <2>3. task'[c] = Idle \/ OwedAt(task[c])'
    BY <1>1, <1>3, <2>1, <2>2 DEF OwedAt, SettledAt
  <2>4. \A e \in Callers : Cleaning(e, i) => Cleaning(e, i)'
    BY <1>7, <2>1 DEF Cleaning, t
  <2>5. SettledAt(i)'
    BY <1>1, <2>1, <2>4, SettledAtKept
  <2> QED BY <1>6, <2>3, <2>5
<1>9. CASE TaskMark(c)
  <2>1. /\ UNCHANGED <<registry, up, known, pc>> /\ t.at = "mark"
        /\ \/ task'[c] = Idle /\ store'[i] = store[i]
           \/ /\ task'[c].at = "clean" /\ task'[c].id = i /\ task'[c] # Idle
              /\ task'[c].left = t.rec.refs /\ task'[c].rec.refs = t.rec.refs
              /\ store'[i].status \in TakenDown /\ store'[i].refs = t.rec.refs
    <3> DEFINE rec == [t.rec EXCEPT !.status = MarkStatus(t.kind)]
    <3>1. rec.status \in TakenDown /\ rec.refs = t.rec.refs
      BY <1>1 DEF Record, MarkStatus, TakenDown, Gone
    <3> HIDE DEF rec
    <3>2. \/ task' = [task EXCEPT ![c] = Idle] /\ UNCHANGED store
          \/ /\ task' = [task EXCEPT ![c].rec = rec, ![c].at = "clean", ![c].left = rec.refs]
             /\ store' = [store EXCEPT ![i] = rec]
      BY <1>2, <1>9 DEF TaskMark, t, Reclaims, rec
    <3>3. CASE task' = [task EXCEPT ![c] = Idle] /\ UNCHANGED store
      BY <1>9, <3>3 DEF TaskMark, TypeOK, t
    <3>4. CASE /\ task' = [task EXCEPT ![c].rec = rec, ![c].at = "clean", ![c].left = rec.refs]
               /\ store' = [store EXCEPT ![i] = rec]
      <4>1. task'[c].at = "clean" /\ task'[c].id = i /\ task'[c].left = rec.refs /\ task'[c].rec = rec
        BY <1>1, <1>2, <3>4 DEF TypeOK, t, Task
      <4>2. store'[i] = rec
        BY <3>4 DEF TypeOK
      <4>3. task'[c] # Idle
        <5>1. task'[c].kind = t.kind /\ t.kind # "none"
          BY <1>1, <3>4 DEF TypeOK, t, Task
        <5> QED BY <5>1 DEF Idle
      <4> QED BY <1>9, <3>1, <4>1, <4>2, <4>3 DEF TaskMark, t
    <3> QED BY <3>2, <3>3, <3>4
  <2>2. t.rec.refs = loc[i].refs
    BY <1>1, <1>2, <2>1 DEF OwedAt
  <2>3. task'[c] = Idle \/ OwedAt(task[c])'
    BY <1>1, <2>1, <2>2 DEF OwedAt, Left
  <2>4. SettledAt(i)'
    <3>1. CASE task'[c] = Idle /\ store'[i] = store[i]
      <4>1. \A e \in Callers : Cleaning(e, i) => Cleaning(e, i)'
        BY <1>7, <2>1 DEF Cleaning, t
      <4> QED BY <1>1, <2>1, <3>1, <4>1, SettledAtKept
    <3>2. CASE Cleaning(c, i)' /\ store'[i].status \in TakenDown /\ store'[i].refs = t.rec.refs
      BY <1>1, <1>3, <2>1, <2>2, <3>2 DEF SettledAt, LifeAt, TakenDown, Gone
    <3> QED BY <2>1, <3>1, <3>2 DEF Cleaning
  <2> QED BY <1>6, <2>3, <2>4
<1>10. CASE TaskClean(c)
  <2>1. PICK r \in Resources :
          /\ r \in t.left /\ UNCHANGED <<store, registry, pc>> /\ t.at = "clean"
          /\ task' = [task EXCEPT ![c].left = @ \ {r}]
          /\ up' = IF r = "container" /\ i \notin known THEN up ELSE [up EXCEPT ![i] = @ \ {r}]
          /\ known' = IF r = "container" THEN known \ {i} ELSE known
    <3>1. \A k \in 1 .. 3 : CleanOrder[k] \in Resources
      BY DEF CleanOrder, Resources
    <3> QED BY <1>1, <1>2, <1>10, <3>1 DEF TaskClean, t
  <2>2. up'[i] = up[i] \ {r}
    BY <1>3, <2>1 DEF TypeOK, SettledAt
  <2>3. /\ task'[c].kind = t.kind /\ task'[c].id = i /\ task'[c].at = "clean"
        /\ task'[c].rec = t.rec /\ task'[c].left = t.left \ {r}
    BY <1>1, <1>2, <2>1 DEF TypeOK, t, Task
  <2>4. OwedAt(task[c])'
    BY <1>1, <1>2, <2>1, <2>2, <2>3 DEF OwedAt, Left
  <2>5. \A e \in Callers : Cleaning(e, i) => Cleaning(e, i)'
    <3>1. task'[c] # Idle
      BY <1>1, <2>3 DEF Task, Idle
    <3> QED BY <1>7, <2>3, <3>1 DEF Cleaning
  <2>6. SettledAt(i)'
    BY <1>1, <1>3, <2>1, <2>2, <2>5 DEF SettledAt, Left
  <2> QED BY <1>6, <2>4, <2>6
<1>11. CASE TaskFinal(c)
  <2>1. /\ UNCHANGED <<registry, up, known, pc>>
        /\ t.at = "clean" /\ t.kind = "destroy" /\ t.left = {}
        /\ \/ task'[c] = Idle /\ store'[i] = store[i]
           \/ /\ task'[c].at = "slot" /\ task'[c].id = i /\ task'[c].rec.refs = t.rec.refs
              /\ store'[i].status = "DESTROYED" /\ store'[i].refs = t.rec.refs
    BY <1>1, <1>2, <1>11 DEF TaskFinal, TypeOK, t, Task, Destroyed, Record
  <2>2. t.rec.refs = loc[i].refs /\ Left(i) = {} /\ store[i].status \in TakenDown
    BY <1>1, <1>2, <2>1 DEF OwedAt
  <2>3. task'[c] = Idle \/ OwedAt(task[c])'
    BY <1>1, <2>1, <2>2 DEF OwedAt, TakenDown, Gone
  <2>4. SettledAt(i)'
    BY <1>1, <1>3, <2>1, <2>2 DEF SettledAt, LifeAt, Left, TakenDown, Gone
  <2> QED BY <1>6, <2>3, <2>4
<1>12. CASE TaskSlot(c)
  <2>1. /\ UNCHANGED <<store, up, known>> /\ task'[c] = Idle
        /\ IF t.kind = "destroy" THEN t.at = "slot" ELSE t.at = "clean" /\ t.left = {}
    BY <1>12 DEF TaskSlot, TypeOK, t
  <2>2. store[i].status # "READY"
    <3>1. CASE t.kind = "fail"
      BY <1>1, <1>2, <1>3, <3>1 DEF FailTasks, LifeAt, Provisioning, Live, t
    <3>2. CASE t.kind # "fail"
      BY <1>1, <1>2, <2>1, <3>2 DEF OwedAt, DutyAt, Task, Ended, TakenDown, Gone
    <3> QED BY <3>1, <3>2
  <2>3. Left(i) = {} \/ \A e \in Callers : Cleaning(e, i) => Cleaning(e, i)'
    BY <1>1, <1>2, <1>7, <2>1 DEF OwedAt, Cleaning, t
  <2>4. pc'[i] \in Unborn => pc[i] \in Unborn
    BY <1>4
  <2>5. pc'[i] \notin Working
    BY <1>3, <1>4
  <2>6. SettledAt(i)'
    BY <1>1, <1>3, <2>1, <2>2, <2>3, <2>4, <2>5 DEF SettledAt, Left
  <2> QED BY <1>6, <2>1, <2>6
<1> QED BY <1>8, <1>9, <1>10, <1>11, <1>12 DEF TaskStep

LEMMA SettledStep ==
  ASSUME LifetimeCovers, "crash" \notin FaultKinds,
         TypeOK, FailTasks, LifeInv, SettledInv, [Next]_vars
  PROVE  SettledInv'
<1> USE CallerTypes, IdleIsNoTask
<1>0. Persists
  BY StepPersists
<1>1. ASSUME NEW d \in Destroyers, NEW i \in Requests, BeginDestroy(d, i) PROVE SettledInv'
  <2>1. /\ UNCHANGED <<store, loc, known, up, registry, pc, sweep>>
        /\ task[d] = Idle /\ task'[d].kind = "destroy" /\ task'[d].at = "get"
        /\ \A c \in Callers \ {d} : task'[c] = task[c]
    BY <1>1 DEF TypeOK, BeginDestroy
  <2>2. OwedAt(task[d])'
    BY <2>1 DEF OwedAt
  <2> QED BY <1>0, <2>1, <2>2, SettledKept
<1>2. CASE Crash
  BY <1>2 DEF Crash, FaultOf
<1>3. ASSUME NEW i \in Requests, Age(i) PROVE SettledInv'
  BY <1>0, <1>3, SettledKept DEF Age
<1>4. CASE UNCHANGED vars
  BY <1>0, <1>4, SettledKept DEF vars
<1> QED BY <1>0, <1>1, <1>2, <1>3, <1>4, SettledGate, SettledProvision, SettledTask DEF Next

(* As long as lifetimes cover provisioning and the process does not die,   *)
(* what nobody works on agrees with its record: an unattended READY        *)
(* sandbox has its slot, a terminal one has nothing on the host that its   *)
(* create() had recorded, although saves fail and sweeps and destroys      *)
(* overlap.                                                                *)
THEOREM QuietSettled ==
  ASSUME LifetimeCovers, "crash" \notin FaultKinds
  PROVE  Spec => []QuietIsSettled
<1>1. Init => SettledInv
  <2> SUFFICES ASSUME Init PROVE SettledInv
    OBVIOUS
  <2>1. ASSUME NEW i \in Requests PROVE SettledAt(i) /\ ListAt(i)
    BY DEF Init, SettledAt, ListAt, NoRecord, NoSweep, Working, InFlight, Terminal, Gone
  <2> QED BY <2>1 DEF Init, SettledInv
<1>2. TypeOK /\ FailTasks /\ LifeInv /\ SettledInv /\ [Next]_vars => SettledInv'
  BY SettledStep
<1>3. SettledInv => QuietIsSettled
  BY DEF SettledInv, SettledAt, QuietIsSettled, ReadyHoldsSlot, TerminalIsReclaimed, Quiet,
         Cleaning, Left, Terminal
<1>4. Spec => [](TypeOK /\ FailTasks /\ LifeInv)
  BY LifeAlways
<1> QED BY <1>1, <1>2, <1>3, <1>4, PTL DEF Spec

-----------------------------------------------------------------------------
HIDE ConstantsAssumption

(* Natural numbers are well ordered.                                       *)
Descends == {p \in Nat \X Nat : p[1] < p[2]}
LEMMA DescentEnds == IsWellFoundedOn(Descends, Nat)
<1>1. Descends = OpToRel(<, Nat)
  BY DEF Descends, OpToRel
<1> QED BY <1>1, NatLessThanWellFounded DEF OpToRel, Descends

LEMMA LeastOf ==
  ASSUME NEW T, T \subseteq Nat, T # {}
  PROVE \E m \in T : \A k \in T : m <= k
<1>1. PICK m \in T : \A k \in T : ~(<<k, m>> \in Descends)
  BY DescentEnds, WFMin
<1>2. ASSUME NEW k \in T, ~(m <= k) PROVE FALSE
  <2>1. k \in Nat /\ m \in Nat /\ k < m
    BY <1>2
  <2>2. <<k, m>> \in Nat \X Nat
    BY <2>1
  <2>3. <<k, m>>[1] < <<k, m>>[2]
    BY <2>1
  <2> QED BY <1>1, <1>2, <2>2, <2>3 DEF Descends
<1> QED BY <1>2

(* The files are numbered from one, so what is found is never NotFound.    *)
LEMMA NumberedIs ==
  ASSUME ImageAssumption
  PROVE  Len(RuntimeFiles) \in Nat /\ Numbered = 1..Len(RuntimeFiles) /\ Numbered \subseteq Nat /\ NotFound \notin Numbered
BY DEF ImageAssumption, Numbered, NotFound

LEMMA LeastIs ==
  ASSUME ImageAssumption, NEW S, S \subseteq Numbered
  PROVE  /\ S = {} => Least(S) = NotFound
         /\ S # {} => Least(S) \in S /\ Least(S) # NotFound
<1>1. CASE S = {}
  BY <1>1 DEF Least
<1>2. CASE S # {}
  <2>1. \E m \in S : \A k \in S : m =< k
    BY <1>2, NumberedIs, LeastOf
  <2>2. Min(S) \in S
    BY <2>1 DEF Min
  <2> QED BY <1>2, <2>2, NumberedIs DEF Least
<1> QED BY <1>1, <1>2

LEMMA FirstNameIs ==
  ASSUME ImageAssumption, NEW S, S \subseteq Numbered, NEW names, DOMAIN names \subseteq Nat
  PROVE  /\ FirstName(S, names) = NotFound \/ FirstName(S, names) \in S
         /\ FirstName(S, names) = NotFound <=> \A k \in S : NameOf(k) \notin ToSet(names)
<1> DEFINE hits == {i \in DOMAIN names : Called(S, names[i]) # {}}
<1>1. NotFound \notin S
  BY NumberedIs
<1>2. CASE hits = {}
  <2>1. \A k \in S : NameOf(k) \notin ToSet(names)
    BY <1>2 DEF Called, ToSet
  <2>2. FirstName(S, names) = NotFound
    BY <1>2 DEF FirstName
  <2> QED BY <2>1, <2>2
<1>3. CASE hits # {}
  <2> DEFINE first == Min(hits)
             found == Called(S, names[first])
  <2>1. first \in hits
    <3>1. hits \subseteq Nat
      OBVIOUS
    <3> HIDE DEF hits
    <3>2. \E m \in hits : \A k \in hits : m =< k
      BY <1>3, <3>1, LeastOf
    <3> QED BY <3>2 DEF Min
  <2>2. found # {} /\ found \subseteq S /\ \A k \in found : NameOf(k) = names[first]
    BY <2>1 DEF Called
  <2>3. names[first] \in ToSet(names)
    BY <2>1 DEF ToSet
  <2>4. FirstName(S, names) = Least(found)
    BY <1>3 DEF FirstName
  <2> HIDE DEF found, first, hits
  <2>5. Least(found) \in found
    BY <2>2, LeastIs
  <2> QED BY <1>1, <2>2, <2>3, <2>4, <2>5
<1> QED BY <1>2, <1>3

LEMMA ListsAre ==
  /\ DOMAIN EntryPoints \subseteq Nat /\ DOMAIN PythonManifests \subseteq Nat /\ DOMAIN StartScripts \subseteq Nat
  /\ "start" \in ToSet(StartScripts)
<1>1. DOMAIN StartScripts = 1..4 /\ StartScripts[1] = "start"
  BY DEF StartScripts
<1> QED BY <1>1 DEF EntryPoints, PythonManifests, ToSet

LEMMA PythonIs ==
  ASSUME ImageAssumption, NEW S, S \subseteq Numbered
  PROVE  /\ PythonTarget(S) = {} <=> \A k \in S : NameOf(k) \notin ToSet(EntryPoints) \cup ToSet(PythonManifests)
         /\ \A t \in PythonTarget(S) : \/ \E k \in S : RuntimeFiles[k] = t
                                       \/ \A k \in S : NameOf(k) \notin ToSet(EntryPoints)
<1> DEFINE top == {k \in S : DirOf(k) = TopLevel}
<1>1. top \subseteq S /\ top \subseteq Numbered
  OBVIOUS
<1> HIDE DEF top
<1>2. PythonEntry(S) = IF FirstName(top, EntryPoints) # NotFound THEN FirstName(top, EntryPoints) ELSE FirstName(S, EntryPoints)
  BY DEF PythonEntry, top
<1>3. FirstName(top, EntryPoints) = NotFound \/ FirstName(top, EntryPoints) \in top
  BY <1>1, ListsAre, FirstNameIs
<1>4. /\ FirstName(S, EntryPoints) = NotFound \/ FirstName(S, EntryPoints) \in S
      /\ FirstName(S, EntryPoints) = NotFound <=> \A k \in S : NameOf(k) \notin ToSet(EntryPoints)
  BY ListsAre, FirstNameIs
<1>5. FirstName(S, PythonManifests) = NotFound <=> \A k \in S : NameOf(k) \notin ToSet(PythonManifests)
  BY ListsAre, FirstNameIs
<1>6. FirstName(top, EntryPoints) = NotFound <=> \A k \in top : NameOf(k) \notin ToSet(EntryPoints)
  BY <1>1, ListsAre, FirstNameIs
<1>7. PythonEntry(S) = NotFound <=> \A k \in S : NameOf(k) \notin ToSet(EntryPoints)
  BY <1>1, <1>2, <1>4, <1>6
<1>8. PythonEntry(S) # NotFound => PythonEntry(S) \in S
  BY <1>1, <1>2, <1>3, <1>4
<1>9. CASE PythonEntry(S) # NotFound
  <2>1. PythonTarget(S) = {RuntimeFiles[PythonEntry(S)]}
    BY <1>9 DEF PythonTarget
  <2> QED BY <1>7, <1>8, <1>9, <2>1
<1>10. CASE PythonEntry(S) = NotFound
  <2>1. PythonTarget(S) = IF FirstName(S, PythonManifests) # NotFound
                          THEN {[dir |-> DirOf(FirstName(S, PythonManifests)), name |-> "app.py"]} ELSE {}
    BY <1>10 DEF PythonTarget
  <2>2. PythonTarget(S) = {} <=> FirstName(S, PythonManifests) = NotFound
    BY <2>1
  <2> QED BY <1>5, <1>7, <1>10, <2>2
<1> QED BY <1>9, <1>10

LEMMA DockerIs ==
  ASSUME ImageAssumption, NEW S, S \subseteq Numbered
  PROVE  FindDockerfile(S) = NotFound <=> {k \in S : NameOf(k) \in {"Dockerfile", "Dockerfile.dev"}} = {}
<1> DEFINE named == {k \in S : NameOf(k) \in {"Dockerfile", "Dockerfile.dev"}}
           top == {k \in named : DirOf(k) = TopLevel /\ NameOf(k) = "Dockerfile"}
<1>1. named \subseteq Numbered /\ top \subseteq Numbered /\ top \subseteq named
  OBVIOUS
<1>2. FindDockerfile(S) = IF top # {} THEN Least(top) ELSE Least(named)
  BY DEF FindDockerfile
<1> HIDE DEF top, named
<1>3. FindDockerfile(S) = NotFound <=> named = {}
  BY <1>1, <1>2, LeastIs
<1> QED BY <1>3 DEF named

LEMMA RankIs ==
  ASSUME ImageAssumption, NEW k \in Numbered
  PROVE  /\ PackageRank(k) \in Nat
         /\ DirOf(k) = TopLevel => PackageRank(k) <= Len(RuntimeFiles)
         /\ DirOf(k) # TopLevel => PackageRank(k) > Len(RuntimeFiles)
         /\ DirOf(k) \in {TopLevel} \cup BackendDirs => PackageRank(k) <= Len(RuntimeFiles) + Len(RuntimeFiles)
         /\ DirOf(k) \notin {TopLevel} \cup BackendDirs => PackageRank(k) > Len(RuntimeFiles) + Len(RuntimeFiles)
<1> DEFINE n == Len(RuntimeFiles)
<1>1. n \in Nat /\ k \in 1..n
  BY NumberedIs
<1> HIDE DEF n
<1>2. PackageRank(k) = IF DirOf(k) = TopLevel THEN k ELSE IF DirOf(k) \in BackendDirs THEN k + n ELSE k + n + n
  <2>1. PackageRank(k) = k + (IF DirOf(k) = TopLevel THEN 0 ELSE IF DirOf(k) \in BackendDirs THEN 1 ELSE 2) * n
    BY DEF PackageRank, n
  <2>2. CASE DirOf(k) = TopLevel
    BY <1>1, <2>1, <2>2
  <2>3. CASE DirOf(k) # TopLevel /\ DirOf(k) \in BackendDirs
    BY <1>1, <2>1, <2>3
  <2>4. CASE DirOf(k) # TopLevel /\ DirOf(k) \notin BackendDirs
    BY <1>1, <2>1, <2>4
  <2> QED BY <2>2, <2>3, <2>4
<1> QED BY <1>1, <1>2 DEF n

LEMMA NextIs ==
  ASSUME ImageAssumption, NEW S, S \subseteq Numbered, S # {}
  PROVE  NextPackage(S) \in S /\ \A j \in S : PackageRank(NextPackage(S)) <= PackageRank(j)
<1> DEFINE ranks == {PackageRank(k) : k \in S}
<1>1. ranks \subseteq Nat /\ ranks # {}
  BY RankIs
<1>2. PICK m \in ranks : \A r \in ranks : m <= r
  <2> HIDE DEF ranks
  <2> QED BY <1>1, LeastOf
<1>3. \E k \in S : \A j \in S : PackageRank(k) <= PackageRank(j)
  BY <1>2
<1> QED BY <1>3 DEF NextPackage

LEMMA SelectedIs ==
  ASSUME NEW text, Startable(text)
  PROVE  SelectedScript(text) \in Scripts(text) /\ SelectedScript(text) \in ToSet(StartScripts)
<1> DEFINE there == {i \in DOMAIN StartScripts : StartScripts[i] \in Scripts(text)}
<1>1. there # {} /\ there \subseteq Nat
  BY ListsAre DEF Startable, ToSet
<1>2. Min(there) \in there
  <2> HIDE DEF there
  <2>1. \E m \in there : \A k \in there : m =< k
    BY <1>1, LeastOf
  <2> QED BY <2>1 DEF Min
<1>3. SelectedScript(text) = StartScripts[Min(there)]
  BY DEF SelectedScript
<1> QED BY <1>2, <1>3 DEF ToSet

LEMMA MaxPortIs == MaxPort \in Nat /\ MaxPort > 8080
BY DEF MaxPort

-----------------------------------------------------------------------------
(* What a repository has, in the words of PlanIsFirst.                     *)
DockerFiles == {k \in inReach : NameOf(k) \in {"Dockerfile", "Dockerfile.dev"}}
PythonFiles == {k \in inReach : NameOf(k) \in ToSet(EntryPoints) \cup ToSet(PythonManifests)}
NodeFiles == {k \in Called(inReach, "package.json") : UsablePackage(clone.packages[k])}
FirstStrategy ==
  IF DockerFiles # {} THEN IF clone.docker.blank THEN "none" ELSE "DOCKERFILE"
  ELSE IF PythonFiles # {} THEN "PYTHON" ELSE IF NodeFiles # {} THEN "NODE" ELSE "none"
WhereItIs(node, k) ==
  /\ (\E j \in node : DirOf(j) = TopLevel) => DirOf(k) = TopLevel
  /\ (\E j \in node : DirOf(j) \in {TopLevel} \cup BackendDirs) => DirOf(k) \in {TopLevel} \cup BackendDirs

LEMMA FirstIs ==
  PlanIsFirst <=> (resolvePc \in {"resolved", "unsupported"} /\ resolveFaults = 0 =>
                     /\ runtimePlan.strategy = FirstStrategy
                     /\ runtimePlan.strategy = "NODE" => WhereItIs(NodeFiles, runtimePlan.at))
<1> DEFINE named(ns) == {k \in inReach : NameOf(k) \in ns}
           docker == named({"Dockerfile", "Dockerfile.dev"})
           python == named(ToSet(EntryPoints) \cup ToSet(PythonManifests))
           node == {k \in named({"package.json"}) : UsablePackage(clone.packages[k])}
           In(D) == {k \in node : DirOf(k) \in D}
<1>1. docker = DockerFiles /\ python = PythonFiles
  BY DEF DockerFiles, PythonFiles
<1>2. node = NodeFiles
  BY DEF NodeFiles, Called
<1>3. PlanIsFirst <=> (resolvePc \in {"resolved", "unsupported"} /\ resolveFaults = 0 =>
         /\ runtimePlan.strategy =
              CASE docker # {} -> IF clone.docker.blank THEN "none" ELSE "DOCKERFILE"
                [] docker = {} /\ python # {} -> "PYTHON"
                [] docker \cup python = {} /\ node # {} -> "NODE"
                [] OTHER -> "none"
         /\ runtimePlan.strategy = "NODE" =>
              /\ In({TopLevel}) # {} => DirOf(runtimePlan.at) = TopLevel
              /\ In({TopLevel} \cup BackendDirs) # {} => DirOf(runtimePlan.at) \in {TopLevel} \cup BackendDirs)
  BY DEF PlanIsFirst
<1> HIDE DEF docker, python, node
<1>4. (CASE docker # {} -> IF clone.docker.blank THEN "none" ELSE "DOCKERFILE"
         [] docker = {} /\ python # {} -> "PYTHON"
         [] docker \cup python = {} /\ node # {} -> "NODE"
         [] OTHER -> "none") = FirstStrategy
  BY <1>1, <1>2 DEF FirstStrategy
<1>5. /\ In({TopLevel}) # {} <=> \E j \in NodeFiles : DirOf(j) = TopLevel
      /\ In({TopLevel} \cup BackendDirs) # {} <=> \E j \in NodeFiles : DirOf(j) \in {TopLevel} \cup BackendDirs
  BY <1>2
<1> QED BY <1>3, <1>4, <1>5 DEF WhereItIs

PythonStarts(files, reach, entry) ==
  \/ \E k \in files : RuntimeFiles[k] = entry
  \/ \A k \in reach : NameOf(k) \notin ToSet(EntryPoints)
NodeStarts(text, override, plan) ==
  LET fixed == IF Startable(text) THEN text.scripts[SelectedScript(text)] ELSE [port |-> 0, known |-> TRUE]
  IN /\ plan.command[2] \notin Scripts(text) <=>
          \/ ~Startable(text)
          \/ plan.command[1] = "npm" /\ DirOf(plan.at) # TopLevel /\ "start" \notin Scripts(text)
     /\ fixed.port \notin {0, plan.port} => override # 0 \/ ~fixed.known \/ fixed.port < 1000
PythonFits == runtimePlan.strategy = "PYTHON" => PythonStarts(clone.files, inReach, runtimePlan.entry)
NodeFits ==
  runtimePlan.strategy = "NODE" => NodeStarts(clone.packages[runtimePlan.at], clone.override, runtimePlan)

(* What the invariant says of a state that is about to be resolved.        *)
CloneIs ==
  /\ clone.files \subseteq Numbered /\ clone.override \in PortOverrides
  /\ \A k \in Called(clone.files, "package.json") : clone.packages[k] \in PackageTexts
ReachIs ==
  /\ resolvePc \in {"list", "docker"} => packagesLeft = {}
  /\ resolvePc # "resolved" => runtimePlan = Unresolved
  /\ resolvePc = "packages" =>
       /\ PythonTarget(inReach) = {}
       /\ FindDockerfile(inReach) # NotFound => ~clone.docker.blank
       /\ resolveFaults = 0 => NodeFiles \subseteq packagesLeft
ImageInv == CloneIs /\ ResolveTypeOK /\ ReachIs /\ ImageIsRight

LEMMA UnresolvedIs == Unresolved.strategy = "none" /\ Unresolved.port = 0
BY DEF Unresolved

LEMMA OverrideIs ==
  ASSUME ImageAssumption, CloneIs, NEW port \in 0..MaxPort
  PROVE  OverrideOr(port) \in 0..MaxPort
BY DEF OverrideOr, CloneIs, ImageAssumption

LEMMA DockerPlanIs ==
  ASSUME ImageAssumption, CloneIs, NEW f, NEW command
  PROVE  DockerPlan(f, command).strategy = "DOCKERFILE" /\ DockerPlan(f, command).port \in 0..MaxPort
<1> DEFINE exposed == ParseExposePort(clone.docker)
           port == IF exposed = NotFound THEN Ports["DOCKERFILE"] ELSE exposed
<1>1. DockerPlan(f, command).strategy = "DOCKERFILE" /\ DockerPlan(f, command).port = OverrideOr(port)
  BY DEF DockerPlan, Unresolved
<1>2. Ports["DOCKERFILE"] = 8080
  BY DEF Ports
<1>3. exposed = NotFound \/ exposed \in 10..MaxPort
  BY DEF ParseExposePort
<1> HIDE DEF exposed
<1>4. port \in 0..MaxPort
  BY <1>2, <1>3, MaxPortIs
<1> HIDE DEF port
<1>5. OverrideOr(port) \in 0..MaxPort
  BY <1>4, OverrideIs
<1> QED BY <1>1, <1>5

LEMMA PythonPlanIs ==
  ASSUME ImageAssumption, CloneIs, NEW t
  PROVE  /\ PythonPlan(t).strategy = "PYTHON" /\ PythonPlan(t).entry = t
         /\ PythonPlan(t).port \in 0..MaxPort
<1>1. /\ PythonPlan(t).strategy = "PYTHON" /\ PythonPlan(t).entry = t
      /\ PythonPlan(t).port = OverrideOr(Ports["PYTHON"])
  BY DEF PythonPlan, Unresolved
<1>2. Ports["PYTHON"] = 8000
  BY DEF Ports
<1>3. OverrideOr(Ports["PYTHON"]) \in 0..MaxPort
  BY <1>2, MaxPortIs, OverrideIs
<1> QED BY <1>1, <1>3

LEMMA NodePlanIs ==
  ASSUME ImageAssumption, ScriptsAssumption, CloneIs, NEW k \in Called(clone.files, "package.json"),
         NEW plan, plan = NodePlan(k, clone.packages[k])
  PROVE  /\ plan.strategy = "NODE" /\ plan.at = k /\ plan.port \in 0..MaxPort
         /\ NodeStarts(clone.packages[k], clone.override, plan)
<1> DEFINE text == clone.packages[k]
           script == IF Startable(text) THEN SelectedScript(text) ELSE "start"
           manager == DetectPackageManager(text)
           fixed == IF Startable(text) THEN text.scripts[SelectedScript(text)] ELSE [port |-> 0, known |-> TRUE]
<1>1. /\ plan.strategy = "NODE" /\ plan.at = k
      /\ plan.port = OverrideOr(DetectedPort(text)) /\ plan.command = NodeCommand(k, text)
  BY DEF NodePlan, Unresolved
<1>2. text \in PackageTexts
  BY DEF CloneIs
<1>3. /\ plan.command[1] = manager
      /\ plan.command[2] = IF DirOf(k) # TopLevel /\ manager = "npm" THEN "start" ELSE script
  BY <1>1 DEF NodeCommand
<1>4. Startable(text) => SelectedScript(text) \in Scripts(text)
  BY SelectedIs
<1>5. ~Startable(text) => "start" \notin Scripts(text)
  BY ListsAre DEF Startable
<1>6. Ports["NODE"] = 3000
  BY DEF Ports
<1>7. Startable(text) => fixed.port \in 0..MaxPort
  BY <1>2, <1>4 DEF ScriptsAssumption, Scripts
<1>8. DetectedPort(text) = IF Startable(text) /\ fixed.known /\ fixed.port \in 1000..MaxPort THEN fixed.port ELSE Ports["NODE"]
  BY DEF DetectedPort
<1>9. ~Startable(text) => fixed.port = 0
  OBVIOUS
<1>10. /\ plan.command[2] \notin Scripts(text) <=>
            \/ ~Startable(text)
            \/ plan.command[1] = "npm" /\ DirOf(k) # TopLevel /\ "start" \notin Scripts(text)
  <2> HIDE DEF text, manager
  <2> QED BY <1>3, <1>4, <1>5
<1>11. plan.port \in 0..MaxPort
  <2> HIDE DEF text, fixed
  <2>1. DetectedPort(text) \in 0..MaxPort
    BY <1>6, <1>7, <1>8, MaxPortIs
  <2>2. OverrideOr(DetectedPort(text)) \in 0..MaxPort
    BY <2>1, OverrideIs
  <2> QED BY <1>1, <2>2
<1>12. fixed.port \notin {0, plan.port} => clone.override # 0 \/ ~fixed.known \/ fixed.port < 1000
  <2> HIDE DEF text, fixed
  <2> SUFFICES ASSUME fixed.port # 0, fixed.port # plan.port, clone.override = 0, fixed.known, ~(fixed.port < 1000)
               PROVE FALSE
    OBVIOUS
  <2>1. Startable(text) /\ fixed.port \in 1000..MaxPort
    BY <1>7, <1>9, MaxPortIs
  <2>2. DetectedPort(text) = fixed.port
    BY <1>8, <2>1
  <2>3. plan.port = fixed.port
    BY <1>1, <2>2 DEF OverrideOr
  <2> QED BY <2>3
<1> QED BY <1>1, <1>10, <1>11, <1>12 DEF NodeStarts

LEMMA StartsIs == PlanStarts <=> PythonFits /\ NodeFits
<1>1. PythonFits <=> (runtimePlan.strategy = "PYTHON" =>
                        \/ \E k \in clone.files : RuntimeFiles[k] = runtimePlan.entry
                        \/ \A k \in inReach : NameOf(k) \notin ToSet(EntryPoints))
  BY DEF PythonFits, PythonStarts
<1> QED BY <1>1 DEF PlanStarts, NodeFits, NodeStarts

LEMMA StartsNext == (PlanStarts <=> PythonFits /\ NodeFits)'
BY StartsIs, PTL

LEMMA FirstNext ==
  (PlanIsFirst <=> (resolvePc \in {"resolved", "unsupported"} /\ resolveFaults = 0 =>
                     /\ runtimePlan.strategy = FirstStrategy
                     /\ runtimePlan.strategy = "NODE" => WhereItIs(NodeFiles, runtimePlan.at)))'
BY FirstIs, PTL

(* The package that is read first is where the others are not better.      *)
LEMMA WhereItLies ==
  ASSUME ImageAssumption, NEW S, S \subseteq Numbered, NodeFiles \subseteq S, S # {}
  PROVE  WhereItIs(NodeFiles, NextPackage(S))
<1> DEFINE k == NextPackage(S)
           n == Len(RuntimeFiles)
<1>1. k \in S /\ \A j \in S : PackageRank(k) <= PackageRank(j)
  BY NextIs
<1> HIDE DEF k
<1>2. n \in Nat /\ PackageRank(k) \in Nat
  BY <1>1, NumberedIs, RankIs
<1>3. ASSUME NEW j \in NodeFiles, DirOf(j) = TopLevel
      PROVE  DirOf(k) = TopLevel
  <2>1. PackageRank(j) \in Nat /\ PackageRank(j) <= n
    BY <1>3, RankIs
  <2>2. PackageRank(k) <= n
    BY <1>1, <1>2, <2>1
  <2> QED BY <1>1, <1>2, <2>2, RankIs
<1>4. ASSUME NEW j \in NodeFiles, DirOf(j) \in {TopLevel} \cup BackendDirs
      PROVE  DirOf(k) \in {TopLevel} \cup BackendDirs
  <2>1. PackageRank(j) \in Nat /\ PackageRank(j) <= n + n
    BY <1>4, RankIs
  <2>2. PackageRank(k) <= n + n
    BY <1>1, <1>2, <2>1
  <2> QED BY <1>1, <1>2, <2>2, RankIs
<1>5. WhereItIs(NodeFiles, k)
  BY <1>3, <1>4 DEF WhereItIs
<1> QED BY <1>5 DEF k

-----------------------------------------------------------------------------
LEMMA ImageInit == ImageAssumption /\ ResolveInit => ImageInv
<1> SUFFICES ASSUME ImageAssumption, ResolveInit PROVE ImageInv
  OBVIOUS
<1>1. CloneIs
  <2> DEFINE any == UNION {kSubset(n, Numbered) : n \in 0..MaxRuntimeFiles}
  <2>1. PICK files \in any, d \in DockerTexts, port \in PortOverrides :
          \E texts \in [Called(files, "package.json") -> PackageTexts] :
            clone = [files |-> files, docker |-> d, packages |-> texts, override |-> port]
    BY DEF ResolveInit
  <2>2. PICK texts \in [Called(files, "package.json") -> PackageTexts] :
          clone = [files |-> files, docker |-> d, packages |-> texts, override |-> port]
    BY <2>1
  <2>3. clone.files = files /\ clone.override = port /\ clone.packages = texts
    BY <2>2
  <2>4. files \subseteq Numbered
    BY DEF kSubset
  <2>5. \A k \in Called(files, "package.json") : texts[k] \in PackageTexts
    OBVIOUS
  <2> QED BY <2>3, <2>4, <2>5 DEF CloneIs
<1>2. ResolveTypeOK
  <2>1. runtimePlan.port \in 0..MaxPort
    BY UnresolvedIs, MaxPortIs DEF ResolveInit
  <2> QED BY <2>1 DEF ResolveInit, ResolveTypeOK, ImageAssumption
<1>3. ReachIs
  BY DEF ResolveInit, ReachIs
<1>4. PlanStarts
  BY StartsIs, UnresolvedIs DEF ResolveInit, PythonFits, NodeFits
<1>5. PlanIsFirst
  BY FirstIs DEF ResolveInit
<1> QED BY <1>1, <1>2, <1>3, <1>4, <1>5 DEF ImageInv, ImageIsRight

(* The clone does not change, and before a plan is made there is nothing   *)
(* to be right about.                                                      *)
LEMMA CloneStays ==
  ASSUME CloneIs, clone' = clone
  PROVE  CloneIs'
BY DEF CloneIs

LEMMA NotYet ==
  ASSUME runtimePlan' = Unresolved, resolvePc' \notin {"resolved", "unsupported"}
  PROVE  ImageIsRight'
<1>1. PlanStarts'
  BY StartsNext, UnresolvedIs DEF PythonFits, NodeFits
<1>2. PlanIsFirst'
  BY FirstNext
<1> QED BY <1>1, <1>2 DEF ImageIsRight

LEMMA FirstStays ==
  ASSUME clone' = clone, inReach' = inReach
  PROVE  FirstStrategy' = FirstStrategy /\ NodeFiles' = NodeFiles
BY DEF FirstStrategy, NodeFiles, DockerFiles, PythonFiles

LEMMA Unsupported ==
  ASSUME runtimePlan' = Unresolved, clone' = clone, inReach' = inReach,
         resolveFaults' = 0 => FirstStrategy = "none"
  PROVE  ImageIsRight'
<1>1. PlanStarts'
  BY StartsNext, UnresolvedIs DEF PythonFits, NodeFits
<1>2. PlanIsFirst'
  BY FirstNext, FirstStays, UnresolvedIs
<1> QED BY <1>1, <1>2 DEF ImageIsRight

LEMMA DockerGoverns ==
  ASSUME NEW f, NEW command, ImageAssumption, CloneIs, runtimePlan' = DockerPlan(f, command),
         clone' = clone, inReach' = inReach, FirstStrategy = "DOCKERFILE"
  PROVE  ImageIsRight' /\ (runtimePlan.port \in 0..MaxPort)'
<1>1. runtimePlan'.strategy = "DOCKERFILE" /\ runtimePlan'.port \in 0..MaxPort
  BY DockerPlanIs
<1>2. PlanStarts'
  BY <1>1, StartsNext DEF PythonFits, NodeFits
<1>3. PlanIsFirst'
  BY <1>1, FirstNext, FirstStays
<1>4. (runtimePlan.port \in 0..MaxPort)'
  BY <1>1
<1> QED BY <1>1, <1>2, <1>3, <1>4 DEF ImageIsRight

LEMMA PythonStartsIt ==
  ASSUME NEW t, ImageAssumption, CloneIs, inReach \subseteq clone.files, t \in PythonTarget(inReach),
         runtimePlan' = PythonPlan(t), clone' = clone, inReach' = inReach,
         resolveFaults' = 0 => FirstStrategy = "PYTHON"
  PROVE  ImageIsRight' /\ (runtimePlan.port \in 0..MaxPort)'
<1>1. /\ runtimePlan'.strategy = "PYTHON" /\ runtimePlan'.entry = t
      /\ runtimePlan'.port \in 0..MaxPort
  BY PythonPlanIs
<1>2. inReach \subseteq Numbered
  BY DEF CloneIs
<1>3. PythonStarts(clone.files, inReach, t)
  BY <1>2, PythonIs DEF PythonStarts
<1>4. PlanStarts'
  BY <1>1, <1>3, StartsNext DEF PythonFits, NodeFits
<1>5. PlanIsFirst'
  BY <1>1, FirstNext, FirstStays
<1>6. (runtimePlan.port \in 0..MaxPort)'
  BY <1>1
<1> QED BY <1>4, <1>5, <1>6 DEF ImageIsRight

LEMMA NodeStartsIt ==
  ASSUME NEW k \in Called(clone.files, "package.json"), ImageAssumption, ScriptsAssumption, CloneIs,
         runtimePlan' = NodePlan(k, clone.packages[k]), clone' = clone, inReach' = inReach,
         resolveFaults' = 0 => FirstStrategy = "NODE" /\ WhereItIs(NodeFiles, k)
  PROVE  ImageIsRight' /\ (runtimePlan.port \in 0..MaxPort)'
<1>1. /\ runtimePlan'.strategy = "NODE" /\ runtimePlan'.at = k /\ runtimePlan'.port \in 0..MaxPort
      /\ NodeStarts(clone.packages[k], clone.override, runtimePlan')
  <2>1. NodePlan(k, clone.packages[k]).at = k
    BY DEF NodePlan, Unresolved
  <2>2. PICK plan : plan = NodePlan(k, clone.packages[k])
    OBVIOUS
  <2>3. /\ plan.strategy = "NODE" /\ plan.at = k /\ plan.port \in 0..MaxPort
        /\ NodeStarts(clone.packages[k], clone.override, plan)
    BY <2>2, NodePlanIs
  <2> QED BY <2>2, <2>3
<1>2. PlanStarts'
  BY <1>1, StartsNext DEF PythonFits, NodeFits
<1>3. PlanIsFirst'
  BY <1>1, FirstNext, FirstStays
<1>4. (runtimePlan.port \in 0..MaxPort)'
  BY <1>1
<1> QED BY <1>2, <1>3, <1>4 DEF ImageIsRight

LEMMA ReachHas ==
  ASSUME ImageAssumption, CloneIs, inReach \subseteq clone.files
  PROVE  /\ inReach \subseteq Numbered
         /\ FindDockerfile(inReach) = NotFound <=> DockerFiles = {}
         /\ PythonTarget(inReach) = {} <=> PythonFiles = {}
         /\ NodeFiles \subseteq Called(inReach, "package.json")
<1>1. inReach \subseteq Numbered
  BY DEF CloneIs
<1>2. FindDockerfile(inReach) = NotFound <=> DockerFiles = {}
  BY <1>1, DockerIs DEF DockerFiles
<1>3. PythonTarget(inReach) = {} <=> PythonFiles = {}
  BY <1>1, PythonIs DEF PythonFiles
<1> QED BY <1>1, <1>2, <1>3 DEF NodeFiles

LEMMA UnreadableIs ==
  ASSUME ImageAssumption, resolveFaults \in 0..MaxResolveFaults, Unreadable
  PROVE  resolveFaults' \in 0..MaxResolveFaults /\ resolveFaults' # 0
BY DEF Unreadable, ImageAssumption

-----------------------------------------------------------------------------
LEMMA ListStep ==
  ASSUME ImageAssumption, ImageInv, ListFiles
  PROVE  ImageInv'
<1>1. /\ resolvePc = "list" /\ resolvePc' = "docker" /\ clone' = clone
      /\ packagesLeft' = {} /\ packagesLeft = {} /\ runtimePlan' = Unresolved
  BY DEF ListFiles, ImageInv, ReachIs
<1>2. inReach' \subseteq clone.files
  BY DEF ListFiles, Walked
<1>3. resolveFaults' \in 0..MaxResolveFaults
  BY UnreadableIs DEF ListFiles, ImageInv, ResolveTypeOK
<1>4. runtimePlan'.port \in 0..MaxPort
  BY <1>1, UnresolvedIs, MaxPortIs
<1>5. ResolveTypeOK'
  BY <1>1, <1>2, <1>3, <1>4 DEF ResolveTypeOK
<1>6. ReachIs'
  BY <1>1 DEF ReachIs
<1>7. CloneIs' /\ ImageIsRight'
  BY <1>1, CloneStays, NotYet DEF ImageInv
<1> QED BY <1>5, <1>6, <1>7 DEF ImageInv

(* To go on to the packages.                                               *)
LEMMA ToPackages ==
  ASSUME ImageAssumption, ImageInv, resolvePc \in {"docker", "packages"}, resolvePc' = "packages",
         clone' = clone, inReach' = inReach, runtimePlan' = runtimePlan,
         resolveFaults' \in 0..MaxResolveFaults, PythonTarget(inReach) = {},
         FindDockerfile(inReach) # NotFound => ~clone.docker.blank,
         packagesLeft' \subseteq Called(inReach, "package.json"),
         resolveFaults' = 0 => NodeFiles \subseteq packagesLeft'
  PROVE  ImageInv'
<1>1. runtimePlan' = Unresolved
  BY DEF ImageInv, ReachIs
<1>2. ResolveTypeOK'
  BY DEF ImageInv, ResolveTypeOK
<1>3. NodeFiles' = NodeFiles
  BY FirstStays
<1>4. PythonTarget(inReach)' = {} /\ (FindDockerfile(inReach)' # NotFound => ~clone'.docker.blank)
  BY DEF PythonTarget, PythonEntry, FindDockerfile
<1>5. ReachIs'
  BY <1>1, <1>3, <1>4 DEF ReachIs
<1>6. CloneIs' /\ ImageIsRight'
  BY <1>1, CloneStays, NotYet DEF ImageInv
<1> QED BY <1>2, <1>5, <1>6 DEF ImageInv

(* And to be done.                                                         *)
LEMMA Done ==
  ASSUME ImageAssumption, ImageInv, clone' = clone, inReach' = inReach, packagesLeft' = packagesLeft,
         \/ resolvePc' = "resolved"
         \/ resolvePc' = "unsupported" /\ runtimePlan' = Unresolved,
         resolveFaults' \in 0..MaxResolveFaults, runtimePlan'.port \in 0..MaxPort, ImageIsRight'
  PROVE  ImageInv'
<1>1. ResolveTypeOK'
  BY DEF ImageInv, ResolveTypeOK
<1>2. ReachIs'
  BY DEF ReachIs
<1>3. CloneIs'
  BY CloneStays DEF ImageInv
<1> QED BY <1>1, <1>2, <1>3 DEF ImageInv

LEMMA DockerStep ==
  ASSUME ImageAssumption, ImageInv, ReadDockerfile
  PROVE  ImageInv'
<1> DEFINE f == FindDockerfile(inReach)
<1>1. /\ resolvePc = "docker" /\ f # NotFound /\ clone' = clone /\ inReach' = inReach
  BY DEF ReadDockerfile
<1>2. CloneIs /\ inReach \subseteq clone.files /\ runtimePlan = Unresolved /\ resolveFaults \in 0..MaxResolveFaults
  BY <1>1 DEF ImageInv, ResolveTypeOK, ReachIs
<1>3. DockerFiles # {} /\ NodeFiles \subseteq Called(inReach, "package.json")
  BY <1>1, <1>2, ReachHas
<1>4. Unresolved.port \in 0..MaxPort
  BY UnresolvedIs, MaxPortIs
<1>5. CASE Unreadable /\ resolvePc' = "unsupported" /\ UNCHANGED <<runtimePlan, packagesLeft>>
  <2>1. resolveFaults' \in 0..MaxResolveFaults /\ resolveFaults' # 0
    BY <1>2, <1>5, UnreadableIs
  <2>2. ImageIsRight'
    BY <1>1, <1>2, <1>5, <2>1, Unsupported
  <2> QED BY <1>1, <1>2, <1>4, <1>5, <2>1, <2>2, Done
<1>6. CASE UNCHANGED resolveFaults /\ clone.docker.blank /\ resolvePc' = "unsupported" /\ UNCHANGED <<runtimePlan, packagesLeft>>
  <2>1. FirstStrategy = "none"
    BY <1>3, <1>6 DEF FirstStrategy
  <2>2. ImageIsRight'
    BY <1>1, <1>2, <1>6, <2>1, Unsupported
  <2> QED BY <1>1, <1>2, <1>4, <1>6, <2>2, Done
<1>7. ASSUME NEW command, UNCHANGED resolveFaults, ~clone.docker.blank, Settle(DockerPlan(f, command)), UNCHANGED packagesLeft
      PROVE  ImageInv'
  <2>1. FirstStrategy = "DOCKERFILE"
    BY <1>3, <1>7 DEF FirstStrategy
  <2>2. ImageIsRight' /\ runtimePlan'.port \in 0..MaxPort
    BY <1>1, <1>2, <1>7, <2>1, DockerGoverns DEF Settle
  <2> QED BY <1>1, <1>2, <1>7, <2>2, Done DEF Settle
<1>8. CASE /\ UNCHANGED resolveFaults /\ ~clone.docker.blank /\ PythonTarget(inReach) = {}
           /\ resolvePc' = "packages" /\ packagesLeft' = Called(inReach, "package.json") /\ UNCHANGED runtimePlan
  BY <1>1, <1>2, <1>3, <1>8, ToPackages
<1>9. \/ Unreadable /\ resolvePc' = "unsupported" /\ UNCHANGED <<runtimePlan, packagesLeft>>
      \/ UNCHANGED resolveFaults /\ clone.docker.blank /\ resolvePc' = "unsupported" /\ UNCHANGED <<runtimePlan, packagesLeft>>
      \/ \E command : UNCHANGED resolveFaults /\ ~clone.docker.blank /\ Settle(DockerPlan(f, command)) /\ UNCHANGED packagesLeft
      \/ /\ UNCHANGED resolveFaults /\ ~clone.docker.blank /\ PythonTarget(inReach) = {}
         /\ resolvePc' = "packages" /\ packagesLeft' = Called(inReach, "package.json") /\ UNCHANGED runtimePlan
  BY DEF ReadDockerfile
<1> QED BY <1>5, <1>6, <1>7, <1>8, <1>9

LEMMA ChooseStep ==
  ASSUME ImageAssumption, ImageInv, ChooseStack
  PROVE  ImageInv'
<1>1. /\ resolvePc = "docker" /\ FindDockerfile(inReach) = NotFound
      /\ clone' = clone /\ inReach' = inReach /\ resolveFaults' = resolveFaults
  BY DEF ChooseStack
<1>2. CloneIs /\ inReach \subseteq clone.files /\ runtimePlan = Unresolved /\ resolveFaults \in 0..MaxResolveFaults
  BY <1>1 DEF ImageInv, ResolveTypeOK, ReachIs
<1>3. DockerFiles = {} /\ NodeFiles \subseteq Called(inReach, "package.json")
  BY <1>1, <1>2, ReachHas
<1>4. ASSUME NEW t \in PythonTarget(inReach), Settle(PythonPlan(t)), UNCHANGED packagesLeft
      PROVE  ImageInv'
  <2>1. PythonFiles # {}
    BY <1>2, <1>4, ReachHas
  <2>2. FirstStrategy = "PYTHON"
    BY <1>3, <2>1 DEF FirstStrategy
  <2>3. ImageIsRight' /\ runtimePlan'.port \in 0..MaxPort
    BY <1>1, <1>2, <1>4, <2>2, PythonStartsIt DEF Settle
  <2> QED BY <1>1, <1>2, <1>4, <2>3, Done DEF Settle
<1>5. CASE /\ PythonTarget(inReach) = {} /\ resolvePc' = "packages"
           /\ packagesLeft' = Called(inReach, "package.json") /\ UNCHANGED runtimePlan
  BY <1>1, <1>2, <1>3, <1>5, ToPackages
<1> QED BY <1>4, <1>5 DEF ChooseStack

LEMMA PackageStep ==
  ASSUME ImageAssumption, ScriptsAssumption, ImageInv, ReadPackage
  PROVE  ImageInv'
<1> DEFINE k == NextPackage(packagesLeft)
           text == clone.packages[k]
<1>1. /\ resolvePc = "packages" /\ packagesLeft # {} /\ clone' = clone /\ inReach' = inReach
      /\ \/ Unreadable /\ packagesLeft' = packagesLeft \ {k} /\ UNCHANGED <<resolvePc, runtimePlan>>
         \/ /\ ~UsablePackage(text) /\ packagesLeft' = packagesLeft \ {k}
            /\ UNCHANGED <<resolvePc, runtimePlan, resolveFaults>>
         \/ /\ UsablePackage(text) /\ UNCHANGED <<packagesLeft, resolveFaults>>
            /\ Settle(IF FindDockerfile(inReach) # NotFound
                      THEN DockerPlan(FindDockerfile(inReach), <<DetectPackageManager(text), "start">>)
                      ELSE NodePlan(k, text))
  BY DEF ReadPackage
<1>2. /\ CloneIs /\ inReach \subseteq clone.files /\ packagesLeft \subseteq Called(inReach, "package.json")
      /\ resolveFaults \in 0..MaxResolveFaults /\ PythonTarget(inReach) = {}
      /\ FindDockerfile(inReach) # NotFound => ~clone.docker.blank
      /\ resolveFaults = 0 => NodeFiles \subseteq packagesLeft
  BY <1>1 DEF ImageInv, ResolveTypeOK, ReachIs
<1>3. /\ FindDockerfile(inReach) = NotFound <=> DockerFiles = {}
      /\ PythonFiles = {} /\ inReach \subseteq Numbered
  BY <1>2, ReachHas
<1>4. packagesLeft \subseteq Numbered
  BY <1>2, <1>3 DEF Called
<1>5. k \in packagesLeft
  BY <1>1, <1>4, NextIs
<1>6. CASE Unreadable /\ packagesLeft' = packagesLeft \ {k} /\ UNCHANGED <<resolvePc, runtimePlan>>
  <2>1. resolveFaults' \in 0..MaxResolveFaults /\ resolveFaults' # 0
    BY <1>2, <1>6, UnreadableIs
  <2> QED BY <1>1, <1>2, <1>6, <2>1, ToPackages
<1>7. CASE /\ ~UsablePackage(text) /\ packagesLeft' = packagesLeft \ {k}
           /\ UNCHANGED <<resolvePc, runtimePlan, resolveFaults>>
  <2>1. k \notin NodeFiles
    BY <1>7 DEF NodeFiles
  <2> QED BY <1>1, <1>2, <1>7, <2>1, ToPackages
<1>8. CASE /\ UsablePackage(text) /\ UNCHANGED <<packagesLeft, resolveFaults>>
           /\ Settle(IF FindDockerfile(inReach) # NotFound
                     THEN DockerPlan(FindDockerfile(inReach), <<DetectPackageManager(text), "start">>)
                     ELSE NodePlan(k, text))
  <2>1. CASE FindDockerfile(inReach) # NotFound
    <3>1. FirstStrategy = "DOCKERFILE"
      BY <1>2, <1>3, <2>1 DEF FirstStrategy
    <3>2. runtimePlan' = DockerPlan(FindDockerfile(inReach), <<DetectPackageManager(text), "start">>)
      BY <1>8, <2>1 DEF Settle
    <3>3. ImageIsRight' /\ runtimePlan'.port \in 0..MaxPort
      BY <1>1, <1>2, <3>1, <3>2, DockerGoverns
    <3> QED BY <1>1, <1>2, <1>8, <3>3, Done DEF Settle
  <2>2. CASE FindDockerfile(inReach) = NotFound
    <3>1. k \in NodeFiles
      BY <1>2, <1>5, <1>8 DEF NodeFiles
    <3>2. FirstStrategy = "NODE"
      BY <1>3, <2>2, <3>1 DEF FirstStrategy
    <3>3. k \in Called(clone.files, "package.json")
      BY <1>2, <1>5 DEF Called
    <3>4. runtimePlan' = NodePlan(k, text)
      BY <1>8, <2>2 DEF Settle
    <3>5. resolveFaults' = 0 => WhereItIs(NodeFiles, k)
      BY <1>1, <1>2, <1>4, <1>8, WhereItLies
    <3>6. ImageIsRight' /\ runtimePlan'.port \in 0..MaxPort
      BY <1>1, <1>2, <3>2, <3>3, <3>4, <3>5, NodeStartsIt
    <3> QED BY <1>1, <1>2, <1>8, <3>6, Done DEF Settle
  <2> QED BY <2>1, <2>2
<1> QED BY <1>1, <1>6, <1>7, <1>8

LEMMA NoneStep ==
  ASSUME ImageAssumption, ImageInv, NoPackage
  PROVE  ImageInv'
<1>1. /\ resolvePc = "packages" /\ packagesLeft = {} /\ clone' = clone /\ inReach' = inReach
      /\ packagesLeft' = packagesLeft /\ resolveFaults' = resolveFaults
  BY DEF NoPackage
<1>2. /\ CloneIs /\ inReach \subseteq clone.files /\ runtimePlan = Unresolved
      /\ resolveFaults \in 0..MaxResolveFaults /\ PythonTarget(inReach) = {}
      /\ FindDockerfile(inReach) # NotFound => ~clone.docker.blank
      /\ resolveFaults = 0 => NodeFiles = {}
  BY <1>1 DEF ImageInv, ResolveTypeOK, ReachIs
<1>3. /\ FindDockerfile(inReach) = NotFound <=> DockerFiles = {}
      /\ PythonFiles = {}
  BY <1>2, ReachHas
<1>4. CASE FindDockerfile(inReach) # NotFound
  <2>1. FirstStrategy = "DOCKERFILE"
    BY <1>2, <1>3, <1>4 DEF FirstStrategy
  <2>2. resolvePc' = "resolved" /\ runtimePlan' = DockerPlan(FindDockerfile(inReach), <<>>)
    BY <1>4 DEF NoPackage, Settle
  <2>3. ImageIsRight' /\ runtimePlan'.port \in 0..MaxPort
    BY <1>1, <1>2, <2>1, <2>2, DockerGoverns
  <2> QED BY <1>1, <1>2, <2>2, <2>3, Done
<1>5. CASE FindDockerfile(inReach) = NotFound
  <2>1. resolveFaults' = 0 => FirstStrategy = "none"
    BY <1>1, <1>2, <1>3, <1>5 DEF FirstStrategy
  <2>2. resolvePc' = "unsupported" /\ runtimePlan' = runtimePlan
    BY <1>5 DEF NoPackage
  <2>3. ImageIsRight'
    BY <1>1, <1>2, <2>1, <2>2, Unsupported
  <2>4. runtimePlan'.port \in 0..MaxPort
    BY <1>2, <2>2, UnresolvedIs, MaxPortIs
  <2> QED BY <1>1, <1>2, <2>2, <2>3, <2>4, Done
<1> QED BY <1>4, <1>5

LEMMA ImageStays ==
  ASSUME ImageInv, UNCHANGED resolveVars
  PROVE  ImageInv'
<1>1. /\ resolvePc' = resolvePc /\ clone' = clone /\ inReach' = inReach /\ packagesLeft' = packagesLeft
      /\ runtimePlan' = runtimePlan /\ resolveFaults' = resolveFaults
  BY DEF resolveVars
<1>2. CloneIs' /\ ResolveTypeOK'
  BY <1>1 DEF ImageInv, CloneIs, ResolveTypeOK
<1>3. FirstStrategy' = FirstStrategy /\ NodeFiles' = NodeFiles
  BY <1>1, FirstStays
<1>4. ReachIs'
  BY <1>1, <1>3 DEF ImageInv, ReachIs, PythonTarget, PythonEntry, FindDockerfile
<1>5. PlanStarts'
  BY <1>1, StartsIs, StartsNext DEF ImageInv, ImageIsRight, PythonFits, NodeFits
<1>6. PlanIsFirst'
  BY <1>1, <1>3, FirstIs, FirstNext DEF ImageInv, ImageIsRight
<1> QED BY <1>2, <1>4, <1>5, <1>6 DEF ImageInv, ImageIsRight

LEMMA ImageStep == ImageAssumption /\ ScriptsAssumption /\ ImageInv /\ [ResolveNext]_resolveVars => ImageInv'
BY ListStep, DockerStep, ChooseStep, PackageStep, NoneStep, ImageStays DEF ResolveNext

(* Everything resolveRuntimeConfig() keeps.                                *)
LEMMA ImageAlways == ResolveSpec => []ImageInv
BY ImageInit, ImageStep, ImageAssumption, ScriptsAssumption, PTL DEF ResolveSpec

(* What resolveRuntimeConfig() keeps has its type: in particular every     *)
(* package left to read is one that was listed, and the port of a plan is  *)
(* a port, whatever EXPOSE, a script or the caller say.                    *)
THEOREM ImageTypes == ResolveSpec => []ResolveTypeOK
<1>1. ImageInv => ResolveTypeOK
  BY DEF ImageInv
<1> QED BY <1>1, ImageAlways, PTL

(* For every repository, whatever its scripts, manifests and lock files    *)
(* are and whichever reads fail: what a plan starts is there and listens   *)
(* where it is probed, and the plan is the first the repository allows.    *)
THEOREM ImageHolds == ResolveSpec => []ImageIsRight
<1>1. ImageInv => ImageIsRight
  BY DEF ImageInv
<1> QED BY <1>1, ImageAlways, PTL
=============================================================================
