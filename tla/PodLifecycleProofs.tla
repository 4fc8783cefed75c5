------------------------- MODULE PodLifecycleProofs -------------------------
(* Theorems about PodLifecycle, for any number of pods, containers,        *)
(* pollers and failures.                                                   *)
EXTENDS PodLifecycle, TLAPS

LEMMA LastContainer == NumInit + NumMain \in Containers /\ 1 \in Containers
  BY SpecAssumption DEF Containers

LEMMA CurrentUnit ==
    ASSUME TypeOK, NEW p \in Pods
    PROVE  Current(p) \in Unit
  BY DEF TypeOK, Current, Unit

LEMMA GotoType ==
    ASSUME PcTypeOK, NEW a \in Actors, NEW label \in Pcs, Goto(a, label),
           a \in Pods \/ label \in {"idle"} \cup GetPcs
    PROVE  PcTypeOK'
  BY ActorAssumption DEF PcTypeOK, Goto

LEMMA FaultType ==
    ASSUME faults \in 0..MaxFaults, NoFault \/ \E kind : Fault(kind)
    PROVE  faults' \in 0..MaxFaults
  BY FaultAssumption DEF NoFault, Fault

\* A step of a loop keeps the index within the pod's containers.
LEMMA NextIndex ==
    ASSUME idx \in [Pods -> Containers], NEW p \in Pods,
           idx[p] # NumInit + NumMain
    PROVE  idx[p] + 1 \in Containers
  <1>1. NumInit + NumMain \in Nat /\ idx[p] \in 1..(NumInit + NumMain)
    BY SpecAssumption DEF Containers
  <1> QED  BY <1>1 DEF Containers

LEMMA LoopType ==
    ASSUME PcTypeOK, idx \in [Pods -> Containers],
           NEW p \in Pods, NEW label \in Pcs, Loop(p, label)
    PROVE  PcTypeOK' /\ idx' \in [Pods -> Containers]
  <1>1. CASE idx[p] = NumInit + NumMain
    <2>1. Goto(p, label) /\ idx' = [idx EXCEPT ![p] = 1]
      BY <1>1 DEF Loop
    <2> QED  BY <2>1, LastContainer, GotoType DEF Actors
  <1>2. CASE idx[p] # NumInit + NumMain
    BY <1>2, NextIndex DEF Loop, PcTypeOK
  <1> QED  BY <1>1, <1>2

\* The operations of the unit manager keep its state well-typed.
LEMMA UMStepType ==
    ASSUME UMTypeOK, NEW u \in Unit
    PROVE  /\ WriteUnitBegin(u) => UMTypeOK'
           /\ WriteUnitEnd(u) => UMTypeOK'
           /\ EnableUnit(u) => UMTypeOK'
           /\ RemoveUnit(u, TRUE) => UMTypeOK'
           /\ RemoveUnit(u, FALSE) => UMTypeOK'
           /\ TriggerStart(u) => UMTypeOK'
           /\ TriggerStop(u) => UMTypeOK'
           /\ Reload => UMTypeOK'
           /\ SystemdStep(u) => UMTypeOK'
  <1>1. WriteUnitBegin(u) => UMTypeOK'
    BY DEF UMTypeOK, WriteUnitBegin, FileState
  <1>2. WriteUnitEnd(u) => UMTypeOK'
    BY DEF UMTypeOK, WriteUnitEnd, FileState
  <1>3. EnableUnit(u) => UMTypeOK'
    BY DEF UMTypeOK, EnableUnit
  <1>4. RemoveUnit(u, TRUE) => UMTypeOK'
    BY DEF UMTypeOK, RemoveUnit, FileAfterRemove, ResetFailed, FileState, UnitState
  <1>5. RemoveUnit(u, FALSE) => UMTypeOK'
    BY DEF UMTypeOK, RemoveUnit, FileAfterRemove, ResetFailed, FileState, UnitState
  <1>6. TriggerStart(u) => UMTypeOK'
    BY DEF UMTypeOK, TriggerStart, AfterStart, UnitState
  <1>7. TriggerStop(u) => UMTypeOK'
    BY DEF UMTypeOK, TriggerStop, AfterStop, UnitState
  <1>8. Reload => UMTypeOK'
    BY DEF UMTypeOK, Reload, UnitState
  <1>9. SystemdStep(u) => UMTypeOK'
    BY DEF UMTypeOK, SystemdStep, StartJobRuns, ProcessExits, StopJobEnds, Collected,
           UnitState
  <1> QED  BY <1>1, <1>2, <1>3, <1>4, <1>5, <1>6, <1>7, <1>8, <1>9

-----------------------------------------------------------------------------
(* Type correctness.                                                       *)

LEMMA ViewType ==
    /\ NoView \in [Unit -> View]
    /\ \A p : Listing(p) \in [Unit -> View]
    /\ \A u \in Unit : [NoView EXCEPT ![u] = "bare"] \in [Unit -> View]
  BY DEF NoView, Listing, View

LEMMA AnswerType ==
    ASSUME TypeOK, NEW a \in Actors, AnswerNil(a) \/ AnswerPod(a)
    PROVE  PcTypeOK' /\ view' \in [Actors -> [Unit -> View]]
  <1>1. view' \in [Actors -> [Unit -> View]]
    BY ViewType DEF TypeOK, AnswerNil, AnswerPod
  <1>2. \E label \in Pcs : /\ Goto(a, label)
                           /\ a \in Pods \/ label = "idle"
    BY DEF AnswerNil, AnswerPod, Pcs, CreatePcs
  <1> QED  BY <1>1, <1>2, GotoType DEF TypeOK

\* GetPod's steps change the view, one program counter and units.
LEMMA GetPodType ==
    ASSUME TypeOK, NEW a \in Actors, GetPodStep(a)
    PROVE  TypeOK'
  <1>0. /\ {"read", "healStop", "healUnload", "healReload", "idle"} \subseteq Pcs
        /\ {"read", "healStop", "healUnload", "healReload"} \subseteq GetPcs
    BY DEF Pcs, GetPcs
  <1>1. CASE ListUnits(a)
    <2>1. PcTypeOK' /\ view' \in [Actors -> [Unit -> View]]
      <3>1. CASE AnswerNil(a)
        BY <3>1, AnswerType
      <3>2. CASE Goto(a, "read") /\ view' = [view EXCEPT ![a] = Listing(subject[a])]
        BY <1>0, <3>2, GotoType, ViewType DEF TypeOK
      <3> QED  BY <1>1, <3>1, <3>2 DEF ListUnits
    <2> QED  BY <1>1, <2>1, FaultType DEF TypeOK, UMTypeOK, umVars, ListUnits
  <1>2. CASE Convert(a)
    BY <1>2, AnswerType DEF TypeOK, UMTypeOK, umVars, Convert
  <1>3. CASE HealStop(a)
    <2>1. UMTypeOK'
      BY <1>3, UMStepType DEF TypeOK, UMTypeOK, umVars, HealStop
    <2>2. PcTypeOK'
      BY <1>0, <1>3, GotoType DEF TypeOK, HealStop
    <2> QED  BY <1>3, <2>1, <2>2, FaultType DEF TypeOK, HealStop
  <1>4. CASE HealUnload(a)
    <2>1. UMTypeOK'
      BY <1>4, UMStepType DEF TypeOK, HealUnload
    <2>2. PcTypeOK'
      BY <1>0, <1>4, GotoType DEF TypeOK, HealUnload
    <2> QED  BY <1>4, <2>1, <2>2, FaultType DEF TypeOK, HealUnload
  <1>5. CASE HealReload(a)
    <2>1. UMTypeOK'
      BY <1>5 DEF TypeOK, UMTypeOK, HealReload, Reload, UnitState
    <2> QED  BY <1>5, <2>1, AnswerType DEF TypeOK, HealReload
  <1>6. ASSUME NEW u \in Unit, ReadUnit(a, u)
        PROVE  TypeOK'
    BY <1>6 DEF TypeOK, UMTypeOK, PcTypeOK, umVars, ReadUnit, View
  <1>7. ASSUME NEW u \in Unit, PickBare(a, u)
        PROVE  TypeOK'
    <2>1. PcTypeOK'
      BY <1>0, <1>7, GotoType DEF TypeOK, PickBare
    <2> QED  BY <1>7, <2>1, ViewType DEF TypeOK, UMTypeOK, umVars, PickBare
  <1> QED  BY <1>1, <1>2, <1>3, <1>4, <1>5, <1>6, <1>7 DEF GetPodStep

LEMMA CreatePodType ==
    ASSUME TypeOK, NEW p \in Pods, CreatePodStep(p)
    PROVE  TypeOK'
  <1>0. /\ p \in Actors /\ Current(p) \in Unit
        /\ {"idle", "install", "load", "write", "enable", "start"} \subseteq Pcs
    BY CurrentUnit DEF Actors, Pcs, CreatePcs
  <1>1. CASE Install(p)
    <2>1. PcTypeOK'
      BY <1>0, <1>1, GotoType DEF TypeOK, Install
    <2> QED  BY <1>1, <2>1, FaultType, LastContainer
             DEF TypeOK, UMTypeOK, umVars, Install
  <1>2. CASE LoadBegin(p)
    <2>1. UMTypeOK'
      BY <1>0, <1>2, UMStepType DEF TypeOK, LoadBegin
    <2>2. PcTypeOK'
      BY <1>0, <1>2, GotoType DEF TypeOK, LoadBegin
    <2> QED  BY <1>2, <2>1, <2>2 DEF TypeOK, LoadBegin
  <1>3. CASE LoadWrite(p) \/ LoadEnd(p)
    <2>1. UMTypeOK'
      <3>1. UNCHANGED umVars => UMTypeOK'
        BY DEF TypeOK, UMTypeOK, umVars
      <3> QED  BY <1>0, <1>3, <3>1, UMStepType DEF TypeOK, LoadWrite, LoadEnd
    <2>2. LoadReturns(p) => idx' \in [Pods -> Containers] /\ PcTypeOK'
      BY <1>0, NextIndex, LastContainer, GotoType DEF TypeOK, LoadReturns, AfterLastLoad
    <2>3. Goto(p, "enable") => PcTypeOK'
      BY <1>0, GotoType DEF TypeOK
    <2>4. idx' \in [Pods -> Containers] /\ PcTypeOK'
      BY <1>3, <2>2, <2>3 DEF TypeOK, LoadWrite, LoadEnd
    <2> QED  BY <1>3, <2>1, <2>4, FaultType DEF TypeOK, LoadWrite, LoadEnd
  <1>4. CASE Start(p)
    <2>1. UMTypeOK'
      BY <1>0, <1>4, UMStepType DEF TypeOK, UMTypeOK, umVars, Start
    <2>2. PcTypeOK' /\ idx' \in [Pods -> Containers]
      BY <1>0, <1>4, LoopType DEF TypeOK, Start
    <2> QED  BY <1>4, <2>1, <2>2, FaultType DEF TypeOK, Start
  <1> QED  BY <1>1, <1>2, <1>3, <1>4 DEF CreatePodStep

LEMMA DeletePodType ==
    ASSUME TypeOK, NEW p \in Pods, DeletePodStep(p)
    PROVE  TypeOK'
  <1>0. /\ p \in Actors /\ Current(p) \in Unit
        /\ {"idle", "unload", "reload", "clean"} \subseteq Pcs
    BY CurrentUnit DEF Actors, Pcs, DeletePcs
  <1>1. CASE Stop(p)
    <2>1. UMTypeOK'
      BY <1>0, <1>1, UMStepType DEF TypeOK, UMTypeOK, umVars, Stop
    <2>2. PcTypeOK' /\ idx' \in [Pods -> Containers]
      BY <1>0, <1>1, LoopType DEF TypeOK, Stop
    <2> QED  BY <1>1, <2>1, <2>2, FaultType DEF TypeOK, Stop
  <1>2. CASE Unload(p)
    <2>1. UMTypeOK'
      BY <1>0, <1>2, UMStepType DEF TypeOK, Unload
    <2>2. PcTypeOK' /\ idx' \in [Pods -> Containers]
      BY <1>0, <1>2, LoopType DEF TypeOK, Unload
    <2> QED  BY <1>2, <2>1, <2>2, FaultType DEF TypeOK, Unload
  <1>3. CASE ReloadAll(p)
    <2>1. UMTypeOK'
      BY <1>0, <1>3, UMStepType DEF TypeOK, ReloadAll
    <2>2. PcTypeOK'
      BY <1>0, <1>3, GotoType DEF TypeOK, ReloadAll
    <2> QED  BY <1>3, <2>1, <2>2 DEF TypeOK, ReloadAll
  <1>4. CASE Clean(p)
    <2>1. PcTypeOK'
      BY <1>0, <1>4, GotoType DEF TypeOK, Clean
    <2> QED  BY <1>4, <2>1 DEF TypeOK, UMTypeOK, umVars, Clean, ApiState
  <1> QED  BY <1>1, <1>2, <1>3, <1>4 DEF DeletePodStep

LEMMA RestartType ==
    ASSUME TypeOK, Restart, faults' \in 0..MaxFaults
    PROVE  TypeOK'
  <1>1. PcTypeOK'
    BY DEF Restart, PcTypeOK, Pcs, Actors
  <1> QED  BY <1>1, LastContainer, ViewType DEF TypeOK, UMTypeOK, umVars, Restart

LEMMA NextType == TypeOK /\ [Next]_vars => TypeOK'
  <1> SUFFICES ASSUME TypeOK, [Next]_vars
               PROVE  TypeOK'
    OBVIOUS
  <1>0. Pods \subseteq Actors /\ Pollers \subseteq Actors
    BY DEF Actors
  <1>1. ASSUME NEW p \in Pods, ApiCreate(p) \/ ApiDelete(p)
        PROVE  TypeOK'
    BY <1>1 DEF TypeOK, UMTypeOK, PcTypeOK, umVars, ApiCreate, ApiDelete, ApiState
  <1>2. ASSUME NEW p \in Pods, Sync(p)
        PROVE  TypeOK'
    <2>1. PcTypeOK'
      BY <1>0, <1>2, GotoType DEF TypeOK, Sync, Pcs, GetPcs, DeletePcs
    <2> QED  BY <1>2, <2>1 DEF TypeOK, UMTypeOK, umVars, Sync
  <1>3. ASSUME NEW p \in Pods, NEW a \in Pollers, Poll(a, p)
        PROVE  TypeOK'
    <2>1. PcTypeOK'
      BY <1>0, <1>3, GotoType DEF TypeOK, Poll, Pcs, GetPcs
    <2>2. subject' \in [Actors -> Pods] /\ \A q \in Pods : subject'[q] = q
      BY <1>0, <1>3, ActorAssumption DEF TypeOK, Poll
    <2> QED  BY <1>3, <2>1, <2>2 DEF TypeOK, UMTypeOK, umVars, Poll
  <1>4. ASSUME NEW a \in Actors, GetPodStep(a)
        PROVE  TypeOK'
    BY <1>4, GetPodType
  <1>5. ASSUME NEW p \in Pods, CreatePodStep(p) \/ DeletePodStep(p)
        PROVE  TypeOK'
    BY <1>5, CreatePodType, DeletePodType
  <1>6. ASSUME NEW u \in Unit, Systemd(u)
        PROVE  TypeOK'
    BY <1>6, UMStepType DEF TypeOK, PcTypeOK, Systemd
  <1>7. ASSUME NEW a \in Actors, Panic(a)
        PROVE  TypeOK'
    BY <1>7, RestartType, FaultType DEF TypeOK, Panic
  <1>8. CASE Crash
    BY <1>8, RestartType, FaultType DEF TypeOK, Crash
  <1>9. CASE UNCHANGED vars
    BY <1>9 DEF TypeOK, UMTypeOK, PcTypeOK, vars
  <1> QED  BY <1>0, <1>1, <1>2, <1>3, <1>4, <1>5, <1>6, <1>7, <1>8, <1>9
           DEF Next, Worker

\* Every reachable state is well-typed.
THEOREM TypeCorrect == Spec => []TypeOK
  <1>1. Init => TypeOK
    BY FaultAssumption, ActorAssumption, LastContainer
    DEF Init, UMInit, TypeOK, UMTypeOK, PcTypeOK, FileState, UnitState, ApiState, Pcs, NoView,
        View, Actors
  <1> QED  BY <1>1, NextType, PTL DEF Spec

-----------------------------------------------------------------------------
(* No unit file outlives its pod.  FilesOnlyOfKnownPods is not inductive:  *)
(* it needs that no worker is at work on a pod the API server does not     *)
(* know, and how far the Unload loop of DeletePod has come.                *)

NoFiles(p) == \A u \in UnitsOf(p) : file[u] = "absent"

FilesInvOf(p) ==
    /\ api[p] = "absent" => pc[p] = "idle" /\ NoFiles(p)
    /\ pc[p] = "unload" =>
          \A u \in UnitsOf(p) : u[2] < idx[p] => file[u] = "absent"
    /\ pc[p] \in {"reload", "clean"} => NoFiles(p)

FilesInv == \A p \in Pods : FilesInvOf(p)

\* No unit of the pod gets a file.
Shrinks(p) == \A u \in UnitsOf(p) : file[u] = "absent" => file'[u] = "absent"

LEMMA UnitsOfPods ==
    /\ \A p \in Pods : UnitsOf(p) \subseteq Unit
    /\ \A u \in Unit : u[1] \in Pods /\ u[2] \in Containers /\ u \in UnitsOf(u[1])
    /\ \A p \in Pods : \A u \in UnitsOf(p) : u[1] = p /\ u[2] \in Containers
    /\ \A p \in Pods, q \in Pods : p # q => UnitsOf(p) \cap UnitsOf(q) = {}
  BY DEF Unit, UnitsOf

\* What keeps away from the pod, or takes files away, keeps its invariant.
LEMMA FilesQuiet ==
    ASSUME NEW q \in Pods, FilesInvOf(q), Shrinks(q),
           api'[q] = api[q] \/ api'[q] # "absent",
           pc'[q] = pc[q] \/ (api'[q] # "absent" /\ pc'[q] \notin {"unload", "reload", "clean"}),
           idx'[q] = idx[q] \/ pc'[q] # "unload"
    PROVE  FilesInvOf(q)'
  BY DEF FilesInvOf, Shrinks, NoFiles, UnitsOf

\* The operations of the unit manager that write no file.
LEMMA ShrinkingSteps ==
    ASSUME TypeOK, NEW q \in Pods
    PROVE  /\ UNCHANGED umVars => Shrinks(q)
           /\ Reload => Shrinks(q)
           /\ \A u \in Unit : TriggerStart(u) \/ TriggerStop(u) \/ SystemdStep(u) => Shrinks(q)
           /\ \A u \in Unit : RemoveUnit(u, TRUE) \/ RemoveUnit(u, FALSE) => Shrinks(q)
  <1> USE UnitsOfPods
  <1>1. file' = file => Shrinks(q)
    BY DEF Shrinks
  <1>2. \A u \in Unit : RemoveUnit(u, TRUE) \/ RemoveUnit(u, FALSE) => Shrinks(q)
    BY DEF TypeOK, UMTypeOK, RemoveUnit, FileAfterRemove, Shrinks
  <1> QED  BY <1>1, <1>2 DEF umVars, Reload, TriggerStart, TriggerStop, SystemdStep,
              StartJobRuns, ProcessExits, StopJobEnds, Collected

\* GetPod sends its goroutine through the pcs of GetPod only, on to install or
\* back to idle, and leaves the others alone.
LEMMA GetPodMoves ==
    ASSUME TypeOK, NEW a \in Actors, GetPodStep(a), NEW q \in Pods
    PROVE  /\ UNCHANGED <<api, idx>>
           /\ pc'[q] = pc[q] \/ (pc[q] \in GetPcs /\ pc'[q] \notin DeletePcs)
  <1>1. UNCHANGED <<api, idx>>
    BY DEF GetPodStep, ListUnits, Convert, HealStop, HealUnload, HealReload, ReadUnit,
       PickBare
  <1>2. /\ pc[a] \in GetPcs
        /\ \/ pc' = pc
           \/ \E label \in (GetPcs \cup {"install", "idle"}) : pc' = [pc EXCEPT ![a] = label]
    <2>1. CASE \E u \in Unit : ReadUnit(a, u)
      BY <2>1 DEF ReadUnit, GetPcs
    <2>2. CASE ListUnits(a) \/ HealReload(a)
      BY <2>2 DEF ListUnits, HealReload, AnswerNil, Goto, GetPcs
    <2>3. CASE Convert(a) \/ HealStop(a) \/ HealUnload(a) \/ \E u \in Unit : PickBare(a, u)
      BY <2>3 DEF Convert, HealStop, HealUnload, PickBare, AllRead, AnswerPod, Goto, GetPcs
    <2> QED  BY <2>1, <2>2, <2>3 DEF GetPodStep
  <1>3. CASE a = q
    BY <1>1, <1>2, <1>3 DEF GetPcs, DeletePcs, TypeOK, PcTypeOK
  <1>4. CASE a # q
    BY <1>1, <1>2, <1>4 DEF Actors, TypeOK, PcTypeOK
  <1> QED  BY <1>1, <1>3, <1>4

LEMMA FilesGetPod ==
    ASSUME TypeOK, FilesInv, NEW a \in Actors, GetPodStep(a), NEW q \in Pods
    PROVE  FilesInvOf(q)'
  <1>1. Shrinks(q)
    BY ShrinkingSteps DEF GetPodStep, ListUnits, Convert, HealStop, HealUnload, HealReload,
       ReadUnit, PickBare
  <1>2. pc[q] \in GetPcs => api[q] # "absent"
    BY DEF FilesInv, FilesInvOf, GetPcs
  <1> QED  BY <1>1, <1>2, GetPodMoves, FilesQuiet DEF FilesInv, DeletePcs

\* A loop leaves other workers alone.
LEMMA LoopOthers ==
    ASSUME TypeOK, NEW p \in Pods, NEW label, Loop(p, label), NEW q \in Pods, q # p
    PROVE  pc'[q] = pc[q] /\ idx'[q] = idx[q]
  BY DEF TypeOK, PcTypeOK, Loop, Goto, Actors

LEMMA LoopSelf ==
    ASSUME TypeOK, NEW p \in Pods, NEW label, Loop(p, label)
    PROVE  \/ idx[p] = NumInit + NumMain /\ pc'[p] = label
           \/ idx[p] # NumInit + NumMain /\ pc'[p] = pc[p] /\ idx'[p] = idx[p] + 1
  BY DEF TypeOK, PcTypeOK, Loop, Goto, Actors

\* So does CreatePod, and so does DeletePod.
LEMMA CreatePodOthers ==
    ASSUME TypeOK, NEW p \in Pods, CreatePodStep(p), NEW q \in Pods, q # p
    PROVE  pc'[q] = pc[q] /\ idx'[q] = idx[q]
  <1>1. CASE Start(p)
    BY <1>1, LoopOthers DEF Start
  <1> QED  BY <1>1 DEF CreatePodStep, Install, LoadBegin, LoadWrite, LoadEnd, LoadReturns, Goto,
                       TypeOK, PcTypeOK, Actors

LEMMA DeletePodOthers ==
    ASSUME TypeOK, NEW p \in Pods, DeletePodStep(p), NEW q \in Pods, q # p
    PROVE  pc'[q] = pc[q] /\ idx'[q] = idx[q] /\ api'[q] = api[q]
  <1>1. CASE Stop(p)
    BY <1>1, LoopOthers DEF Stop
  <1>2. CASE Unload(p)
    BY <1>2, LoopOthers DEF Unload
  <1> QED  BY <1>1, <1>2 DEF DeletePodStep, ReloadAll, Clean, Goto, TypeOK, PcTypeOK, Actors

LEMMA FilesCreatePod ==
    ASSUME TypeOK, FilesInv, NEW p \in Pods, CreatePodStep(p), NEW q \in Pods
    PROVE  FilesInvOf(q)'
  <1>1. api' = api /\ pc[p] \in CreatePcs /\ p \in Actors
    BY DEF CreatePodStep, Install, LoadBegin, LoadWrite, LoadEnd, Start, CreatePcs, Actors
  <1>2. CASE q = p
    <2>1. api'[q] # "absent"
      BY <1>1, <1>2 DEF FilesInv, FilesInvOf, CreatePcs
    <2>2. pc'[q] \notin {"unload", "reload", "clean"}
      BY <1>1, <1>2, LoopSelf
      DEF CreatePodStep, Install, LoadBegin, LoadWrite, LoadEnd, LoadReturns, Start,
          AfterLastLoad, Goto, TypeOK, PcTypeOK
    <2> QED  BY <2>1, <2>2 DEF FilesInvOf
  <1>3. CASE q # p
    <2>1. pc'[q] = pc[q] /\ idx'[q] = idx[q]
      BY <1>3, CreatePodOthers
    <2>2. Shrinks(q)
      <3>1. CASE Install(p) \/ Start(p)
        BY <3>1, ShrinkingSteps, CurrentUnit DEF Install, Start
      <3>2. CASE LoadBegin(p) \/ LoadWrite(p) \/ LoadEnd(p)
        <4>1. Current(p) \notin UnitsOf(q)
          BY <1>3 DEF Current, UnitsOf
        <4>2. \E f : file' = [file EXCEPT ![Current(p)] = f]
          <5>1. CASE UNCHANGED umVars
            <6>1. file = [file EXCEPT ![Current(p)] = file[Current(p)]]
              BY DEF TypeOK, UMTypeOK
            <6> QED  BY <5>1, <6>1 DEF umVars
          <5>2. CASE EnableUnit(Current(p))
            <6>1. file = [file EXCEPT ![Current(p)] = file[Current(p)]]
              BY DEF TypeOK, UMTypeOK
            <6> QED  BY <5>2, <6>1 DEF EnableUnit
          <5>3. CASE \/ WriteUnitBegin(Current(p)) \/ WriteUnitEnd(Current(p))
                     \/ RemoveUnit(Current(p), TRUE) \/ RemoveUnit(Current(p), FALSE)
            BY <5>3 DEF WriteUnitBegin, WriteUnitEnd, RemoveUnit
          <5> QED  BY <3>2, <5>1, <5>2, <5>3 DEF LoadBegin, LoadWrite, LoadEnd
        <4> QED  BY <4>1, <4>2, UnitsOfPods DEF Shrinks, TypeOK, UMTypeOK
      <3> QED  BY <3>1, <3>2 DEF CreatePodStep
    <2> QED  BY <1>1, <2>1, <2>2, FilesQuiet DEF FilesInv
  <1> QED  BY <1>2, <1>3

LEMMA FilesDeletePod ==
    ASSUME TypeOK, FilesInv, NEW p \in Pods, DeletePodStep(p), NEW q \in Pods
    PROVE  FilesInvOf(q)'
  <1>0. p \in Actors /\ Current(p) \in Unit /\ FilesInvOf(p) /\ FilesInvOf(q)
    BY CurrentUnit DEF Actors, FilesInv
  <1>1. \A r \in Pods : Shrinks(r)
    BY <1>0, ShrinkingSteps DEF DeletePodStep, Stop, Unload, ReloadAll, Clean
  <1>2. CASE q # p
    <2>1. pc'[q] = pc[q] /\ idx'[q] = idx[q] /\ api'[q] = api[q]
      BY <1>2, DeletePodOthers
    <2> QED  BY <1>0, <1>1, <2>1, FilesQuiet
  <1>3. CASE Stop(p) /\ q = p
    <2>1. api'[q] # "absent" /\ pc[q] = "stop"
      BY <1>0, <1>3 DEF Stop, FilesInvOf
    <2>2. CASE pc'[q] = "stop"
      BY <2>1, <2>2 DEF FilesInvOf
    <2>3. CASE pc'[q] = "unload" /\ idx'[q] = 1
      <3>1. \A u \in UnitsOf(q) : ~(u[2] < idx'[q])
        BY <2>3, SpecAssumption DEF UnitsOf, Containers
      <3> QED  BY <2>1, <2>3, <3>1 DEF FilesInvOf
    <2> QED  BY <1>3, <2>1, <2>2, <2>3 DEF Stop, Loop, Goto, TypeOK, PcTypeOK, Actors
  <1>4. CASE Unload(p) /\ q = p
    <2>1. api'[q] # "absent" /\ pc[q] = "unload"
      BY <1>0, <1>4 DEF Unload, FilesInvOf
    <2>2. file' = [file EXCEPT ![Current(q)] = "absent"] /\ Loop(q, "reload")
      BY <1>4 DEF Unload, RemoveUnit, FileAfterRemove
    <2>3. \A u \in UnitsOf(q) : u[2] < idx[q] \/ u = Current(q) => file'[u] = "absent"
      BY <1>0, <1>1, <2>1, <2>2, UnitsOfPods
         DEF FilesInvOf, Shrinks, TypeOK, UMTypeOK
    <2>4. \A u \in UnitsOf(q) : u[2] <= idx[q] => file'[u] = "absent"
      <3>1. \A u \in UnitsOf(q) : u[2] = idx[q] => u = Current(q)
        BY DEF UnitsOf, Current
      <3>2. \A u \in UnitsOf(q) : u[2] \in Int /\ idx[q] \in Int
        BY DEF UnitsOf, Containers, TypeOK
      <3> QED  BY <2>3, <3>1, <3>2
    <2>5. CASE idx[q] = NumInit + NumMain /\ pc'[q] = "reload"
      <3>1. \A u \in UnitsOf(q) : u[2] <= idx[q]
        BY <2>5, SpecAssumption DEF UnitsOf, Containers
      <3> QED  BY <2>1, <2>4, <2>5, <3>1 DEF FilesInvOf, NoFiles
    <2>6. CASE pc'[q] = "unload" /\ idx'[q] = idx[q] + 1
      <3>1. \A u \in UnitsOf(q) : u[2] < idx'[q] => u[2] <= idx[q]
        BY <2>6 DEF UnitsOf, Containers, TypeOK
      <3> QED  BY <2>1, <2>4, <2>6, <3>1 DEF FilesInvOf
    <2> QED  BY <2>1, <2>2, <2>5, <2>6, LoopSelf
  <1>5. CASE (ReloadAll(p) \/ Clean(p)) /\ q = p
    <2>1. NoFiles(q)'
      BY <1>0, <1>1, <1>5 DEF ReloadAll, Clean, FilesInvOf, NoFiles, Shrinks
    <2>2. api'[q] = "absent" => pc'[q] = "idle"
      BY <1>0, <1>5 DEF ReloadAll, Clean, Goto, FilesInvOf, TypeOK, PcTypeOK
    <2>3. pc'[q] # "unload"
      BY <1>0, <1>5 DEF ReloadAll, Clean, Goto, TypeOK, PcTypeOK
    <2> QED  BY <2>1, <2>2, <2>3 DEF FilesInvOf
  <1> QED  BY <1>2, <1>3, <1>4, <1>5 DEF DeletePodStep

LEMMA FilesNext == TypeOK /\ FilesInv /\ [Next]_vars => FilesInv'
  <1> SUFFICES ASSUME TypeOK, FilesInv, [Next]_vars, NEW q \in Pods
               PROVE  FilesInvOf(q)'
    BY DEF FilesInv
  <1>0. Pods \subseteq Actors /\ Pollers \subseteq Actors /\ FilesInvOf(q)
    BY DEF Actors, FilesInv
  <1>1. ASSUME NEW p \in Pods, ApiCreate(p) \/ ApiDelete(p)
        PROVE  FilesInvOf(q)'
    <2>1. api'[q] = api[q] \/ api'[q] # "absent"
      BY <1>1 DEF ApiCreate, ApiDelete, TypeOK
    <2> QED  BY <1>0, <1>1, <2>1, ShrinkingSteps, FilesQuiet DEF ApiCreate, ApiDelete
  <1>2. ASSUME NEW p \in Pods, Sync(p)
        PROVE  FilesInvOf(q)'
    <2>1. Shrinks(q) /\ UNCHANGED <<api, idx>>
      BY <1>2, ShrinkingSteps DEF Sync
    <2>2. pc'[q] = pc[q] \/ (api'[q] # "absent" /\ pc'[q] \notin {"unload", "reload", "clean"})
      BY <1>0, <1>2, <2>1 DEF Sync, Goto, TypeOK, PcTypeOK
    <2> QED  BY <1>0, <2>1, <2>2, FilesQuiet
  <1>3. ASSUME NEW p \in Pods, NEW a \in Pollers, Poll(a, p)
        PROVE  FilesInvOf(q)'
    <2>1. Shrinks(q) /\ UNCHANGED <<api, idx>>
      BY <1>3, ShrinkingSteps DEF Poll
    <2>2. pc'[q] = pc[q]
      BY <1>0, <1>3, ActorAssumption DEF Poll, Goto, TypeOK, PcTypeOK
    <2> QED  BY <1>0, <2>1, <2>2, FilesQuiet
  <1>4. ASSUME NEW a \in Actors, GetPodStep(a)
        PROVE  FilesInvOf(q)'
    BY <1>4, FilesGetPod
  <1>5. ASSUME NEW p \in Pods, CreatePodStep(p) \/ DeletePodStep(p)
        PROVE  FilesInvOf(q)'
    BY <1>5, FilesCreatePod, FilesDeletePod
  <1>6. ASSUME NEW u \in Unit, Systemd(u)
        PROVE  FilesInvOf(q)'
    BY <1>0, <1>6, ShrinkingSteps, FilesQuiet DEF Systemd
  <1>7. CASE Restart
    <2>1. Shrinks(q) /\ api' = api /\ pc'[q] = "idle"
      BY <1>0, <1>7, ShrinkingSteps DEF Restart
    <2> QED  BY <1>0, <2>1 DEF FilesInvOf, Shrinks, NoFiles
  <1>8. CASE UNCHANGED vars
    BY <1>0, <1>8 DEF vars, FilesInvOf, NoFiles
  <1> QED  BY <1>0, <1>1, <1>2, <1>3, <1>4, <1>5, <1>6, <1>7, <1>8
           DEF Next, Worker, Panic, Crash

\* DeletePod leaves no unit file behind, whatever fails, whoever else calls
\* GetPod meanwhile, and however often systemk is killed.
THEOREM NoFileOutlivesItsPod == Spec => []FilesOnlyOfKnownPods
  <1>1. Init => FilesInv
    <2> SUFFICES ASSUME Init, NEW p \in Pods
                 PROVE  FilesInvOf(p)
      BY DEF FilesInv
    <2>1. NoFiles(p)
      BY UnitsOfPods DEF Init, UMInit, NoFiles
    <2> QED  BY <2>1 DEF Init, FilesInvOf, Actors
  <1>2. FilesInv => FilesOnlyOfKnownPods
    BY UnitsOfPods DEF FilesInv, FilesInvOf, NoFiles, FilesOnlyOfKnownPods
  <1> QED  BY <1>1, <1>2, FilesNext, TypeCorrect, PTL DEF Spec

-----------------------------------------------------------------------------
(* Outside the loops of CreatePod and DeletePod the index is back at 1, so *)
(* every loop starts at the first container.                               *)

LoopPcs == CreatePcs \cup {"stop", "unload"}
IdxInvOf(p) == pc[p] \notin LoopPcs => idx[p] = 1
IdxInv == \A p \in Pods : IdxInvOf(p)

LEMMA IdxCreatePod ==
    ASSUME TypeOK, NEW p \in Pods, CreatePodStep(p), IdxInvOf(p)
    PROVE  IdxInvOf(p)'
  <1>0. p \in Actors
    BY DEF Actors
  <1>1. CASE Install(p)
    BY <1>0, <1>1 DEF Install, Goto, IdxInvOf, LoopPcs, CreatePcs, TypeOK, PcTypeOK
  <1>2. CASE LoadBegin(p) \/ LoadWrite(p) \/ LoadEnd(p)
    BY <1>0, <1>2
    DEF LoadBegin, LoadWrite, LoadEnd, LoadReturns, AfterLastLoad, Goto, IdxInvOf, LoopPcs,
        CreatePcs, TypeOK, PcTypeOK
  <1>3. CASE Start(p)
    BY <1>0, <1>3 DEF Start, Loop, Goto, IdxInvOf, LoopPcs, CreatePcs, TypeOK, PcTypeOK
  <1> QED  BY <1>1, <1>2, <1>3 DEF CreatePodStep

LEMMA IdxDeletePod ==
    ASSUME TypeOK, NEW p \in Pods, DeletePodStep(p), IdxInvOf(p)
    PROVE  IdxInvOf(p)'
  <1>0. p \in Actors
    BY DEF Actors
  <1>1. CASE Stop(p)
    BY <1>0, <1>1 DEF Stop, Loop, Goto, IdxInvOf, LoopPcs, TypeOK, PcTypeOK
  <1>2. CASE Unload(p)
    BY <1>0, <1>2 DEF Unload, Loop, Goto, IdxInvOf, LoopPcs, TypeOK, PcTypeOK
  <1>3. CASE ReloadAll(p) \/ Clean(p)
    BY <1>0, <1>3 DEF ReloadAll, Clean, Goto, IdxInvOf, LoopPcs, CreatePcs, TypeOK, PcTypeOK
  <1> QED  BY <1>1, <1>2, <1>3 DEF DeletePodStep

LEMMA IdxNext == TypeOK /\ IdxInv /\ [Next]_vars => IdxInv'
  <1> SUFFICES ASSUME TypeOK, IdxInv, [Next]_vars, NEW q \in Pods
               PROVE  IdxInvOf(q)'
    BY DEF IdxInv
  <1>0. Pods \subseteq Actors /\ Pollers \subseteq Actors /\ IdxInvOf(q)
    BY DEF Actors, IdxInv
  <1>1. CASE UNCHANGED <<pc, idx>>
    BY <1>0, <1>1 DEF IdxInvOf
  <1>2. ASSUME NEW p \in Pods, Sync(p)
        PROVE  IdxInvOf(q)'
    BY <1>0, <1>2 DEF Sync, Goto, IdxInvOf, LoopPcs, CreatePcs, TypeOK, PcTypeOK
  <1>3. ASSUME NEW p \in Pods, NEW a \in Pollers, Poll(a, p)
        PROVE  IdxInvOf(q)'
    BY <1>0, <1>3, ActorAssumption DEF Poll, Goto, IdxInvOf, TypeOK, PcTypeOK
  <1>4. ASSUME NEW a \in Actors, GetPodStep(a)
        PROVE  IdxInvOf(q)'
    BY <1>0, <1>4, GetPodMoves DEF IdxInvOf, LoopPcs, GetPcs, CreatePcs
  <1>5. ASSUME NEW p \in Pods, CreatePodStep(p) \/ DeletePodStep(p)
        PROVE  IdxInvOf(q)'
    <2>1. CASE p = q
      BY <1>0, <1>5, <2>1, IdxCreatePod, IdxDeletePod
    <2>2. CASE p # q
      BY <1>0, <1>5, <2>2, CreatePodOthers, DeletePodOthers DEF IdxInvOf
    <2> QED  BY <2>1, <2>2
  <1>6. CASE Restart
    BY <1>6 DEF Restart, IdxInvOf
  <1> QED  BY <1>0, <1>1, <1>2, <1>3, <1>4, <1>5, <1>6
           DEF Next, Worker, ApiCreate, ApiDelete, Systemd, Panic, Crash, vars

-----------------------------------------------------------------------------
(* A deleted pod is gone for systemd too, as long as the stop and disable  *)
(* calls of DeletePod succeed.  The invariant follows the two loops of     *)
(* DeletePod: the units behind the index of the first one are not live,    *)
(* those behind the index of the second one are not linked either.         *)

Quiet(p) == \A u \in UnitsOf(p) : state[u] \notin Live
Unlinked(p) == \A u \in UnitsOf(p) : ~linked[u]

GoneInvOf(p) ==
    /\ api[p] = "absent" => pc[p] = "idle" /\ Quiet(p) /\ Unlinked(p)
    /\ pc[p] = "stop" =>
          \A u \in UnitsOf(p) : u[2] < idx[p] => state[u] \notin Live
    /\ pc[p] \in {"unload", "reload", "clean"} => Quiet(p)
    /\ pc[p] = "unload" =>
          \A u \in UnitsOf(p) : u[2] < idx[p] => ~linked[u]
    /\ pc[p] \in {"reload", "clean"} => Unlinked(p)

GoneInv == \A p \in Pods : GoneInvOf(p)

\* No unit of the pod comes to life or gets linked.
Calms(p) == \A u \in UnitsOf(p) :
    /\ state[u] \notin Live => state'[u] \notin Live
    /\ ~linked[u] => ~linked'[u]

LEMMA GoneQuiet ==
    ASSUME NEW q \in Pods, GoneInvOf(q), Calms(q),
           api'[q] = api[q] \/ api'[q] # "absent",
           pc'[q] = pc[q] \/ (api'[q] # "absent" /\ pc'[q] \notin DeletePcs),
           idx'[q] = idx[q] \/ pc'[q] \notin {"stop", "unload"}
    PROVE  GoneInvOf(q)'
  <1>1. Quiet(q) => Quiet(q)'
    BY DEF Calms, Quiet, UnitsOf
  <1>2. Unlinked(q) => Unlinked(q)'
    BY DEF Calms, Unlinked, UnitsOf
  <1>3. CASE pc'[q] = pc[q]
    <2>1. pc'[q] = "stop" =>
             \A u \in UnitsOf(q) : u[2] < idx'[q] => state'[u] \notin Live
      BY <1>3 DEF GoneInvOf, Calms, UnitsOf
    <2>2. pc'[q] = "unload" =>
             \A u \in UnitsOf(q) : u[2] < idx'[q] => ~linked'[u]
      BY <1>3 DEF GoneInvOf, Calms, UnitsOf
    <2> QED  BY <1>1, <1>2, <1>3, <2>1, <2>2 DEF GoneInvOf
  <1>4. CASE api'[q] # "absent" /\ pc'[q] \notin DeletePcs
    BY <1>4 DEF GoneInvOf, DeletePcs
  <1> QED  BY <1>3, <1>4

\* The operations of the unit manager and of systemd that bring nothing to life.
LEMMA CalmSteps ==
    ASSUME TypeOK, NEW q \in Pods
    PROVE  /\ UNCHANGED umVars => Calms(q)
           /\ Reload => Calms(q)
           /\ \A u \in Unit : TriggerStop(u) \/ SystemdStep(u) => Calms(q)
           /\ \A u \in Unit : RemoveUnit(u, TRUE) \/ RemoveUnit(u, FALSE) => Calms(q)
  <1>0. UnitsOf(q) \subseteq Unit
    BY UnitsOfPods
  <1>1. UNCHANGED umVars => Calms(q)
    BY DEF umVars, Calms
  <1>2. Reload => Calms(q)
    BY <1>0 DEF Reload, Calms, Live
  <1>3. ASSUME NEW u \in Unit, TriggerStop(u)
        PROVE  Calms(q)
    BY <1>0, <1>3 DEF TriggerStop, AfterStop, Calms, Live, TypeOK, UMTypeOK
  <1>4. ASSUME NEW u \in Unit, SystemdStep(u)
        PROVE  Calms(q)
    <2>1. linked' = linked
      BY <1>4 DEF SystemdStep, StartJobRuns, ProcessExits, StopJobEnds, Collected
    <2>2. \E s : state' = [state EXCEPT ![u] = s] /\ (s \in Live => state[u] \in Live)
      <3>1. CASE StartJobRuns(u)
        BY <3>1 DEF StartJobRuns, Live
      <3>2. CASE ProcessExits(u)
        BY <3>2 DEF ProcessExits, Live
      <3>3. CASE StopJobEnds(u)
        <4>1. CASE state[u] = "stopping"
          BY <3>3, <4>1 DEF StopJobEnds, Live
        <4>2. CASE state[u] = "restarting"
          BY <3>3, <4>2 DEF StopJobEnds, Live
        <4> QED  BY <3>3, <4>1, <4>2 DEF StopJobEnds
      <3>4. CASE Collected(u)
        <4>1. "unloaded" \notin Live
          BY DEF Live
        <4> QED  BY <3>4, <4>1 DEF Collected
      <3> QED  BY <1>4, <3>1, <3>2, <3>3, <3>4 DEF SystemdStep
    <2> QED  BY <1>0, <2>1, <2>2 DEF Calms, TypeOK, UMTypeOK
  <1>5. ASSUME NEW u \in Unit, RemoveUnit(u, TRUE) \/ RemoveUnit(u, FALSE)
        PROVE  Calms(q)
    <2>1. ResetFailed(state[u]) \in Live => state[u] \in Live
      BY DEF ResetFailed, Live
    <2> QED  BY <1>0, <1>5, <2>1 DEF RemoveUnit, Calms, TypeOK, UMTypeOK
  <1> QED  BY <1>1, <1>2, <1>3, <1>4, <1>5

LEMMA GoneGetPod ==
    ASSUME TypeOK, GoneInv, NEW a \in Actors, GetPodStep(a), NEW q \in Pods
    PROVE  GoneInvOf(q)'
  <1>1. Calms(q)
    BY CalmSteps DEF GetPodStep, ListUnits, Convert, HealStop, HealUnload, HealReload,
       ReadUnit, PickBare
  <1>2. UNCHANGED <<api, idx>>
    BY GetPodMoves
  <1>3. pc'[q] = pc[q] \/ (pc[q] \in GetPcs /\ pc'[q] \notin DeletePcs)
    BY GetPodMoves
  <1>4. pc[q] \in GetPcs => api[q] # "absent"
    BY DEF GoneInv, GoneInvOf, GetPcs
  <1> QED  BY <1>1, <1>2, <1>3, <1>4, GoneQuiet DEF GoneInv

LEMMA GoneCreatePod ==
    ASSUME TypeOK, GoneInv, NEW p \in Pods, CreatePodStep(p), NEW q \in Pods
    PROVE  GoneInvOf(q)'
  <1>1. api' = api /\ pc[p] \in CreatePcs /\ p \in Actors
    BY DEF CreatePodStep, Install, LoadBegin, LoadWrite, LoadEnd, Start, CreatePcs, Actors
  <1>2. CASE q = p
    <2>1. api'[q] # "absent"
      BY <1>1, <1>2 DEF GoneInv, GoneInvOf, CreatePcs
    <2>2. pc'[q] \notin DeletePcs
      BY <1>1, <1>2, LoopSelf
      DEF CreatePodStep, Install, LoadBegin, LoadWrite, LoadEnd, LoadReturns, Start,
          AfterLastLoad, Goto, TypeOK, PcTypeOK, DeletePcs
    <2> QED  BY <2>1, <2>2 DEF GoneInvOf, DeletePcs
  <1>3. CASE q # p
    <2>1. pc'[q] = pc[q] /\ idx'[q] = idx[q]
      BY <1>3, CreatePodOthers
    <2>2. Calms(q)
      <3>1. CASE Install(p)
        BY <3>1, CalmSteps DEF Install
      <3>2. CASE UNCHANGED umVars
        BY <3>2, CalmSteps
      <3>3. Current(p) \in Unit /\ Current(p) \notin UnitsOf(q)
        BY <1>3, CurrentUnit DEF Current, UnitsOf
      <3>4. CASE \/ WriteUnitBegin(Current(p)) \/ WriteUnitEnd(Current(p))
                 \/ EnableUnit(Current(p)) \/ TriggerStart(Current(p))
        <4>1. /\ linked' = linked \/ linked' = [linked EXCEPT ![Current(p)] = TRUE]
              /\ state' = state \/ \E s : state' = [state EXCEPT ![Current(p)] = s]
          BY <3>4 DEF WriteUnitBegin, WriteUnitEnd, EnableUnit, TriggerStart
        <4> QED  BY <3>3, <4>1, UnitsOfPods DEF Calms, TypeOK, UMTypeOK
      <3>5. CASE RemoveUnit(Current(p), TRUE)
        BY <3>3, <3>5, CalmSteps
      <3>6. CASE RemoveUnit(Current(p), FALSE)
        BY <3>3, <3>6, CalmSteps
      <3> QED  BY <3>1, <3>2, <3>4, <3>5, <3>6
               DEF CreatePodStep, LoadBegin, LoadWrite, LoadEnd, Start
    <2> QED  BY <1>1, <2>1, <2>2, GoneQuiet DEF GoneInv
  <1> QED  BY <1>2, <1>3

NoStopFaults == "stop" \notin FaultKinds /\ "disable" \notin FaultKinds

LEMMA GoneStop ==
    ASSUME NoStopFaults, TypeOK, NEW q \in Pods, GoneInvOf(q), Stop(q), Calms(q)
    PROVE  GoneInvOf(q)'
  <1>0. Current(q) \in Unit /\ q \in Actors
    BY CurrentUnit DEF Actors
  <1>1. api'[q] # "absent" /\ pc[q] = "stop" /\ TriggerStop(Current(q)) /\ Loop(q, "unload")
    BY DEF Stop, Fault, NoStopFaults, GoneInvOf
  <1>2. state'[Current(q)] \notin Live
    <2>1. AfterStop(state[Current(q)]) \notin Live
      BY <1>0 DEF AfterStop, Live, TypeOK, UMTypeOK, UnitState
    <2> QED  BY <1>0, <1>1, <2>1 DEF TriggerStop, TypeOK, UMTypeOK
  <1>3. \A u \in UnitsOf(q) : u[2] <= idx[q] => state'[u] \notin Live
    <2>1. \A u \in UnitsOf(q) : u[2] < idx[q] \/ u = Current(q) => state'[u] \notin Live
      BY <1>1, <1>2 DEF GoneInvOf, Calms
    <2>2. \A u \in UnitsOf(q) : u[2] = idx[q] => u = Current(q)
      BY DEF UnitsOf, Current
    <2>3. \A u \in UnitsOf(q) : u[2] \in Int /\ idx[q] \in Int
      BY DEF UnitsOf, Containers, TypeOK
    <2> QED  BY <2>1, <2>2, <2>3
  <1>4. CASE idx[q] = NumInit + NumMain /\ pc'[q] = "unload" /\ idx'[q] = 1
    <2>1. \A u \in UnitsOf(q) : u[2] <= idx[q] /\ ~(u[2] < idx'[q])
      BY <1>4, SpecAssumption DEF UnitsOf, Containers
    <2> QED  BY <1>1, <1>3, <1>4, <2>1 DEF GoneInvOf, Quiet
  <1>5. CASE pc'[q] = "stop" /\ idx'[q] = idx[q] + 1
    <2>1. \A u \in UnitsOf(q) : u[2] < idx'[q] => u[2] <= idx[q]
      BY <1>5 DEF UnitsOf, Containers, TypeOK
    <2> QED  BY <1>1, <1>3, <1>5, <2>1 DEF GoneInvOf
  <1> QED  BY <1>0, <1>1, <1>4, <1>5 DEF Loop, Goto, TypeOK, PcTypeOK

LEMMA GoneUnload ==
    ASSUME NoStopFaults, TypeOK, NEW q \in Pods, GoneInvOf(q), Unload(q), Calms(q)
    PROVE  GoneInvOf(q)'
  <1>0. Current(q) \in Unit /\ q \in Actors
    BY CurrentUnit DEF Actors
  <1>1. api'[q] # "absent" /\ pc[q] = "unload" /\ RemoveUnit(Current(q), TRUE)
        /\ Loop(q, "reload")
    BY DEF Unload, Fault, NoStopFaults, GoneInvOf
  <1>2. ~linked'[Current(q)]
    BY <1>0, <1>1 DEF RemoveUnit, TypeOK, UMTypeOK
  <1>3. \A u \in UnitsOf(q) : u[2] <= idx[q] => ~linked'[u]
    <2>1. \A u \in UnitsOf(q) : u[2] < idx[q] \/ u = Current(q) => ~linked'[u]
      BY <1>1, <1>2 DEF GoneInvOf, Calms
    <2>2. \A u \in UnitsOf(q) : u[2] = idx[q] => u = Current(q)
      BY DEF UnitsOf, Current
    <2>3. \A u \in UnitsOf(q) : u[2] \in Int /\ idx[q] \in Int
      BY DEF UnitsOf, Containers, TypeOK
    <2> QED  BY <2>1, <2>2, <2>3
  <1>4. Quiet(q)'
    BY <1>1 DEF GoneInvOf, Quiet, Calms, UnitsOf
  <1>5. CASE idx[q] = NumInit + NumMain /\ pc'[q] = "reload"
    <2>1. \A u \in UnitsOf(q) : u[2] <= idx[q]
      BY <1>5, SpecAssumption DEF UnitsOf, Containers
    <2> QED  BY <1>1, <1>3, <1>4, <1>5, <2>1 DEF GoneInvOf, Unlinked
  <1>6. CASE pc'[q] = "unload" /\ idx'[q] = idx[q] + 1
    <2>1. \A u \in UnitsOf(q) : u[2] < idx'[q] => u[2] <= idx[q]
      BY <1>6 DEF UnitsOf, Containers, TypeOK
    <2> QED  BY <1>1, <1>3, <1>4, <1>6, <2>1 DEF GoneInvOf
  <1> QED  BY <1>0, <1>1, <1>5, <1>6 DEF Loop, Goto, TypeOK, PcTypeOK

LEMMA GoneDeletePod ==
    ASSUME NoStopFaults, TypeOK, GoneInv, NEW p \in Pods, DeletePodStep(p), NEW q \in Pods
    PROVE  GoneInvOf(q)'
  <1>0. p \in Actors /\ Current(p) \in Unit /\ GoneInvOf(p) /\ GoneInvOf(q)
    BY CurrentUnit DEF Actors, GoneInv
  <1>1. Calms(q)
    BY <1>0, CalmSteps DEF DeletePodStep, Stop, Unload, ReloadAll, Clean
  <1>2. CASE q # p
    <2>1. pc'[q] = pc[q] /\ idx'[q] = idx[q] /\ api'[q] = api[q]
      BY <1>2, DeletePodOthers
    <2> QED  BY <1>0, <1>1, <2>1, GoneQuiet
  <1>3. CASE (ReloadAll(p) \/ Clean(p)) /\ q = p
    <2>1. Quiet(q)' /\ Unlinked(q)'
      BY <1>0, <1>1, <1>3 DEF ReloadAll, Clean, GoneInvOf, Quiet, Unlinked, Calms, UnitsOf
    <2>2. api'[q] = "absent" => pc'[q] = "idle"
      BY <1>0, <1>3 DEF ReloadAll, Clean, Goto, GoneInvOf, TypeOK, PcTypeOK
    <2>3. pc'[q] \notin {"stop", "unload"}
      BY <1>0, <1>3 DEF ReloadAll, Clean, Goto, TypeOK, PcTypeOK
    <2> QED  BY <2>1, <2>2, <2>3 DEF GoneInvOf
  <1> QED  BY <1>0, <1>1, <1>2, <1>3, GoneStop, GoneUnload DEF DeletePodStep

LEMMA GoneNext ==
    ASSUME NoStopFaults
    PROVE  TypeOK /\ GoneInv /\ IdxInv /\ [Next]_vars => GoneInv'
  <1> SUFFICES ASSUME TypeOK, GoneInv, IdxInv, [Next]_vars, NEW q \in Pods
               PROVE  GoneInvOf(q)'
    BY DEF GoneInv
  <1>0. Pods \subseteq Actors /\ Pollers \subseteq Actors /\ GoneInvOf(q)
    BY DEF Actors, GoneInv
  <1>1. ASSUME NEW p \in Pods, ApiCreate(p) \/ ApiDelete(p)
        PROVE  GoneInvOf(q)'
    <2>1. api'[q] = api[q] \/ api'[q] # "absent"
      BY <1>1 DEF ApiCreate, ApiDelete, TypeOK
    <2> QED  BY <1>0, <1>1, <2>1, CalmSteps, GoneQuiet DEF ApiCreate, ApiDelete
  <1>2. ASSUME NEW p \in Pods, Sync(p), p = q
        PROVE  GoneInvOf(q)'
    <2>1. Calms(q) /\ UNCHANGED <<api, idx>> /\ api[q] # "absent"
      BY <1>2, CalmSteps DEF Sync
    <2>2. CASE pc'[q] = "list"
      BY <1>0, <2>1, <2>2, GoneQuiet DEF DeletePcs
    <2>3. CASE pc'[q] = "stop"
      <3>1. idx'[q] = 1
        BY <1>2, <2>1 DEF Sync, IdxInv, IdxInvOf, LoopPcs, CreatePcs
      <3>2. \A u \in UnitsOf(q) : ~(u[2] < idx'[q])
        BY <3>1, SpecAssumption DEF UnitsOf, Containers
      <3> QED  BY <2>1, <2>3, <3>2 DEF GoneInvOf
    <2> QED  BY <1>0, <1>2, <2>2, <2>3 DEF Sync, Goto, TypeOK, PcTypeOK
  <1>3. ASSUME NEW p \in Pods, Sync(p), p # q
        PROVE  GoneInvOf(q)'
    <2>1. Calms(q) /\ UNCHANGED <<api, idx>> /\ pc'[q] = pc[q]
      BY <1>0, <1>3, CalmSteps DEF Sync, Goto, TypeOK, PcTypeOK
    <2> QED  BY <1>0, <2>1, GoneQuiet
  <1>4. ASSUME NEW p \in Pods, NEW a \in Pollers, Poll(a, p)
        PROVE  GoneInvOf(q)'
    <2>1. Calms(q) /\ UNCHANGED <<api, idx>>
      BY <1>4, CalmSteps DEF Poll
    <2>2. pc'[q] = pc[q]
      BY <1>0, <1>4, ActorAssumption DEF Poll, Goto, TypeOK, PcTypeOK
    <2> QED  BY <1>0, <2>1, <2>2, GoneQuiet
  <1>5. ASSUME NEW a \in Actors, GetPodStep(a)
        PROVE  GoneInvOf(q)'
    BY <1>5, GoneGetPod
  <1>6. ASSUME NEW p \in Pods, CreatePodStep(p) \/ DeletePodStep(p)
        PROVE  GoneInvOf(q)'
    BY <1>6, GoneCreatePod, GoneDeletePod
  <1>7. ASSUME NEW u \in Unit, Systemd(u)
        PROVE  GoneInvOf(q)'
    BY <1>0, <1>7, CalmSteps, GoneQuiet DEF Systemd
  <1>8. CASE Restart
    <2>1. Calms(q) /\ api' = api /\ pc'[q] = "idle"
      BY <1>0, <1>8, CalmSteps DEF Restart
    <2> QED  BY <1>0, <2>1 DEF GoneInvOf, Calms, Quiet, Unlinked
  <1>9. CASE UNCHANGED vars
    BY <1>0, <1>9, CalmSteps, GoneQuiet DEF vars, umVars
  <1> QED  BY <1>0, <1>1, <1>2, <1>3, <1>4, <1>5, <1>6, <1>7, <1>8, <1>9
           DEF Next, Worker, Panic, Crash

\* A pod that is gone from the API server has no unit that systemd links to,
\* that runs or that will be started, for any number of pods and containers,
\* any other failures, crashes and concurrent GetPod calls; the assumption
\* excludes failing StopUnit and DisableUnitFiles calls.
THEOREM DeletedPodIsGone ==
    ASSUME NoStopFaults
    PROVE  Spec => []DeletedIsGone
  <1>1. Init => GoneInv /\ IdxInv
    <2> SUFFICES ASSUME Init, NEW p \in Pods
                 PROVE  GoneInvOf(p) /\ IdxInvOf(p)
      BY DEF GoneInv, IdxInv
    <2>1. Quiet(p) /\ Unlinked(p)
      BY UnitsOfPods DEF Init, UMInit, Quiet, Unlinked, Live
    <2>2. pc[p] = "idle" /\ idx[p] = 1
      BY DEF Init, Actors
    <2> QED  BY <2>1, <2>2 DEF GoneInvOf, IdxInvOf
  <1>2. TypeOK /\ GoneInv /\ IdxInv /\ [Next]_vars => (GoneInv /\ IdxInv)'
    BY GoneNext, IdxNext
  <1>3. GoneInv => DeletedIsGone
    BY UnitsOfPods DEF GoneInv, GoneInvOf, Quiet, Unlinked, DeletedIsGone
  <1> QED  BY <1>1, <1>2, <1>3, TypeCorrect, PTL DEF Spec
=============================================================================
