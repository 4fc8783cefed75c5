--------------------------- MODULE PodOrderProofs ---------------------------
(* The action properties of PodLifecycle: CreatePod writes over no live    *)
(* unit, and main containers wait for the init containers.  Both are about *)
(* pods nobody but their own worker looks at, see Undisturbed.             *)
EXTENDS PodLifecycleProofs

\* No GetPod beside the worker, which could remove a unit it read while
\* CreatePod was writing it; ListUnits does not fail, which GetPod reads as "no
\* such pod"; Load and StopUnit do not fail, after which units of one pod are
\* live while others have no complete file.
Undisturbed == Pollers = {} /\ FaultKinds \cap {"list", "load", "stop"} = {}

\* GetPod has decided to remove a unit, or CreatePod has not started one yet.
BeforeStart == {"healStop", "healUnload", "healReload", "install", "load", "write",
                "enable"}
Unloading == {"unload", "reload", "clean"}

\* What the worker does before it starts units and after it stopped them, it
\* does to units that are not live; so are those without a complete file.
QuietInvOf(p) ==
    /\ pc[p] \in BeforeStart \cup Unloading => Quiet(p)
    /\ pc[p] = "read" /\ (\E u \in UnitsOf(p) : view[p][u] = "bare") => Quiet(p)
    /\ (\E u \in UnitsOf(p) : file[u] # "whole") => Quiet(p)

\* How far the loops that stop and start units have come.
IndexInvOf(p) ==
    /\ pc[p] = "stop" => \A u \in UnitsOf(p) : u[2] < idx[p] => state[u] \notin Live
    /\ pc[p] = "start" => \A u \in UnitsOf(p) : u[2] >= idx[p] => state[u] \notin Live

\* How far Load has come.
LoadedInvOf(p) ==
    /\ pc[p] \in {"install", "load", "write", "enable"} =>
          \A u \in UnitsOf(p) : u[2] < idx[p] => file[u] = "whole" /\ linked[u]
    /\ pc[p] = "enable" => \A u \in UnitsOf(p) : u[2] = idx[p] => file[u] = "whole"
    /\ pc[p] = "start" => \A u \in UnitsOf(p) : file[u] = "whole" /\ linked[u]

\* A worker sees units of its own pod only.
ViewInvOf(p) == \A u \in Unit : view[p][u] # "unlisted" => u \in UnitsOf(p)

RewriteInvOf(p) == QuietInvOf(p) /\ IndexInvOf(p) /\ LoadedInvOf(p) /\ ViewInvOf(p)
RewriteInv == \A p \in Pods : RewriteInvOf(p)

\* The files of the pod, and what its worker knows, stay as they are.
KeepsFiles(p) == \A u \in UnitsOf(p) : file'[u] = file[u] /\ linked'[u] = linked[u]
KeepsPlace(p) == pc'[p] = pc[p] /\ idx'[p] = idx[p] /\ view'[p] = view[p]

LEMMA RewriteStill ==
    ASSUME NEW q \in Pods, RewriteInvOf(q), Calms(q), KeepsFiles(q), KeepsPlace(q)
    PROVE  RewriteInvOf(q)'
  <1>1. Quiet(q) => Quiet(q)'
    BY DEF Calms, Quiet, UnitsOf
  <1>2. QuietInvOf(q)'
    BY <1>1 DEF RewriteInvOf, QuietInvOf, KeepsFiles, KeepsPlace, UnitsOf
  <1>3. IndexInvOf(q)'
    BY DEF RewriteInvOf, IndexInvOf, KeepsPlace, Calms, UnitsOf
  <1>4. LoadedInvOf(q)'
    BY DEF RewriteInvOf, LoadedInvOf, KeepsFiles, KeepsPlace, UnitsOf
  <1>5. ViewInvOf(q)'
    BY DEF RewriteInvOf, ViewInvOf, KeepsPlace, UnitsOf, Unit
  <1> QED  BY <1>2, <1>3, <1>4, <1>5 DEF RewriteInvOf

-----------------------------------------------------------------------------
(* A worker leaves the other pods alone; Reload only makes their units     *)
(* known to systemd.                                                       *)

Rests(q) ==
    /\ KeepsFiles(q)
    /\ \A u \in UnitsOf(q) : state'[u] = state[u] \/ (state[u] = "unloaded" /\ state'[u] = "dead")

LEMMA RestsIsCalm == ASSUME NEW q \in Pods, Rests(q) PROVE Calms(q)
  BY DEF Rests, KeepsFiles, Calms, Live

\* The operations of the unit manager and of systemd change one unit.
LEMMA OtherUnits ==
    ASSUME TypeOK, NEW q \in Pods, NEW u \in Unit, u \notin UnitsOf(q),
           \/ WriteUnitBegin(u) \/ WriteUnitEnd(u) \/ EnableUnit(u)
           \/ RemoveUnit(u, TRUE) \/ RemoveUnit(u, FALSE)
           \/ TriggerStart(u) \/ TriggerStop(u) \/ SystemdStep(u)
    PROVE  Rests(q)
  <1>1. /\ file' = file \/ \E f : file' = [file EXCEPT ![u] = f]
        /\ linked' = linked \/ \E l : linked' = [linked EXCEPT ![u] = l]
        /\ state' = state \/ \E s : state' = [state EXCEPT ![u] = s]
    <2>1. CASE WriteUnitBegin(u) \/ WriteUnitEnd(u) \/ EnableUnit(u)
      BY <2>1 DEF WriteUnitBegin, WriteUnitEnd, EnableUnit
    <2>2. CASE RemoveUnit(u, TRUE) \/ RemoveUnit(u, FALSE)
      BY <2>2 DEF RemoveUnit
    <2>3. CASE TriggerStart(u) \/ TriggerStop(u)
      BY <2>3 DEF TriggerStart, TriggerStop
    <2>4. CASE SystemdStep(u)
      BY <2>4 DEF SystemdStep, StartJobRuns, ProcessExits, StopJobEnds, Collected
    <2> QED  BY <2>1, <2>2, <2>3, <2>4
  <1> QED  BY <1>1, UnitsOfPods DEF Rests, KeepsFiles, TypeOK, UMTypeOK

LEMMA RestingSteps ==
    ASSUME TypeOK, NEW q \in Pods
    PROVE  (UNCHANGED umVars => Rests(q)) /\ (Reload => Rests(q))
  <1>1. UNCHANGED umVars => Rests(q)
    BY DEF umVars, Rests, KeepsFiles
  <1>2. Reload => Rests(q)
    BY UnitsOfPods DEF Reload, Rests, KeepsFiles
  <1> QED  BY <1>1, <1>2

LEMMA OthersRest ==
    ASSUME TypeOK, NEW p \in Pods, NEW q \in Pods, q # p, ViewInvOf(p), Worker(p)
    PROVE  Rests(q) /\ KeepsPlace(q) /\ api'[q] = api[q]
  <1>0. /\ p \in Actors /\ q \in Actors
        /\ Current(p) \in Unit /\ Current(p) \notin UnitsOf(q)
    BY CurrentUnit DEF Actors, Current, UnitsOf
  <1>1. CASE Sync(p)
    BY <1>0, <1>1, RestingSteps DEF Sync, Goto, KeepsPlace, TypeOK, PcTypeOK
  <1>2. CASE GetPodStep(p)
    <2>1. Rests(q)
      <3>1. CASE HealStop(p) \/ HealUnload(p)
        <4>1. PICK u \in Unit : view[p][u] = "bare"
                 /\ \/ TriggerStop(u) \/ UNCHANGED umVars
                    \/ RemoveUnit(u, TRUE) \/ RemoveUnit(u, FALSE)
          BY <3>1 DEF HealStop, HealUnload
        <4>2. u \notin UnitsOf(q)
          BY <4>1, UnitsOfPods DEF ViewInvOf
        <4> QED  BY <4>1, <4>2, OtherUnits, RestingSteps
      <3> QED  BY <1>2, <3>1, RestingSteps
               DEF GetPodStep, ListUnits, Convert, HealReload, ReadUnit, PickBare
    <2>2. pc'[q] = pc[q] /\ view'[q] = view[q]
      <3>1. CASE ListUnits(p) \/ Convert(p) \/ HealReload(p)
        BY <1>0, <3>1 DEF ListUnits, Convert, HealReload, AnswerNil, AnswerPod, Goto, TypeOK,
           PcTypeOK
      <3>2. CASE HealStop(p) \/ HealUnload(p)
        BY <1>0, <3>2 DEF HealStop, HealUnload, Goto, TypeOK, PcTypeOK
      <3>3. CASE \E u \in Unit : ReadUnit(p, u) \/ PickBare(p, u)
        BY <1>0, <3>3 DEF ReadUnit, PickBare, Goto, TypeOK, PcTypeOK
      <3> QED  BY <1>2, <3>1, <3>2, <3>3 DEF GetPodStep
    <2> QED  BY <1>0, <1>2, <2>1, <2>2, GetPodMoves DEF KeepsPlace
  <1>3. CASE CreatePodStep(p)
    <2>1. Rests(q)
      BY <1>0, <1>3, OtherUnits, RestingSteps
      DEF CreatePodStep, Install, LoadBegin, LoadWrite, LoadEnd, Start
    <2>2. UNCHANGED <<view, api>>
      BY <1>3 DEF CreatePodStep, Install, LoadBegin, LoadWrite, LoadEnd, LoadReturns, Start
    <2> QED  BY <1>3, <2>1, <2>2, CreatePodOthers DEF KeepsPlace
  <1>4. CASE DeletePodStep(p)
    <2>1. Rests(q)
      BY <1>0, <1>4, OtherUnits, RestingSteps
      DEF DeletePodStep, Stop, Unload, ReloadAll, Clean
    <2>2. UNCHANGED view
      BY <1>4 DEF DeletePodStep, Stop, Unload, ReloadAll, Clean
    <2> QED  BY <1>4, <2>1, <2>2, DeletePodOthers DEF KeepsPlace
  <1> QED  BY <1>1, <1>2, <1>3, <1>4 DEF Worker

-----------------------------------------------------------------------------
(* The steps of the pod's own worker.                                      *)

\* Nothing of a quiet pod comes to life, whatever becomes of its files.
LEMMA QuietStays ==
    ASSUME NEW q \in Pods, Quiet(q), Calms(q)
    PROVE  Quiet(q)'
  BY DEF Calms, Quiet, UnitsOf

LEMMA RewriteSync ==
    ASSUME TypeOK, NEW q \in Pods, IdxInvOf(q), RewriteInvOf(q), Sync(q)
    PROVE  RewriteInvOf(q)'
  <1>1. /\ pc[q] = "idle" /\ idx'[q] = 1 /\ pc'[q] \in {"list", "stop"}
        /\ UNCHANGED <<umVars, view>>
    BY DEF Sync, Goto, IdxInvOf, LoopPcs, CreatePcs, TypeOK, PcTypeOK, Actors
  <1>2. \A u \in UnitsOf(q) : ~(u[2] < 1)
    BY SpecAssumption DEF UnitsOf, Containers
  <1>3. IndexInvOf(q)'
    BY <1>1, <1>2 DEF IndexInvOf
  <1>4. QuietInvOf(q)' /\ LoadedInvOf(q)' /\ ViewInvOf(q)'
    BY <1>1 DEF RewriteInvOf, QuietInvOf, LoadedInvOf, ViewInvOf, BeforeStart, Unloading, umVars,
       Quiet
  <1> QED  BY <1>3, <1>4 DEF RewriteInvOf

\* GetPod has no unit in view that is not the pod's own.
LEMMA ViewGetPod ==
    ASSUME TypeOK, NEW q \in Pods, RewriteInvOf(q), GetPodStep(q)
    PROVE  ViewInvOf(q)'
  <1>0. q \in Actors /\ subject[q] = q
    BY DEF Actors, TypeOK
  <1>1. CASE view'[q] = NoView
    BY <1>1 DEF ViewInvOf, NoView
  <1>2. CASE view'[q] = view[q]
    BY <1>2 DEF ViewInvOf, RewriteInvOf
  <1>3. CASE view'[q] = Listing(q)
    BY <1>3, UnitsOfPods DEF ViewInvOf, Listing
  <1>4. CASE \E u \in Unit : ReadUnit(q, u)
    BY <1>0, <1>4 DEF ReadUnit, ViewInvOf, RewriteInvOf, TypeOK
  <1>5. CASE \E u \in Unit : PickBare(q, u)
    BY <1>0, <1>5 DEF PickBare, ViewInvOf, RewriteInvOf, TypeOK, NoView
  <1> QED  BY <1>0, <1>1, <1>2, <1>3, <1>4, <1>5
           DEF GetPodStep, ListUnits, Convert, HealStop, HealUnload, HealReload, AnswerNil,
               AnswerPod, TypeOK

\* A goroutine that is in none of the loops has only the quiet of its pod to
\* care for.
LEMMA OutsideLoops ==
    ASSUME NEW q \in Pods, ViewInvOf(q)', QuietInvOf(q)',
           \/ pc'[q] \notin {"install", "load", "write", "enable", "start", "stop"}
           \/ pc'[q] = "install" /\ idx'[q] = 1
    PROVE  RewriteInvOf(q)'
  <1>1. \A u \in UnitsOf(q) : ~(u[2] < 1)
    BY SpecAssumption DEF UnitsOf, Containers
  <1> QED  BY <1>1 DEF RewriteInvOf, IndexInvOf, LoadedInvOf

LEMMA RewriteGetPod ==
    ASSUME Undisturbed, TypeOK, NEW q \in Pods, IdxInvOf(q), RewriteInvOf(q), GetPodStep(q)
    PROVE  RewriteInvOf(q)'
  <1>0. /\ q \in Actors /\ subject[q] = q /\ ViewInvOf(q)'
        /\ pc[q] \in GetPcs => idx'[q] = 1
    BY ViewGetPod, GetPodMoves DEF Actors, TypeOK, IdxInvOf, LoopPcs, GetPcs, CreatePcs
  <1>1. Calms(q)
    BY CalmSteps DEF GetPodStep, ListUnits, Convert, HealStop, HealUnload, HealReload,
       ReadUnit, PickBare
  <1>2. CASE ListUnits(q)
    <2>1. UNCHANGED umVars /\ pc[q] = "list"
      BY <1>2 DEF ListUnits
    <2>2. CASE Listing(q) = NoView /\ AnswerNil(q)
      <3>1. Quiet(q)
        BY <2>2, UnitsOfPods DEF Listing, NoView, Quiet, Live
      <3>2. Quiet(q)' /\ pc'[q] = "install"
        BY <1>0, <1>1, <2>2, <3>1, QuietStays DEF AnswerNil, Goto, TypeOK, PcTypeOK
      <3> QED  BY <1>0, <2>1, <3>2, OutsideLoops DEF QuietInvOf, GetPcs
    <2>3. CASE view'[q] = Listing(q) /\ pc'[q] = "read"
      <3>1. QuietInvOf(q)'
        BY <2>1, <2>3, UnitsOfPods
        DEF RewriteInvOf, QuietInvOf, BeforeStart, Unloading, Listing, umVars, Quiet
      <3> QED  BY <1>0, <2>3, <3>1, OutsideLoops
    <2> QED  BY <1>0, <1>2, <2>2, <2>3
             DEF ListUnits, Undisturbed, Fault, Goto, TypeOK, PcTypeOK
  <1>3. ASSUME NEW u \in Unit, ReadUnit(q, u)
        PROVE  RewriteInvOf(q)'
    <2>1. UNCHANGED <<umVars, pc>> /\ pc[q] = "read"
      BY <1>3 DEF ReadUnit
    <2>2. u \in UnitsOf(q)
      BY <1>3 DEF ReadUnit, RewriteInvOf, ViewInvOf
    <2>3. (\E v \in UnitsOf(q) : view'[q][v] = "bare") => Quiet(q)
      BY <1>0, <1>3, <2>1, <2>2, UnitsOfPods DEF ReadUnit, RewriteInvOf, QuietInvOf, TypeOK
    <2>4. QuietInvOf(q)'
      BY <2>1, <2>3 DEF RewriteInvOf, QuietInvOf, BeforeStart, Unloading, umVars, Quiet
    <2> QED  BY <1>0, <2>1, <2>4, OutsideLoops
  <1>4. ASSUME NEW u \in Unit, PickBare(q, u)
        PROVE  RewriteInvOf(q)'
    <2>1. Quiet(q)
      BY <1>4 DEF PickBare, AllRead, RewriteInvOf, QuietInvOf, ViewInvOf
    <2>2. Quiet(q)' /\ pc'[q] = "healStop"
      BY <1>0, <1>1, <1>4, <2>1, QuietStays DEF PickBare, Goto, TypeOK, PcTypeOK
    <2> QED  BY <1>0, <2>2, OutsideLoops DEF QuietInvOf
  <1>5. CASE Convert(q)
    <2>1. UNCHANGED umVars /\ pc'[q] = "idle"
      BY <1>0, <1>5 DEF Convert, AnswerPod, Goto, TypeOK, PcTypeOK
    <2>2. QuietInvOf(q)'
      BY <2>1 DEF RewriteInvOf, QuietInvOf, BeforeStart, Unloading, umVars, Quiet
    <2> QED  BY <1>0, <2>1, <2>2, OutsideLoops
  <1>6. CASE HealStop(q) \/ HealUnload(q) \/ HealReload(q)
    <2>1. /\ pc[q] \in {"healStop", "healUnload", "healReload"}
          /\ pc'[q] \in {"healUnload", "healReload", "install"}
      BY <1>0, <1>6 DEF HealStop, HealUnload, HealReload, AnswerNil, Goto, TypeOK, PcTypeOK
    <2>2. Quiet(q)'
      BY <1>1, <2>1, QuietStays DEF RewriteInvOf, QuietInvOf, BeforeStart
    <2> QED  BY <1>0, <2>1, <2>2, OutsideLoops DEF QuietInvOf, GetPcs
  <1> QED  BY <1>2, <1>3, <1>4, <1>5, <1>6 DEF GetPodStep

LEMMA RewriteCreatePod ==
    ASSUME Undisturbed, TypeOK, NEW q \in Pods, RewriteInvOf(q), CreatePodStep(q)
    PROVE  RewriteInvOf(q)'
  <1>0. q \in Actors /\ Current(q) \in Unit /\ Current(q) \in UnitsOf(q)
    BY CurrentUnit DEF Actors, Current, UnitsOf, TypeOK
  <1>1. ViewInvOf(q)'
    BY DEF CreatePodStep, Install, LoadBegin, LoadWrite, LoadEnd, Start, RewriteInvOf, ViewInvOf
  <1>2. \A u \in UnitsOf(q) : /\ u[2] \in 1..(NumInit + NumMain)
                              /\ u \in Unit
                              /\ u[2] = idx[q] => u = Current(q)
    BY UnitsOfPods DEF UnitsOf, Containers, Current
  <1>3. idx[q] \in 1..(NumInit + NumMain) /\ NumInit + NumMain \in Nat
    BY SpecAssumption DEF TypeOK, Containers
  <1>4. CASE Install(q)
    <2>1. /\ UNCHANGED umVars /\ pc[q] = "install"
          /\ \/ pc'[q] = "load" /\ idx'[q] = idx[q]
             \/ pc'[q] = "idle"
      BY <1>0, <1>4 DEF Install, Goto, TypeOK, PcTypeOK
    <2>2. QuietInvOf(q)'
      BY <2>1 DEF RewriteInvOf, QuietInvOf, BeforeStart, umVars, Quiet
    <2>3. IndexInvOf(q)' /\ LoadedInvOf(q)'
      BY <2>1 DEF RewriteInvOf, IndexInvOf, LoadedInvOf, umVars
    <2> QED  BY <1>1, <2>2, <2>3 DEF RewriteInvOf
  <1>5. CASE LoadBegin(q)
    <2>1. /\ file' = [file EXCEPT ![Current(q)] = "empty"]
          /\ UNCHANGED <<linked, state, idx>> /\ pc[q] = "load" /\ pc'[q] = "write"
      BY <1>0, <1>5 DEF LoadBegin, WriteUnitBegin, Goto, TypeOK, PcTypeOK
    <2>2. Quiet(q)'
      BY <2>1 DEF RewriteInvOf, QuietInvOf, BeforeStart, Quiet
    <2>3. \A u \in UnitsOf(q) : u[2] < idx'[q] => file'[u] = "whole" /\ linked'[u]
      <3>1. \A u \in UnitsOf(q) : u[2] < idx[q] => u # Current(q)
        BY <1>3 DEF Current
      <3> QED  BY <1>2, <2>1, <3>1 DEF RewriteInvOf, LoadedInvOf, TypeOK, UMTypeOK
    <2> QED  BY <1>1, <2>1, <2>2, <2>3 DEF RewriteInvOf, QuietInvOf, IndexInvOf, LoadedInvOf
  <1>6. CASE LoadWrite(q)
    <2>1. /\ file' = [file EXCEPT ![Current(q)] = "whole"]
          /\ UNCHANGED <<linked, state, idx>> /\ pc[q] = "write" /\ pc'[q] = "enable"
      BY <1>0, <1>6 DEF LoadWrite, WriteUnitEnd, Undisturbed, Fault, Goto, TypeOK, PcTypeOK
    <2>2. Quiet(q)'
      BY <2>1 DEF RewriteInvOf, QuietInvOf, BeforeStart, Quiet
    <2>3. \A u \in UnitsOf(q) : u[2] < idx'[q] => file'[u] = "whole" /\ linked'[u]
      BY <1>0, <1>2, <2>1 DEF RewriteInvOf, LoadedInvOf, TypeOK, UMTypeOK
    <2>4. \A u \in UnitsOf(q) : u[2] = idx'[q] => file'[u] = "whole"
      BY <1>0, <1>2, <2>1 DEF TypeOK, UMTypeOK
    <2> QED  BY <1>1, <2>1, <2>2, <2>3, <2>4 DEF RewriteInvOf, QuietInvOf, IndexInvOf, LoadedInvOf
  <1>7. CASE LoadEnd(q)
    <2>1. /\ file' = file /\ file[Current(q)] = "whole"
          /\ linked' = [linked EXCEPT ![Current(q)] = TRUE]
          /\ state' = state /\ pc[q] = "enable"
      BY <1>0, <1>7 DEF LoadEnd, EnableUnit, Undisturbed, Fault, RewriteInvOf, LoadedInvOf, Current
    <2>2. Quiet(q)'
      BY <2>1 DEF RewriteInvOf, QuietInvOf, BeforeStart, Quiet
    <2>3. \A u \in UnitsOf(q) : u[2] <= idx[q] => file'[u] = "whole" /\ linked'[u]
      <3>1. \A u \in UnitsOf(q) : u[2] < idx[q] \/ u = Current(q)
                                  => file'[u] = "whole" /\ linked'[u]
        BY <1>0, <1>2, <2>1 DEF RewriteInvOf, LoadedInvOf, TypeOK, UMTypeOK
      <3> QED  BY <1>2, <1>3, <3>1
    <2>4. CASE idx[q] = NumInit + NumMain /\ pc'[q] = "start"
      <3>1. \A u \in UnitsOf(q) : u[2] <= idx[q]
        BY <1>2, <2>4
      <3>2. IndexInvOf(q)' /\ LoadedInvOf(q)'
        BY <2>2, <2>3, <2>4, <3>1 DEF IndexInvOf, LoadedInvOf, Quiet, UnitsOf
      <3> QED  BY <1>1, <2>2, <3>2 DEF RewriteInvOf, QuietInvOf
    <2>5. CASE idx'[q] = idx[q] + 1 /\ pc'[q] = "install"
      <3>1. \A u \in UnitsOf(q) : u[2] < idx'[q] => u[2] <= idx[q]
        BY <1>2, <1>3, <2>5
      <3>2. IndexInvOf(q)' /\ LoadedInvOf(q)'
        BY <2>3, <2>5, <3>1 DEF IndexInvOf, LoadedInvOf
      <3> QED  BY <1>1, <2>2, <3>2 DEF RewriteInvOf, QuietInvOf
    <2> QED  BY <1>0, <1>7, <2>4, <2>5
             DEF LoadEnd, LoadReturns, AfterLastLoad, Goto, TypeOK, PcTypeOK
  <1>8. CASE Start(q)
    <2>1. /\ UNCHANGED <<file, linked>> /\ pc[q] = "start"
          /\ \A u \in Unit : u # Current(q) => state'[u] = state[u]
      BY <1>0, <1>8 DEF Start, TriggerStart, umVars, TypeOK, UMTypeOK
    <2>2. \A u \in UnitsOf(q) : file'[u] = "whole" /\ linked'[u]
      BY <2>1 DEF RewriteInvOf, LoadedInvOf
    <2>3. CASE pc'[q] = "idle"
      BY <1>1, <2>2, <2>3
      DEF RewriteInvOf, QuietInvOf, IndexInvOf, LoadedInvOf, BeforeStart, Unloading, UnitsOf
    <2>4. CASE pc'[q] = "start" /\ idx'[q] = idx[q] + 1
      <3>1. \A u \in UnitsOf(q) : u[2] >= idx'[q] => u[2] >= idx[q] /\ u[2] # idx[q]
        BY <1>2, <1>3, <2>4
      <3>2. \A u \in UnitsOf(q) : u[2] >= idx'[q] => state'[u] \notin Live
        BY <1>2, <2>1, <3>1 DEF RewriteInvOf, IndexInvOf, Current
      <3> QED  BY <1>1, <2>2, <2>4, <3>2
               DEF RewriteInvOf, QuietInvOf, IndexInvOf, LoadedInvOf, BeforeStart, Unloading,
                   UnitsOf
    <2> QED  BY <1>8, <2>1, <2>3, <2>4, LoopSelf DEF Start
  <1> QED  BY <1>4, <1>5, <1>6, <1>7, <1>8 DEF CreatePodStep

LEMMA RewriteDeletePod ==
    ASSUME Undisturbed, TypeOK, NEW q \in Pods, RewriteInvOf(q), DeletePodStep(q)
    PROVE  RewriteInvOf(q)'
  <1>0. q \in Actors /\ Current(q) \in Unit
    BY CurrentUnit DEF Actors
  <1>1. ViewInvOf(q)'
    BY DEF DeletePodStep, Stop, Unload, ReloadAll, Clean, RewriteInvOf, ViewInvOf
  <1>2. Calms(q)
    BY <1>0, CalmSteps DEF DeletePodStep, Stop, Unload, ReloadAll, Clean
  <1>3. CASE Stop(q)
    <2>1. pc[q] = "stop" /\ TriggerStop(Current(q))
      BY <1>3 DEF Stop, Undisturbed, Fault
    <2>2. state'[Current(q)] \notin Live
      <3>1. AfterStop(state[Current(q)]) \notin Live
        BY <1>0 DEF AfterStop, Live, TypeOK, UMTypeOK, UnitState
      <3> QED  BY <1>0, <2>1, <3>1 DEF TriggerStop, TypeOK, UMTypeOK
    <2>3. \A u \in UnitsOf(q) : u[2] \in 1..(NumInit + NumMain)
                                /\ (u[2] = idx[q] => u = Current(q))
      BY DEF UnitsOf, Containers, Current
    <2>4. idx[q] \in 1..(NumInit + NumMain) /\ NumInit + NumMain \in Nat
      BY SpecAssumption DEF TypeOK, Containers
    <2>5. \A u \in UnitsOf(q) : u[2] <= idx[q] => state'[u] \notin Live
      <3>1. \A u \in UnitsOf(q) : u[2] < idx[q] \/ u = Current(q) => state'[u] \notin Live
        BY <1>2, <2>1, <2>2 DEF RewriteInvOf, IndexInvOf, Calms
      <3> QED  BY <2>3, <2>4, <3>1
    <2>6. CASE idx[q] = NumInit + NumMain /\ pc'[q] = "unload"
      <3>1. Quiet(q)'
        BY <2>3, <2>5, <2>6 DEF Quiet, UnitsOf
      <3> QED  BY <1>1, <2>6, <3>1 DEF RewriteInvOf, QuietInvOf, IndexInvOf, LoadedInvOf
    <2>7. CASE pc'[q] = "stop" /\ idx'[q] = idx[q] + 1
      <3>1. \A u \in UnitsOf(q) : u[2] < idx'[q] => u[2] <= idx[q]
        BY <2>3, <2>4, <2>7
      <3>2. QuietInvOf(q)'
        BY <1>2, <2>1, <2>7, QuietStays
        DEF RewriteInvOf, QuietInvOf, TriggerStop, BeforeStart, Unloading, UnitsOf
      <3> QED  BY <1>1, <2>5, <2>7, <3>1, <3>2 DEF RewriteInvOf, IndexInvOf, LoadedInvOf
    <2> QED  BY <1>3, <2>1, <2>6, <2>7, LoopSelf DEF Stop
  <1>4. CASE Unload(q) \/ ReloadAll(q) \/ Clean(q)
    <2>1. pc[q] \in Unloading /\ pc'[q] \in {"unload", "reload", "clean", "idle"}
      BY <1>0, <1>4, LoopSelf DEF Unload, ReloadAll, Clean, Goto, Unloading, TypeOK, PcTypeOK
    <2>2. Quiet(q)'
      BY <1>2, <2>1, QuietStays DEF RewriteInvOf, QuietInvOf
    <2> QED  BY <1>1, <2>1, <2>2, OutsideLoops DEF QuietInvOf
  <1> QED  BY <1>3, <1>4 DEF DeletePodStep

LEMMA RewriteRestart ==
    ASSUME NEW q \in Pods, RewriteInvOf(q), Restart
    PROVE  RewriteInvOf(q)'
  <1>1. UNCHANGED umVars /\ pc'[q] = "idle" /\ view'[q] = NoView
    BY DEF Restart, Actors
  <1>2. ViewInvOf(q)'
    BY <1>1 DEF ViewInvOf, NoView
  <1>3. QuietInvOf(q)'
    BY <1>1 DEF RewriteInvOf, QuietInvOf, BeforeStart, Unloading, umVars, Quiet
  <1> QED  BY <1>1, <1>2, <1>3, OutsideLoops

LEMMA RewriteNext ==
    ASSUME Undisturbed, TypeOK, IdxInv, RewriteInv, [Next]_vars
    PROVE  RewriteInv'
  <1> SUFFICES ASSUME NEW q \in Pods
               PROVE  RewriteInvOf(q)'
    BY DEF RewriteInv
  <1>0. /\ Pods \subseteq Actors /\ Actors = Pods
        /\ IdxInvOf(q) /\ RewriteInvOf(q)
    BY DEF Actors, IdxInv, RewriteInv, Undisturbed
  <1>1. ASSUME NEW p \in Pods, ApiCreate(p) \/ ApiDelete(p)
        PROVE  RewriteInvOf(q)'
    BY <1>0, <1>1, CalmSteps, RewriteStill
    DEF ApiCreate, ApiDelete, KeepsFiles, KeepsPlace, umVars
  <1>2. ASSUME NEW p \in Pods, p # q, Worker(p)
        PROVE  RewriteInvOf(q)'
    <2>1. Rests(q) /\ KeepsPlace(q)
      BY <1>2, OthersRest DEF RewriteInv, RewriteInvOf
    <2> QED  BY <1>0, <2>1, RestsIsCalm, RewriteStill DEF Rests
  <1>3. CASE Worker(q)
    BY <1>0, <1>3, RewriteSync, RewriteGetPod, RewriteCreatePod, RewriteDeletePod DEF Worker
  <1>4. ASSUME NEW u \in Unit, Systemd(u)
        PROVE  RewriteInvOf(q)'
    <2>1. KeepsFiles(q) /\ KeepsPlace(q)
      BY <1>4 DEF Systemd, SystemdStep, StartJobRuns, ProcessExits, StopJobEnds, Collected,
                  KeepsFiles, KeepsPlace
    <2> QED  BY <1>0, <1>4, <2>1, CalmSteps, RewriteStill DEF Systemd
  <1>5. CASE Restart
    BY <1>0, <1>5, RewriteRestart
  <1>6. CASE UNCHANGED vars
    BY <1>0, <1>6, CalmSteps, RewriteStill DEF vars, umVars, KeepsFiles, KeepsPlace
  <1> QED  BY <1>0, <1>1, <1>2, <1>3, <1>4, <1>5, <1>6 DEF Next, Panic, Crash, Undisturbed

LEMMA RewriteInit == Init => RewriteInv /\ IdxInv
  <1> SUFFICES ASSUME Init, NEW p \in Pods
               PROVE  RewriteInvOf(p) /\ IdxInvOf(p)
    BY DEF RewriteInv, IdxInv
  <1>1. pc[p] = "idle" /\ idx[p] = 1 /\ view[p] = NoView
    BY DEF Init, Actors
  <1>2. Quiet(p)
    BY UnitsOfPods DEF Init, UMInit, Quiet, Live
  <1> QED  BY <1>1, <1>2 DEF RewriteInvOf, QuietInvOf, IndexInvOf, LoadedInvOf, ViewInvOf, NoView,
              IdxInvOf

\* Only Load empties a file, and it is under way when it does.
LEMMA OnlyLoadEmpties ==
    ASSUME Undisturbed, TypeOK, Next, NEW u \in Unit, file'[u] = "empty", file[u] # "empty"
    PROVE  pc[u[1]] = "load"
  <1>0. Actors = Pods
    BY DEF Undisturbed, Actors
  <1>1. ASSUME NEW p \in Pods, CreatePodStep(p)
        PROVE  pc[u[1]] = "load"
    <2>1. CASE LoadBegin(p)
      <3>1. u = Current(p)
        BY <2>1 DEF LoadBegin, WriteUnitBegin, TypeOK, UMTypeOK
      <3> QED  BY <2>1, <3>1 DEF LoadBegin, Current
    <2>2. CASE LoadWrite(p) \/ LoadEnd(p)
      BY <2>2 DEF LoadWrite, LoadEnd, WriteUnitEnd, EnableUnit, Undisturbed, Fault, TypeOK, UMTypeOK
    <2> QED  BY <1>1, <2>1, <2>2 DEF CreatePodStep, Install, Start, TriggerStart, umVars
  <1>2. ASSUME NEW p \in Pods, GetPodStep(p) \/ DeletePodStep(p)
        PROVE  FALSE
    <2>1. \/ file' = file
          \/ \E v \in Unit : file' = [file EXCEPT ![v] = "absent"]
      <3>1. CASE HealUnload(p) \/ Unload(p)
        BY <3>1, CurrentUnit DEF HealUnload, Unload, RemoveUnit, FileAfterRemove
      <3> QED  BY <1>2, <3>1
               DEF GetPodStep, ListUnits, Convert, HealStop, HealReload, ReadUnit, PickBare,
                   DeletePodStep, Stop, ReloadAll, Clean, TriggerStop, Reload, umVars
    <2> QED  BY <2>1 DEF TypeOK, UMTypeOK
  <1>3. ASSUME NEW v \in Unit, Systemd(v)
        PROVE  FALSE
    BY <1>3 DEF Systemd, SystemdStep, StartJobRuns, ProcessExits, StopJobEnds, Collected
  <1>4. \/ \E p \in Pods : ApiCreate(p) \/ ApiDelete(p) \/ Sync(p)
        \/ Restart
        => FALSE
    BY DEF ApiCreate, ApiDelete, Sync, Restart, umVars
  <1> QED  BY <1>0, <1>1, <1>2, <1>3, <1>4 DEF Next, Worker, Panic, Crash, Undisturbed

\* CreatePod never writes over the unit file of a container that is live, for
\* any number of pods and containers, although systemk may be killed, and
\* installations, start and disable calls may fail, at any time.
THEOREM LiveUnitsAreLeftAlone ==
    ASSUME Undisturbed
    PROVE  Spec => NoRewriteOfLiveUnit
  <1> DEFINE Leaves == \A u \in Unit : state[u] \in Live
                          => ~(file'[u] = "empty" /\ file[u] # "empty")
  <1>1. TypeOK /\ RewriteInv /\ [Next]_vars => [Leaves]_vars
    <2> SUFFICES ASSUME TypeOK, RewriteInv, Next, NEW u \in Unit, state[u] \in Live,
                        file'[u] = "empty", file[u] # "empty"
                 PROVE  FALSE
      OBVIOUS
    <2>1. u[1] \in Pods /\ u \in UnitsOf(u[1])
      BY UnitsOfPods
    <2>2. Quiet(u[1])
      BY <2>1, OnlyLoadEmpties DEF RewriteInv, RewriteInvOf, QuietInvOf, BeforeStart
    <2> QED  BY <2>1, <2>2 DEF Quiet
  <1>2. TypeOK /\ IdxInv /\ RewriteInv /\ [Next]_vars => (IdxInv /\ RewriteInv)'
    BY RewriteNext, IdxNext
  <1> QED  BY <1>1, <1>2, RewriteInit, TypeCorrect, PTL DEF Spec, NoRewriteOfLiveUnit

-----------------------------------------------------------------------------
(* Main containers wait for the init containers.  The units of a pod are   *)
(* started in order, so that each one before a live unit has been started, *)
(* and each one that has left the queue has found its predecessor over.    *)

\* Every unit that is to be started is: a unit that is not leaves those after
\* it nothing to wait for.
EveryStartIsMade == Undisturbed /\ "start" \notin FaultKinds

\* What becomes of a unit that was started, until it is stopped.
Begun == {"queued", "starting", "running", "restarting", "exited", "failed"}
Waiting == {"queued", "restarting"}
Over(u) == state[u] \in {"exited", "failed"}

\* The worker has started the unit since the pod was quiet.
Called(p, u) ==
    \/ pc[p] = "start" /\ u[2] < idx[p]
    \/ \E v \in UnitsOf(p) : v[2] >= u[2] /\ state[v] \in Live

InitsOver(p, u) == \A v \in UnitsOf(p) : IsInit(v) /\ v[2] < u[2] => Over(v)

OrderInvOf(p) ==
    api[p] # "deleting" =>
        \A u \in UnitsOf(p) : Called(p, u) =>
            /\ state[u] \in Begun
            /\ state[u] \notin Waiting => InitsOver(p, u)

\* An init container is a oneshot, which systemd calls starting while it runs.
InitsStart == \A u \in Unit : IsInit(u) => state[u] # "running"

DeletesOnRequest == \A p \in Pods : pc[p] \in DeletePcs => api[p] = "deleting"

OrderInv == InitsStart /\ DeletesOnRequest /\ \A p \in Pods : OrderInvOf(p)

LEMMA UnitIndex ==
    ASSUME NEW p \in Pods, NEW u \in UnitsOf(p)
    PROVE  /\ u[2] \in 1..(NumInit + NumMain) /\ u \in Unit
           /\ \A v \in UnitsOf(p) : v[2] = u[2] => v = u
  BY UnitsOfPods DEF UnitsOf, Containers

\* When the predecessor of a unit is over, so are all init containers before it.
LEMMA Predecessors ==
    ASSUME TypeOK, InitsStart, NEW p \in Pods, OrderInvOf(p), api[p] # "deleting",
           NEW u \in UnitsOf(p), Called(p, u), \A v \in After(u) : state[v] \notin Pending
    PROVE  InitsOver(p, u)
  <1> SUFFICES ASSUME NEW v \in UnitsOf(p), IsInit(v), v[2] < u[2]
               PROVE  Over(v)
    BY DEF InitsOver
  <1> DEFINE m == LastInitBefore(u[2])
             last == <<p, m>>
  <1>1. /\ NumInit \in Nat /\ NumMain \in Nat
        /\ u[2] \in 1..(NumInit + NumMain) /\ v[2] \in 1..(NumInit + NumMain)
    BY UnitIndex, SpecAssumption
  <1>2. v[2] <= NumInit
    BY DEF IsInit
  <1>3. m \in 1..(NumInit + NumMain) /\ m <= NumInit /\ m < u[2] /\ v[2] <= m
    BY <1>1, <1>2 DEF LastInitBefore
  <1>4. /\ last \in UnitsOf(p) /\ last \in Unit /\ last[2] = m /\ IsInit(last)
        /\ last \in After(u)
    BY <1>3, UnitsOfPods DEF UnitsOf, Containers, IsInit, After
  <1> HIDE DEF m, last
  <1>5. Called(p, last)
    <2>1. CASE pc[p] = "start" /\ u[2] < idx[p]
      <3>1. idx[p] \in Int
        BY DEF TypeOK, Containers
      <3> QED  BY <1>1, <1>3, <1>4, <2>1, <3>1 DEF Called
    <2>2. CASE \E w \in UnitsOf(p) : w[2] >= u[2] /\ state[w] \in Live
      <3>1. PICK w \in UnitsOf(p) : w[2] >= u[2] /\ state[w] \in Live
        BY <2>2
      <3>2. w[2] >= last[2]
        BY <1>1, <1>3, <1>4, <3>1, UnitIndex
      <3> QED  BY <3>1, <3>2 DEF Called
    <2> QED  BY <2>1, <2>2 DEF Called
  <1>6. Over(last) /\ state[last] \notin Waiting
    BY <1>4, <1>5 DEF OrderInvOf, InitsStart, Begun, Waiting, Pending, Over
  <1>7. CASE v[2] = m
    BY <1>4, <1>6, <1>7, UnitIndex
  <1>8. CASE v[2] < m
    BY <1>4, <1>5, <1>6, <1>8 DEF OrderInvOf, InitsOver
  <1> QED  BY <1>1, <1>3, <1>7, <1>8

\* Nothing of the pod is started, and its units stay what they are.
LEMMA OrderStill ==
    ASSUME NEW q \in Pods, OrderInvOf(q), api[q] # "deleting" \/ api'[q] = "deleting",
           \A u \in UnitsOf(q) :
               state'[u] = state[u] \/ (state[u] = "unloaded" /\ state'[u] = "dead"),
           pc'[q] = "start" => pc[q] = "start" /\ idx'[q] = idx[q]
    PROVE  OrderInvOf(q)'
  <1> SUFFICES ASSUME api'[q] # "deleting", NEW u \in UnitsOf(q), Called(q, u)'
               PROVE  /\ state'[u] \in Begun
                      /\ state'[u] \notin Waiting => InitsOver(q, u)'
    BY DEF OrderInvOf, UnitsOf
  <1>1. \A v \in UnitsOf(q) : state'[v] \in Live => state[v] \in Live
    BY DEF Live
  <1>2. Called(q, u)
    BY <1>1 DEF Called, UnitsOf
  <1>3. state[u] \in Begun /\ (state[u] \notin Waiting => InitsOver(q, u))
    BY <1>2 DEF OrderInvOf
  <1>4. state'[u] = state[u]
    BY <1>3 DEF Begun
  <1>5. InitsOver(q, u) => InitsOver(q, u)'
    BY DEF InitsOver, Over, UnitsOf, IsInit
  <1> QED  BY <1>3, <1>4, <1>5

\* Of a quiet pod nothing has been started.
LEMMA OrderQuiet ==
    ASSUME NEW q \in Pods, Quiet(q)', pc'[q] = "start" => idx'[q] = 1
    PROVE  OrderInvOf(q)'
  <1>1. \A u \in UnitsOf(q) : ~(u[2] < 1)
    BY SpecAssumption DEF UnitsOf, Containers
  <1> QED  BY <1>1 DEF OrderInvOf, Called, Quiet, UnitsOf

\* A start job begins to run when the unit's predecessor is not pending.
LEMMA OnlyJobsRun ==
    ASSUME TypeOK, Next, NEW u \in Unit, state'[u] = "running", state[u] # "running"
    PROVE  StartJobRuns(u) /\ ~IsInit(u)
  <1>1. ASSUME NEW v \in Unit, TriggerStart(v) \/ TriggerStop(v)
        PROVE  FALSE
    BY <1>1 DEF TriggerStart, TriggerStop, AfterStart, AfterStop, TypeOK, UMTypeOK
  <1>2. ASSUME NEW v \in Unit, RemoveUnit(v, TRUE) \/ RemoveUnit(v, FALSE)
        PROVE  FALSE
    BY <1>2 DEF RemoveUnit, ResetFailed, TypeOK, UMTypeOK
  <1>3. Reload => FALSE
    BY DEF Reload
  <1>4. ASSUME NEW v \in Unit, Systemd(v)
        PROVE  StartJobRuns(u) /\ ~IsInit(u)
    <2>1. v = u
      BY <1>4 DEF Systemd, SystemdStep, StartJobRuns, ProcessExits, StopJobEnds, Collected,
                  TypeOK, UMTypeOK
    <2>2. CASE StartJobRuns(u)
      BY <2>2 DEF StartJobRuns, TypeOK, UMTypeOK
    <2>3. CASE ProcessExits(u) \/ StopJobEnds(u) \/ Collected(u)
      BY <2>3 DEF ProcessExits, StopJobEnds, Collected, TypeOK, UMTypeOK
    <2> QED  BY <1>4, <2>1, <2>2, <2>3 DEF Systemd, SystemdStep
  <1>5. ASSUME NEW a \in Actors, GetPodStep(a)
        PROVE  FALSE
    BY <1>1, <1>2, <1>3, <1>5
    DEF GetPodStep, ListUnits, Convert, HealStop, HealUnload, HealReload, ReadUnit, PickBare,
        umVars
  <1>6. ASSUME NEW p \in Pods, CreatePodStep(p) \/ DeletePodStep(p)
        PROVE  FALSE
    BY <1>1, <1>2, <1>3, <1>6, CurrentUnit
    DEF CreatePodStep, Install, LoadBegin, LoadWrite, LoadEnd, LoadReturns, Start,
        WriteUnitBegin, WriteUnitEnd, EnableUnit, DeletePodStep, Stop, Unload, ReloadAll, Clean, umVars
  <1>7. state' = state => FALSE
    OBVIOUS
  <1> QED  BY <1>4, <1>5, <1>6, <1>7
           DEF Next, Worker, ApiCreate, ApiDelete, Sync, Poll, Panic, Crash, Restart, umVars,
               Actors

LEMMA OrderSystemd ==
    ASSUME TypeOK, OrderInv, NEW q \in Pods, NEW u \in UnitsOf(q), Systemd(u)
    PROVE  OrderInvOf(q)'
  <1> SUFFICES ASSUME api'[q] # "deleting", NEW w \in UnitsOf(q), Called(q, w)'
               PROVE  /\ state'[w] \in Begun
                      /\ state'[w] \notin Waiting => InitsOver(q, w)'
    BY DEF OrderInvOf, UnitsOf
  <1>0. /\ u \in Unit /\ w \in Unit /\ OrderInvOf(q) /\ api[q] # "deleting"
        /\ UNCHANGED <<pc, idx>>
    BY UnitsOfPods DEF OrderInv, Systemd
  <1>1. Called(q, w)
    <2>1. \A v \in UnitsOf(q) : state'[v] \in Live => state[v] \in Live
      BY <1>0, CalmSteps DEF Calms, Systemd
    <2> QED  BY <1>0, <2>1 DEF Called, UnitsOf
  <1>2. state[w] \in Begun /\ (state[w] \notin Waiting => InitsOver(q, w))
    BY <1>0, <1>1 DEF OrderInvOf
  <1>3. /\ \A v \in Unit : v # u => state'[v] = state[v]
        /\ ~Over(u)
    BY <1>0 DEF Systemd, SystemdStep, StartJobRuns, ProcessExits, StopJobEnds, Collected, Over,
                TypeOK, UMTypeOK
  <1>4. InitsOver(q, w) => InitsOver(q, w)'
    BY <1>3, UnitsOfPods DEF InitsOver, Over, UnitsOf, IsInit
  <1>5. CASE w # u
    BY <1>0, <1>2, <1>3, <1>4, <1>5
  <1>6. CASE w = u
    <2>1. CASE StartJobRuns(u)
      <3>1. state'[u] \in {"starting", "running", "failed"}
        BY <1>0, <2>1 DEF StartJobRuns, TypeOK, UMTypeOK
      <3>2. InitsOver(q, u)
        BY <1>0, <1>1, <1>6, <2>1, Predecessors DEF StartJobRuns, OrderInv
      <3> QED  BY <1>4, <1>6, <3>1, <3>2 DEF Begun
    <2>2. CASE ProcessExits(u)
      <3>1. state[u] \notin Waiting /\ state'[u] \in {"exited", "failed"}
        BY <1>0, <2>2 DEF ProcessExits, Waiting, TypeOK, UMTypeOK
      <3> QED  BY <1>2, <1>4, <1>6, <3>1 DEF Begun
    <2>3. CASE StopJobEnds(u)
      <3>1. state[u] = "restarting" /\ state'[u] = "queued"
        BY <1>0, <1>2, <1>6, <2>3 DEF StopJobEnds, Begun, TypeOK, UMTypeOK
      <3> QED  BY <1>6, <3>1 DEF Begun, Waiting
    <2>4. CASE Collected(u)
      BY <1>2, <1>6, <2>4 DEF Collected, Begun
    <2> QED  BY <2>1, <2>2, <2>3, <2>4 DEF Systemd, SystemdStep
  <1> QED  BY <1>5, <1>6

LEMMA OrderStart ==
    ASSUME EveryStartIsMade, TypeOK, NEW q \in Pods, RewriteInvOf(q), OrderInvOf(q), Start(q)
    PROVE  OrderInvOf(q)'
  <1> SUFFICES ASSUME api'[q] # "deleting", NEW w \in UnitsOf(q), Called(q, w)'
               PROVE  /\ state'[w] \in Begun
                      /\ state'[w] \notin Waiting => InitsOver(q, w)'
    BY DEF OrderInvOf, UnitsOf
  <1>0. /\ q \in Actors /\ Current(q) \in Unit /\ Current(q) \in UnitsOf(q)
        /\ Current(q)[2] = idx[q]
    BY CurrentUnit DEF Actors, Current, UnitsOf, TypeOK
  <1>1. /\ pc[q] = "start" /\ api[q] # "deleting" /\ TriggerStart(Current(q))
        /\ Loop(q, "idle")
    BY DEF Start, EveryStartIsMade, Fault
  <1>2. /\ idx[q] \in 1..(NumInit + NumMain) /\ NumInit + NumMain \in Nat
        /\ \A v \in UnitsOf(q) : v[2] \in 1..(NumInit + NumMain) /\ v \in Unit
    BY SpecAssumption, UnitIndex DEF TypeOK, Containers
  <1>3. \A v \in Unit : v # Current(q) => state'[v] = state[v]
    BY <1>0, <1>1 DEF TriggerStart, TypeOK, UMTypeOK
  <1>4. state'[Current(q)] \in Waiting
    <2>1. state[Current(q)] \notin Live /\ file[Current(q)] = "whole" /\ linked[Current(q)]
      BY <1>0, <1>1, <1>2 DEF RewriteInvOf, IndexInvOf, LoadedInvOf
    <2>2. Startable(Current(q))
      BY <2>1 DEF Startable
    <2>3. AfterStart(state[Current(q)]) \in Waiting
      BY <1>0, <2>1 DEF AfterStart, Live, Waiting, TypeOK, UMTypeOK, UnitState
    <2> QED  BY <1>0, <1>1, <2>2, <2>3 DEF TriggerStart, TypeOK, UMTypeOK
  <1>5. w[2] <= idx[q]
    <2>1. CASE pc'[q] = "start" /\ w[2] < idx'[q]
      BY <1>1, <1>2, <2>1, LoopSelf
    <2>2. CASE \E v \in UnitsOf(q) : v[2] >= w[2] /\ state'[v] \in Live
      <3>1. PICK v \in UnitsOf(q) : v[2] >= w[2] /\ state'[v] \in Live
        BY <2>2
      <3>2. v = Current(q) \/ v[2] < idx[q]
        BY <1>1, <1>2, <1>3, <3>1 DEF RewriteInvOf, IndexInvOf
      <3>3. v[2] <= idx[q]
        BY <1>0, <1>2, <3>2
      <3> QED  BY <1>2, <3>1, <3>3
    <2> QED  BY <2>1, <2>2 DEF Called, UnitsOf
  <1>6. CASE w = Current(q)
    BY <1>4, <1>6 DEF Waiting, Begun
  <1>7. CASE w # Current(q)
    <2>1. w[2] < idx[q]
      BY <1>0, <1>2, <1>5, <1>7, UnitIndex
    <2>2. state[w] \in Begun /\ (state[w] \notin Waiting => InitsOver(q, w))
      BY <1>1, <2>1 DEF OrderInvOf, Called
    <2>3. InitsOver(q, w) => InitsOver(q, w)'
      <3>1. \A v \in UnitsOf(q) : v[2] < w[2] => v # Current(q)
        BY <1>0, <1>2, <2>1
      <3> QED  BY <1>2, <1>3, <3>1 DEF InitsOver, Over, UnitsOf, IsInit
    <2> QED  BY <1>2, <1>3, <1>7, <2>2, <2>3
  <1> QED  BY <1>6, <1>7

\* The steps of the pod's worker other than Start.
LEMMA OrderWorker ==
    ASSUME EveryStartIsMade, TypeOK, NEW q \in Pods, IdxInvOf(q), RewriteInvOf(q), RewriteInvOf(q)',
           OrderInv, Worker(q)
    PROVE  OrderInvOf(q)'
  <1>0. q \in Actors /\ Current(q) \in Unit /\ OrderInvOf(q)
    BY CurrentUnit DEF Actors, OrderInv
  <1>1. CASE Sync(q)
    <2>1. UNCHANGED <<api, state>> /\ pc'[q] # "start"
      BY <1>0, <1>1 DEF Sync, Goto, umVars, TypeOK, PcTypeOK
    <2> QED  BY <1>0, <2>1, OrderStill
  <1>2. CASE GetPodStep(q)
    <2>1. pc'[q] # "start" /\ api' = api
      <3>1. CASE ListUnits(q) \/ Convert(q) \/ HealReload(q)
        BY <1>0, <3>1 DEF ListUnits, Convert, HealReload, AnswerNil, AnswerPod, Goto, TypeOK,
           PcTypeOK
      <3>2. CASE HealStop(q) \/ HealUnload(q)
        BY <1>0, <3>2 DEF HealStop, HealUnload, Goto, TypeOK, PcTypeOK
      <3>3. CASE \E u \in Unit : ReadUnit(q, u) \/ PickBare(q, u)
        BY <1>0, <3>3 DEF ReadUnit, PickBare, Goto, TypeOK, PcTypeOK
      <3> QED  BY <1>2, <3>1, <3>2, <3>3 DEF GetPodStep
    <2>2. CASE HealStop(q) \/ HealUnload(q) \/ HealReload(q)
      <3>1. Quiet(q)
        BY <2>2 DEF HealStop, HealUnload, HealReload, RewriteInvOf, QuietInvOf, BeforeStart
      <3>2. Quiet(q)'
        BY <2>2, <3>1, CalmSteps, QuietStays DEF HealStop, HealUnload, HealReload
      <3> QED  BY <2>1, <3>2, OrderQuiet
    <2>3. CASE UNCHANGED umVars
      BY <1>0, <2>1, <2>3, OrderStill DEF umVars
    <2> QED  BY <1>2, <2>2, <2>3 DEF GetPodStep, ListUnits, Convert, ReadUnit, PickBare
  <1>3. CASE Install(q) \/ LoadBegin(q) \/ LoadWrite(q)
    <2>1. UNCHANGED <<api, state>> /\ pc'[q] # "start"
      BY <1>0, <1>3
      DEF Install, LoadBegin, LoadWrite, WriteUnitBegin, WriteUnitEnd, EveryStartIsMade,
          Undisturbed, Fault, Goto, umVars, TypeOK, PcTypeOK
    <2> QED  BY <1>0, <2>1, OrderStill
  <1>4. CASE LoadEnd(q)
    <2>1. Quiet(q)'
      BY <1>4 DEF LoadEnd, EnableUnit, EveryStartIsMade, Undisturbed, Fault, RewriteInvOf,
                  QuietInvOf, BeforeStart, Quiet
    <2>2. pc'[q] = "start" => idx'[q] = 1
      BY <1>0, <1>4 DEF LoadEnd, LoadReturns, AfterLastLoad, Goto, TypeOK, PcTypeOK
    <2> QED  BY <2>1, <2>2, OrderQuiet
  <1>5. CASE Start(q)
    BY <1>0, <1>5, OrderStart
  <1>6. CASE Stop(q) \/ Unload(q) \/ ReloadAll(q)
    BY <1>6 DEF Stop, Unload, ReloadAll, OrderInv, DeletesOnRequest, DeletePcs, OrderInvOf
  <1>7. CASE Clean(q)
    <2>1. Quiet(q)' /\ pc'[q] = "idle"
      BY <1>0, <1>7 DEF Clean, Goto, RewriteInvOf, QuietInvOf, Unloading, Quiet, umVars, TypeOK,
                        PcTypeOK
    <2> QED  BY <2>1, OrderQuiet
  <1> QED  BY <1>1, <1>2, <1>3, <1>4, <1>5, <1>6, <1>7
           DEF Worker, CreatePodStep, DeletePodStep

LEMMA DeletesNext ==
    ASSUME TypeOK, DeletesOnRequest, [Next]_vars
    PROVE  DeletesOnRequest'
  <1> SUFFICES ASSUME NEW q \in Pods, pc'[q] \in DeletePcs
               PROVE  api'[q] = "deleting"
    BY DEF DeletesOnRequest
  <1>0. Pods \subseteq Actors /\ Pollers \subseteq Actors
        /\ (pc[q] \in DeletePcs => api[q] = "deleting")
    BY DEF Actors, DeletesOnRequest
  <1>1. ASSUME NEW p \in Pods, ApiCreate(p) \/ ApiDelete(p)
        PROVE  api'[q] = "deleting"
    BY <1>0, <1>1 DEF ApiCreate, ApiDelete, TypeOK
  <1>2. ASSUME NEW p \in Pods, Sync(p)
        PROVE  api'[q] = "deleting"
    BY <1>0, <1>2 DEF Sync, Goto, DeletePcs, TypeOK, PcTypeOK
  <1>3. ASSUME NEW p \in Pods, NEW a \in Pollers, Poll(a, p)
        PROVE  api'[q] = "deleting"
    BY <1>0, <1>3, ActorAssumption DEF Poll, Goto, TypeOK, PcTypeOK
  <1>4. ASSUME NEW a \in Actors, GetPodStep(a)
        PROVE  api'[q] = "deleting"
    BY <1>0, <1>4, GetPodMoves
  <1>5. ASSUME NEW p \in Pods, CreatePodStep(p)
        PROVE  api'[q] = "deleting"
    <2>1. CASE p = q
      BY <1>0, <1>5, <2>1, LoopSelf
      DEF CreatePodStep, Install, LoadBegin, LoadWrite, LoadEnd, LoadReturns, Start, AfterLastLoad, Goto,
          DeletePcs, TypeOK, PcTypeOK
    <2>2. CASE p # q
      BY <1>0, <1>5, <2>2, CreatePodOthers
      DEF CreatePodStep, Install, LoadBegin, LoadWrite, LoadEnd, Start
    <2> QED  BY <2>1, <2>2
  <1>6. ASSUME NEW p \in Pods, DeletePodStep(p)
        PROVE  api'[q] = "deleting"
    <2>1. CASE p = q
      BY <1>0, <1>6, <2>1
      DEF DeletePodStep, Stop, Unload, ReloadAll, Clean, Goto, DeletePcs, TypeOK, PcTypeOK
    <2>2. CASE p # q
      BY <1>0, <1>6, <2>2, DeletePodOthers
    <2> QED  BY <2>1, <2>2
  <1>7. CASE Restart
    BY <1>0, <1>7 DEF Restart, DeletePcs
  <1>8. CASE UNCHANGED <<api, pc>>
    BY <1>0, <1>8
  <1> QED  BY <1>0, <1>1, <1>2, <1>3, <1>4, <1>5, <1>6, <1>7, <1>8
           DEF Next, Worker, Systemd, Panic, Crash, vars

LEMMA OrderNext ==
    ASSUME EveryStartIsMade, TypeOK, IdxInv, RewriteInv, OrderInv, [Next]_vars
    PROVE  OrderInv'
  <1>0. Undisturbed /\ Actors = Pods
    BY DEF EveryStartIsMade, Undisturbed, Actors
  <1>1. InitsStart'
    BY OnlyJobsRun DEF OrderInv, InitsStart, IsInit, Unit, vars
  <1>2. RewriteInv'
    BY <1>0, RewriteNext
  <1>3. ASSUME NEW q \in Pods
        PROVE  OrderInvOf(q)'
    <2>0. OrderInvOf(q) /\ IdxInvOf(q) /\ RewriteInvOf(q) /\ RewriteInvOf(q)'
      BY <1>2 DEF OrderInv, IdxInv, RewriteInv
    <2>1. ASSUME NEW p \in Pods, ApiCreate(p) \/ ApiDelete(p)
          PROVE  OrderInvOf(q)'
      <3>1. api[q] # "deleting" \/ api'[q] = "deleting"
        BY <2>1 DEF ApiCreate, ApiDelete, TypeOK
      <3> QED  BY <2>0, <2>1, <3>1, OrderStill DEF ApiCreate, ApiDelete, umVars
    <2>2. ASSUME NEW p \in Pods, p # q, Worker(p)
          PROVE  OrderInvOf(q)'
      <3>1. Rests(q) /\ KeepsPlace(q) /\ api'[q] = api[q]
        BY <2>2, OthersRest DEF RewriteInv, RewriteInvOf
      <3> QED  BY <2>0, <3>1, OrderStill DEF Rests, KeepsPlace
    <2>3. CASE Worker(q)
      BY <2>0, <2>3, OrderWorker
    <2>4. ASSUME NEW u \in Unit, Systemd(u)
          PROVE  OrderInvOf(q)'
      <3>1. CASE u \in UnitsOf(q)
        BY <2>4, <3>1, OrderSystemd
      <3>2. CASE u \notin UnitsOf(q)
        <4>1. Rests(q)
          BY <2>4, <3>2, OtherUnits DEF Systemd
        <4> QED  BY <2>0, <2>4, <4>1, OrderStill DEF Systemd, Rests
      <3> QED  BY <3>1, <3>2
    <2>5. CASE Restart
      BY <1>0, <2>0, <2>5, OrderStill DEF Restart, umVars
    <2>6. CASE UNCHANGED vars
      BY <2>0, <2>6, OrderStill DEF vars
    <2> QED  BY <1>0, <2>1, <2>2, <2>3, <2>4, <2>5, <2>6
             DEF Next, Panic, Crash, Undisturbed
  <1> QED  BY <1>1, <1>3, DeletesNext DEF OrderInv

\* A main container starts to run only when every init container of its pod is
\* over, for any number of pods, init and main containers, although CreatePod
\* queues all start jobs at once; systemk may be killed, and installations and
\* disable calls may fail, at any time.
THEOREM MainContainersWait ==
    ASSUME EveryStartIsMade
    PROVE  Spec => MainWaitsForInit
  <1> DEFINE Waits ==
          \A u \in Unit :
              (/\ ~IsInit(u)
               /\ state[u] = "queued"
               /\ state'[u] = "running"
               /\ api[u[1]] # "deleting")
              => \A v \in UnitsOf(u[1]) : IsInit(v) => state[v] \in {"exited", "failed"}
  <1>1. TypeOK /\ OrderInv /\ [Next]_vars => [Waits]_vars
    <2> SUFFICES ASSUME TypeOK, OrderInv, Next, NEW u \in Unit, ~IsInit(u), state[u] = "queued",
                        state'[u] = "running", api[u[1]] # "deleting",
                        NEW v \in UnitsOf(u[1]), IsInit(v)
                 PROVE  Over(v)
      BY DEF Over
    <2>1. u[1] \in Pods /\ u \in UnitsOf(u[1])
      BY UnitsOfPods
    <2>2. v[2] < u[2] /\ u[2] >= u[2]
      BY <2>1, UnitIndex, SpecAssumption DEF IsInit
    <2>3. Called(u[1], u)
      BY <2>1, <2>2 DEF Called, Live
    <2>4. \A w \in After(u) : state[w] \notin Pending
      BY OnlyJobsRun DEF StartJobRuns
    <2>5. InitsOver(u[1], u)
      BY <2>1, <2>3, <2>4, Predecessors DEF OrderInv
    <2> QED  BY <2>2, <2>5 DEF InitsOver
  <1>2. Init => OrderInv
    <2> SUFFICES ASSUME Init
                 PROVE  OrderInv
      OBVIOUS
    <2>1. InitsStart /\ DeletesOnRequest
      BY DEF Init, UMInit, InitsStart, DeletesOnRequest, DeletePcs, Actors
    <2>2. ASSUME NEW p \in Pods
          PROVE  OrderInvOf(p)
      BY <2>2, UnitsOfPods DEF Init, UMInit, OrderInvOf, Called, Live, Actors
    <2> QED  BY <2>1, <2>2 DEF OrderInv
  <1>3. TypeOK /\ IdxInv /\ RewriteInv /\ OrderInv /\ [Next]_vars
        => (IdxInv /\ RewriteInv /\ OrderInv)'
    BY OrderNext, RewriteNext, IdxNext DEF EveryStartIsMade
  <1> QED  BY <1>1, <1>2, <1>3, RewriteInit, TypeCorrect, PTL DEF Spec, MainWaitsForInit
=============================================================================
