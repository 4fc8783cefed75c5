---------------------------- MODULE PodLifecycle ----------------------------
(***************************************************************************)
(* internal/provider/pod.go and unit.go: GetPod, CreatePod, UpdatePod and  *)
(* DeletePod as Virtual Kubelet calls them, over the unit manager and      *)
(* systemd of module UnitManager.                                          *)
(*                                                                         *)
(* Virtual Kubelet serialises the work on one pod (its work queue is keyed *)
(* by pod) and works on several pods at a time, so there is one worker per *)
(* pod and the worker is named by its pod.  Concurrently with the workers, *)
(* callers of GetPodStatus and GetPods (the status poll that runs every    *)
(* few seconds, the node's HTTP API) call GetPod on any pod: the Pollers.  *)
(*                                                                         *)
(* Every D-Bus call, file write and lock acquisition is a step of its own: *)
(* two goroutines interleave there, and systemk can be killed there.       *)
(* systemd and the files survive a crash, the goroutines do not.           *)
(***************************************************************************)
EXTENDS UnitManager

CONSTANTS
    Pollers,     \* goroutines other than the pod workers that call GetPod
    FaultKinds,  \* the kinds of failure that may happen
    MaxFaults    \* bound: how many failures a behaviour may have

ASSUME ActorAssumption == Pollers \cap Pods = {}
ASSUME FaultAssumption == MaxFaults \in Nat

VARIABLES
    api,      \* what the API server says of the pod
    pc,       \* where each goroutine is
    subject,  \* the pod a goroutine works on
    idx,      \* the container a worker's loop is at
    view,     \* GetPod's snapshot: what the goroutine knows of each unit
    faults    \* failures so far

vars == <<file, linked, state, api, pc, subject, idx, view, faults>>

Actors == Pods \cup Pollers
ApiState == {"absent", "present", "deleting"}
View == {"unlisted", "listed", "good", "bare"}
GetPcs == {"list", "read", "healStop", "healUnload", "healReload"}
CreatePcs == {"install", "load", "write", "enable", "start"}
DeletePcs == {"stop", "unload", "reload", "clean"}
Pcs == {"idle"} \cup GetPcs \cup CreatePcs \cup DeletePcs

PcTypeOK ==
    /\ pc \in [Actors -> Pcs]
    /\ \A a \in Pollers : pc[a] \in {"idle"} \cup GetPcs

TypeOK ==
    /\ UMTypeOK
    /\ PcTypeOK
    /\ api \in [Pods -> ApiState]
    /\ subject \in [Actors -> Pods]
    /\ \A p \in Pods : subject[p] = p
    /\ idx \in [Pods -> Containers]
    /\ view \in [Actors -> [Unit -> View]]
    /\ faults \in 0..MaxFaults

NoView == [u \in Unit |-> "unlisted"]

Init ==
    /\ UMInit
    /\ api = [p \in Pods |-> "absent"]
    /\ pc = [a \in Actors |-> "idle"]
    /\ subject \in [Actors -> Pods]
    /\ \A p \in Pods : subject[p] = p
    /\ idx = [p \in Pods |-> 1]
    /\ view = [a \in Actors |-> NoView]
    /\ faults = 0

Goto(a, label) == pc' = [pc EXCEPT ![a] = label]

Fault(kind) == kind \in FaultKinds /\ faults < MaxFaults /\ faults' = faults + 1
NoFault == faults' = faults

\* Load and Unload hold the manager's mutex; no other call takes it.
MutexFree == \A a \in Actors : pc[a] \notin {"write", "enable"}

\* The unit of the container a worker's loop is at.
Current(p) == <<p, idx[p]>>

\* A slip of the loop below: one round too many.
LoopPastEnd(p, label) ==
    IF idx[p] > NumInit + NumMain
    THEN idx' = [idx EXCEPT ![p] = 1] /\ Goto(p, label)
    ELSE idx' = [idx EXCEPT ![p] = @ + 1] /\ UNCHANGED pc

\* The loop over the pod's containers: the next container, or on to label.
Loop(p, label) ==
    IF idx[p] = NumInit + NumMain
    THEN idx' = [idx EXCEPT ![p] = 1] /\ Goto(p, label)
    ELSE idx' = [idx EXCEPT ![p] = @ + 1] /\ UNCHANGED pc

-----------------------------------------------------------------------------
(* The API server, and Virtual Kubelet handing out work.                   *)

ApiCreate(p) ==
    /\ api[p] = "absent"
    /\ api' = [api EXCEPT ![p] = "present"]
    /\ UNCHANGED <<umVars, pc, subject, idx, view, faults>>

ApiDelete(p) ==
    /\ api[p] = "present"
    /\ api' = [api EXCEPT ![p] = "deleting"]
    /\ UNCHANGED <<umVars, pc, subject, idx, view, faults>>

\* A worker takes the pod from the queue: DeletePod when its deletion was asked
\* for, otherwise GetPod, whose answer decides between CreatePod and UpdatePod.
Sync(p) ==
    /\ pc[p] = "idle"
    /\ api[p] # "absent"
    /\ Goto(p, IF api[p] = "deleting" THEN "stop" ELSE "list")
    /\ UNCHANGED <<umVars, api, subject, idx, view, faults>>

Poll(a, p) ==
    /\ pc[a] = "idle"
    /\ api[p] # "absent"
    /\ subject' = [subject EXCEPT ![a] = p]
    /\ Goto(a, "list")
    /\ UNCHANGED <<umVars, api, idx, view, faults>>

-----------------------------------------------------------------------------
(* GetPod: list the units, read their files, convert what was read.        *)

\* GetPod answers nil: the worker creates the pod, a poller is done.
AnswerNil(a) ==
    /\ Goto(a, IF a \in Pods THEN "install" ELSE "idle")
    /\ view' = [view EXCEPT ![a] = NoView]

\* GetPod answers a pod: UpdatePod does nothing, a poller is done.
AnswerPod(a) ==
    /\ Goto(a, "idle")
    /\ view' = [view EXCEPT ![a] = NoView]

\* A listing that keeps to the units that run.
ListingOfRunning(p) == [u \in Unit |-> IF u[1] = p /\ state[u] = "running"
                                       THEN "listed" ELSE "unlisted"]

\* What ListUnits returns of a pod.
Listing(p) == [u \in Unit |-> IF u[1] = p /\ state[u] # "unloaded"
                              THEN "listed" ELSE "unlisted"]

\* States: a D-Bus error and an empty list both make GetPod answer nil.
ListUnits(a) ==
    /\ pc[a] = "list"
    /\ \/ /\ NoFault
          /\ Listing(subject[a]) # NoView
          /\ view' = [view EXCEPT ![a] = Listing(subject[a])]
          /\ Goto(a, "read")
       \/ NoFault /\ Listing(subject[a]) = NoView /\ AnswerNil(a)
       \/ Fault("list") /\ AnswerNil(a)
    /\ UNCHANGED <<umVars, api, subject, idx>>

\* readUnit; a missing or an empty file has no X-Kubernetes section.
ReadUnit(a, u) ==
    /\ pc[a] = "read"
    /\ view[a][u] = "listed"
    /\ view' = [view EXCEPT ![a][u] = IF file[u] = "whole" THEN "good" ELSE "bare"]
    /\ UNCHANGED <<umVars, api, pc, subject, idx, faults>>

AllRead(a) == pc[a] = "read" /\ \A u \in Unit : view[a][u] # "listed"

\* statsToPod looks at one unit of the map, any one, and finds it without the
\* section: that unit is to be stopped and removed.
PickBare(a, u) ==
    /\ AllRead(a)
    /\ view[a][u] = "bare"
    /\ view' = [view EXCEPT ![a] = [NoView EXCEPT ![u] = "bare"]]
    /\ Goto(a, "healStop")
    /\ UNCHANGED <<umVars, api, subject, idx, faults>>

\* The unit it looks at has the section, and so have all others.
Convert(a) ==
    /\ AllRead(a)
    /\ \A u \in Unit : view[a][u] # "bare"
    /\ AnswerPod(a)
    /\ UNCHANGED <<umVars, api, subject, idx, faults>>

HealStop(a) ==
    /\ pc[a] = "healStop"
    /\ \E u \in Unit :
          /\ view[a][u] = "bare"
          /\ \/ NoFault /\ TriggerStop(u)
             \/ Fault("stop") /\ UNCHANGED umVars
    /\ Goto(a, "healUnload")
    /\ UNCHANGED <<api, subject, idx, view>>

HealUnload(a) ==
    /\ pc[a] = "healUnload"
    /\ MutexFree
    /\ \E u \in Unit :
          /\ view[a][u] = "bare"
          /\ \/ NoFault /\ RemoveUnit(u, TRUE)
             \/ Fault("disable") /\ RemoveUnit(u, FALSE)
    /\ Goto(a, "healReload")
    /\ UNCHANGED <<api, subject, idx, view>>

\* Having removed one unit, statsToPod answers nil.
HealReload(a) ==
    /\ pc[a] = "healReload"
    /\ Reload
    /\ AnswerNil(a)
    /\ UNCHANGED <<api, subject, idx, faults>>

-----------------------------------------------------------------------------
(* CreatePod                                                               *)

\* Install the package of the container; an error abandons the pod half-way.
Install(p) ==
    /\ pc[p] = "install"
    /\ \/ NoFault /\ Goto(p, "load") /\ UNCHANGED idx
       \/ Fault("install") /\ Goto(p, "idle") /\ idx' = [idx EXCEPT ![p] = 1]
    /\ UNCHANGED <<umVars, api, subject, view>>

LoadBegin(p) ==
    /\ pc[p] = "load"
    /\ MutexFree
    /\ WriteUnitBegin(Current(p))
    /\ Goto(p, "write")
    /\ UNCHANGED <<api, subject, idx, view, faults>>

\* A CreatePod that leaves the units it loaded for someone else to start.
NothingToStart == "idle"

\* Where CreatePod goes once every unit is loaded.
AfterLastLoad == "start"

\* An error of Load is only logged: the loop goes on.
LoadReturns(p) ==
    IF idx[p] = NumInit + NumMain
    THEN idx' = [idx EXCEPT ![p] = 1] /\ Goto(p, AfterLastLoad)
    ELSE idx' = [idx EXCEPT ![p] = @ + 1] /\ Goto(p, "install")

\* ioutil.WriteFile, which leaves what it has written when it fails.
LoadWrite(p) ==
    /\ pc[p] = "write"
    /\ \/ NoFault /\ WriteUnitEnd(Current(p)) /\ Goto(p, "enable") /\ UNCHANGED idx
       \/ Fault("load") /\ UNCHANGED umVars /\ LoadReturns(p)
    /\ UNCHANGED <<api, subject, view>>

\* A LinkUnitFiles that fails is not undone.  An EnableUnitFiles that fails is, by
\* removeUnit, of which DisableUnitFiles may then fail too.
LoadEnd(p) ==
    /\ pc[p] = "enable"
    /\ \/ NoFault /\ EnableUnit(Current(p))
       \/ /\ Fault("load")
          /\ \/ UNCHANGED umVars
             \/ RemoveUnit(Current(p), TRUE)
             \/ "disable" \in FaultKinds /\ RemoveUnit(Current(p), FALSE)
    /\ LoadReturns(p)
    /\ UNCHANGED <<api, subject, view>>

Start(p) ==
    /\ pc[p] = "start"
    /\ \/ NoFault /\ TriggerStart(Current(p))
       \/ Fault("start") /\ UNCHANGED umVars
    /\ Loop(p, "idle")
    /\ UNCHANGED <<api, subject, view>>

-----------------------------------------------------------------------------
(* DeletePod: every error is only logged.                                  *)

\* A DeletePod that stops the main containers only.
StopMainOnly(p) ==
    /\ pc[p] = "stop"
    /\ IF IsInit(Current(p)) THEN UNCHANGED umVars ELSE TriggerStop(Current(p))
    /\ NoFault
    /\ Loop(p, "unload")
    /\ UNCHANGED <<api, subject, view>>

Stop(p) ==
    /\ pc[p] = "stop"
    /\ \/ NoFault /\ TriggerStop(Current(p))
       \/ Fault("stop") /\ UNCHANGED umVars
    /\ Loop(p, "unload")
    /\ UNCHANGED <<api, subject, view>>

\* An Unload that waits for the unit to be inactive.
UnloadWhenDead(p) ==
    /\ pc[p] = "unload"
    /\ MutexFree
    /\ state[Current(p)] \in {"dead", "unloaded"}
    /\ NoFault
    /\ RemoveUnit(Current(p), TRUE)
    /\ Loop(p, "reload")
    /\ UNCHANGED <<api, subject, view>>

Unload(p) ==
    /\ pc[p] = "unload"
    /\ MutexFree
    /\ \/ NoFault /\ RemoveUnit(Current(p), TRUE)
       \/ Fault("disable") /\ RemoveUnit(Current(p), FALSE)
    /\ Loop(p, "reload")
    /\ UNCHANGED <<api, subject, view>>

ReloadAll(p) ==
    /\ pc[p] = "reload"
    /\ Reload
    /\ Goto(p, "clean")
    /\ UNCHANGED <<api, subject, idx, view, faults>>

\* Unwatch and the clean-up of volumes (module PodWatcher); DeletePod returns
\* and Virtual Kubelet removes the pod from the API server.
Clean(p) ==
    /\ pc[p] = "clean"
    /\ api' = [api EXCEPT ![p] = "absent"]
    /\ Goto(p, "idle")
    /\ UNCHANGED <<umVars, subject, idx, view, faults>>

-----------------------------------------------------------------------------
(* The death of the process; its supervisor starts it again.               *)

Restart ==
    /\ pc' = [a \in Actors |-> "idle"]
    /\ idx' = [p \in Pods |-> 1]
    /\ view' = [a \in Actors |-> NoView]
    /\ UNCHANGED <<umVars, api, subject>>

Crash == Fault("crash") /\ Restart

\* toContainerStatuses indexes the Image of a unit without the section.
Panics(a) ==
    /\ AllRead(a)
    /\ \E u \in Unit : view[a][u] = "good"
    /\ \E u \in Unit : view[a][u] = "bare"

Panic(a) == Panics(a) /\ Restart /\ NoFault

GetPodStep(a) ==
    \/ ListUnits(a) \/ Convert(a) \/ HealStop(a) \/ HealUnload(a) \/ HealReload(a)
    \/ \E u \in Unit : ReadUnit(a, u) \/ PickBare(a, u)

CreatePodStep(p) == Install(p) \/ LoadBegin(p) \/ LoadWrite(p) \/ LoadEnd(p) \/ Start(p)
DeletePodStep(p) == Stop(p) \/ Unload(p) \/ ReloadAll(p) \/ Clean(p)

Worker(p) == Sync(p) \/ GetPodStep(p) \/ CreatePodStep(p) \/ DeletePodStep(p)

Systemd(u) ==
    /\ SystemdStep(u)
    /\ UNCHANGED <<api, pc, subject, idx, view, faults>>

Next ==
    \/ \E p \in Pods : ApiCreate(p) \/ ApiDelete(p) \/ Worker(p)
    \/ \E a \in Pollers : GetPodStep(a) \/ \E p \in Pods : Poll(a, p)
    \/ \E u \in Unit : Systemd(u)
    \/ \E a \in Actors : Panic(a)
    \/ Crash

Spec == Init /\ [][Next]_vars

\* Workers keep working, a goroutine that waits for the mutex gets it in the
\* end, and systemd runs the jobs it is given.  An init container ends; a main
\* container may run for ever.
Fairness ==
    /\ \A p \in Pods : WF_vars(Worker(p))
    /\ \A p \in Pods : SF_vars(LoadBegin(p) \/ Unload(p) \/ HealUnload(p))
    /\ \A u \in Unit : WF_vars(state[u] # "running" /\ Systemd(u))

FairSpec == Spec /\ Fairness

-----------------------------------------------------------------------------
(* Properties                                                              *)

\* A unit file on disk belongs to a pod the API server knows: DeletePod leaves
\* no file behind although it ignores every error, and no GetPod that was under
\* way when the pod went brings one back.
FilesOnlyOfKnownPods ==
    \A u \in Unit : file[u] # "absent" => api[u[1]] # "absent"

\* Once a pod is gone, systemd has no link to its units, and none of them runs
\* or will be started.
DeletedIsGone ==
    \A u \in Unit : api[u[1]] = "absent" => ~linked[u] /\ state[u] \notin Live

\* A main container starts only when the init containers before it are over,
\* unless its pod is being deleted (DeletePod stops the init container first,
\* and After= does not hold the main container back then).
MainWaitsForInit ==
    [][\A u \in Unit :
          (/\ ~IsInit(u)
           /\ state[u] = "queued"
           /\ state'[u] = "running"
           /\ api[u[1]] # "deleting")
          => \A v \in UnitsOf(u[1]) : IsInit(v) => state[v] \in {"exited", "failed"}]_vars

\* CreatePod never writes over the unit file of a container that is live:
\* GetPod would have answered the pod.
NoRewriteOfLiveUnit ==
    [][\A u \in Unit : state[u] \in Live => ~(file'[u] = "empty" /\ file[u] # "empty")]_vars

\* GetPod never makes systemk panic.
NoPanic == \A a \in Actors : ~Panics(a)

\* A pod whose deletion was asked for is removed, whatever fails meanwhile.
DeletionCompletes ==
    \A p \in Pods : (api[p] = "deleting") ~> (api[p] = "absent")

Started(u) == state[u] \in {"starting", "running", "exited", "failed"}

\* A pod assigned to the node has all its containers started, or is deleted, if
\* nothing fails: after a failure GetPod finds a pod that is there in part, and
\* UpdatePod does nothing for it.
CreationCompletes ==
    \A p \in Pods : (api[p] = "present")
        ~> (api[p] # "present" \/ faults > 0 \/ \A u \in UnitsOf(p) : Started(u))
=============================================================================
