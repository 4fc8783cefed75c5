----------------------------- MODULE PodWatcher -----------------------------
(***************************************************************************)
(* internal/kubernetes/watch.go and the provider's side of it: the pods    *)
(* whose volumes hold a ConfigMap are told when the ConfigMap changes, and *)
(* write it to disk again.  Secrets go through a second copy of the same   *)
(* code with maps of its own, so that one kind of resource is modelled.    *)
(*                                                                         *)
(* Two kinds of goroutine meet here: the workers, of which CreatePod calls *)
(* volumes() first and Watch last, and DeletePod Unwatch and then the      *)
(* clean-up of the volumes; and the informer's, which delivers one event   *)
(* at a time.  handleEvent holds the lock only to fetch the list of pods.  *)
(***************************************************************************)
EXTENDS Integers

CONSTANTS
    Pods, Maps, Refs,  \* as in WatchRegistry
    MaxVersion,        \* bound: how often a resource is written
    MaxLife,           \* bound: how often a pod of one name is created
    MaxRestarts        \* bound: how often systemk is restarted

ASSUME RefsAssumption == Refs \in [Pods -> SUBSET Maps]
ASSUME BoundAssumption ==
    MaxVersion \in Nat /\ MaxLife \in Nat /\ MaxRestarts \in Nat

VARIABLES
    configs,   \* configs[m]: the copies of pods watching m
    keysByPod, \* keysByPod[p]: the reverse index, cmKeysByPod
    content,   \* content[m]: the version the lister holds, 0 if there is none
    pending,   \* the resources an event is queued for
    todo,      \* the copies the handler has still to tell
    fetched,   \* fetched[p]: what CreatePod's volumes() read and is to write
    update,    \* update[c]: what UpdateConfigMap's volumes() read, likewise
    disk,      \* disk[c][m]: the version in the volume of the pod copy c
    life,      \* life[p]: which pod of that name this is; its UID
    pc,        \* pc[p]: where the worker of p is
    recreated, \* the pods CreatePod was called again for while they ran
    restarts

watcherVars == <<configs, keysByPod>>
clusterVars == <<content, pending, restarts>>
handlerVars == <<todo, update>>
workerVars == <<fetched, life, recreated>>

vars == <<watcherVars, clusterVars, handlerVars, workerVars, disk, pc>>

\* A pod as the watcher copies it: a name and the UID its volumes go by.
Copy == Pods \X (1..MaxLife)
Version == 0..MaxVersion
Contents == [Maps -> Version]
Nothing == [m \in Maps |-> 0]
Pcs == {"gone", "volumes", "write", "watch", "running", "unwatch", "clean"}

\* The copy of the pod a worker works on.
Current(p) == <<p, life[p]>>

TypeOK ==
    /\ configs \in [Maps -> SUBSET Copy]
    /\ keysByPod \in [Pods -> SUBSET Maps]
    /\ content \in Contents
    /\ pending \subseteq Maps
    /\ todo \subseteq Copy
    /\ fetched \in [Pods -> Contents]
    /\ update \in [Copy -> Contents]
    /\ disk \in [Copy -> Contents]
    /\ life \in [Pods -> 0..MaxLife]
    /\ pc \in [Pods -> Pcs]
    /\ \A p \in Pods : life[p] = 0 => pc[p] = "gone"
    /\ recreated \subseteq Pods
    /\ restarts \in 0..MaxRestarts

Init ==
    /\ configs = [m \in Maps |-> {}]
    /\ keysByPod = [p \in Pods |-> {}]
    /\ content = Nothing
    /\ pending = {}
    /\ todo = {}
    /\ fetched = [p \in Pods |-> Nothing]
    /\ update = [c \in Copy |-> Nothing]
    /\ disk = [c \in Copy |-> Nothing]
    /\ life = [p \in Pods |-> 0]
    /\ pc = [p \in Pods |-> "gone"]
    /\ recreated = {}
    /\ restarts = 0

Goto(p, label) == pc' = [pc EXCEPT ![p] = label]

-----------------------------------------------------------------------------
(* The cluster: resources are written, pods come and go, the informer      *)
(* delivers every change and, once per resync period, everything again.    *)

ResourceWritten(m) ==
    /\ content[m] < MaxVersion
    /\ content' = [content EXCEPT ![m] = @ + 1]
    /\ pending' = pending \cup {m}
    /\ UNCHANGED <<watcherVars, handlerVars, workerVars, disk, pc, restarts>>

Resync(m) ==
    /\ content[m] # 0
    /\ pending' = pending \cup {m}
    /\ UNCHANGED <<watcherVars, handlerVars, workerVars, content, disk, pc, restarts>>

PodAssigned(p) ==
    /\ pc[p] = "gone"
    /\ life[p] < MaxLife
    /\ life' = [life EXCEPT ![p] = @ + 1]
    /\ Goto(p, "volumes")
    /\ UNCHANGED <<watcherVars, clusterVars, handlerVars, fetched, recreated, disk>>

\* GetPod answers nil for a pod that runs, as it does when D-Bus fails: the pod
\* is created again.
CreateAgain(p) ==
    /\ pc[p] = "running"
    /\ recreated' = recreated \cup {p}
    /\ Goto(p, "volumes")
    /\ UNCHANGED <<watcherVars, clusterVars, handlerVars, fetched, life, disk>>

\* DeletePod may follow a CreatePod that failed, or that went through.
PodDeleted(p) ==
    /\ pc[p] \in {"volumes", "running"}
    /\ Goto(p, "unwatch")
    /\ UNCHANGED <<watcherVars, clusterVars, handlerVars, workerVars, disk>>

-----------------------------------------------------------------------------
(* volumes(): fetch the resources of the pod from the lister and write     *)
(* them.  A resource that does not exist is skipped, no file is removed.   *)

FromLister(p) == [m \in Maps |-> IF m \in Refs[p] THEN content[m] ELSE 0]

\* A volumes() that leaves a file alone once it is there.
KeepOld(volume, read) ==
    [m \in Maps |-> IF volume[m] = 0 THEN read[m] ELSE volume[m]]

\* What the volume holds once what was read is written to it.
Written(volume, read) ==
    [m \in Maps |-> IF read[m] = 0 THEN volume[m] ELSE read[m]]

-----------------------------------------------------------------------------
(* The workers: CreatePod and DeletePod.                                   *)

\* A CreatePod that watches before it has written the volumes.
CreateWatchesFirst(p) ==
    /\ pc[p] = "volumes"
    /\ fetched' = [fetched EXCEPT ![p] = FromLister(p)]
    /\ configs' = [m \in Maps |-> IF m \in Refs[p] THEN configs[m] \cup {Current(p)}
                                  ELSE configs[m]]
    /\ Goto(p, "write")
    /\ UNCHANGED <<keysByPod, clusterVars, handlerVars, disk, life, recreated>>

CreateReads(p) ==
    /\ pc[p] = "volumes"
    /\ fetched' = [fetched EXCEPT ![p] = FromLister(p)]
    /\ Goto(p, "write")
    /\ UNCHANGED <<watcherVars, clusterVars, handlerVars, disk, life, recreated>>

CreateWrites(p) ==
    /\ pc[p] = "write"
    /\ disk' = [disk EXCEPT ![Current(p)] = Written(@, fetched[p])]
    /\ fetched' = [fetched EXCEPT ![p] = Nothing]
    /\ Goto(p, "watch")
    /\ UNCHANGED <<watcherVars, clusterVars, handlerVars, life, recreated>>

\* CreatePod fails after volumes(): it is called again later.
CreateFails(p) ==
    /\ pc[p] = "watch"
    /\ Goto(p, "volumes")
    /\ UNCHANGED <<watcherVars, clusterVars, handlerVars, workerVars, disk>>

\* A reverse index that is never written.
NoKeys(keys, refs) == keys

\* The keys Watch has in the reverse index when it is done.
WithKeys(keys, refs) == keys \cup refs

Watch(p) ==
    /\ pc[p] = "watch"
    /\ configs' = [m \in Maps |-> IF m \in Refs[p]
                                  THEN configs[m] \cup {Current(p)}
                                  ELSE configs[m]]
    /\ keysByPod' = [keysByPod EXCEPT ![p] = WithKeys(@, Refs[p])]
    /\ Goto(p, "running")
    /\ UNCHANGED <<clusterVars, handlerVars, workerVars, disk>>

\* What Unwatch(p) leaves of the pods that watch one of p's resources: in the
\* code (lines 169-175) the loop variable pod hides the parameter pod, and
\* every watching pod is compared with itself.
Kept(p, watching) == {c \in watching : c[1] # c[1]}

\* An Unwatch that goes through all resources instead of those of the pod.
UnwatchAll(p) ==
    /\ pc[p] = "unwatch"
    /\ configs' = [m \in Maps |-> Kept(p, configs[m])]
    /\ keysByPod' = [keysByPod EXCEPT ![p] = {}]
    /\ Goto(p, "clean")
    /\ UNCHANGED <<clusterVars, handlerVars, workerVars, disk>>

Unwatch(p) ==
    /\ pc[p] = "unwatch"
    /\ configs' = [m \in Maps |-> IF m \in keysByPod[p] THEN Kept(p, configs[m])
                                  ELSE configs[m]]
    /\ keysByPod' = [keysByPod EXCEPT ![p] = {}]
    /\ Goto(p, "clean")
    /\ UNCHANGED <<clusterVars, handlerVars, workerVars, disk>>

CleanVolumes(p) ==
    /\ pc[p] = "clean"
    /\ disk' = [disk EXCEPT ![Current(p)] = Nothing]
    /\ recreated' = recreated \ {p}
    /\ Goto(p, "gone")
    /\ UNCHANGED <<watcherVars, clusterVars, handlerVars, fetched, life>>

-----------------------------------------------------------------------------
(* The informer's goroutine: handleEvent and UpdateConfigMap.              *)

HandleEvent(m) ==
    /\ todo = {}
    /\ m \in pending
    /\ pending' = pending \ {m}
    /\ todo' = configs[m]
    /\ UNCHANGED <<watcherVars, workerVars, content, update, disk, pc, restarts>>

UpdateReads(c) ==
    /\ c \in todo
    /\ \A d \in todo : update[d] = Nothing
    /\ update' = [update EXCEPT ![c] = FromLister(c[1])]
    /\ UNCHANGED <<watcherVars, clusterVars, workerVars, todo, disk, pc>>

UpdateWrites(c) ==
    /\ c \in todo
    /\ update[c] # Nothing
    /\ disk' = [disk EXCEPT ![c] = Written(@, update[c])]
    /\ update' = [update EXCEPT ![c] = Nothing]
    /\ todo' = todo \ {c}
    /\ UNCHANGED <<watcherVars, clusterVars, workerVars, pc>>

-----------------------------------------------------------------------------
(* A restart of systemk.  A pod whose units are up is not created again,   *)
(* and so not watched again; one whose units are not is.  They are up once *)
(* CreatePod has gone through, and perhaps when it had to do it again or   *)
(* was about to be done.                                                   *)

\* A restart that creates every pod again.
AllAgain(label, up) == "volumes"

\* Where a restart finds the pod that was at label.
AfterRestart(label, up) ==
    IF label \in {"volumes", "write", "watch"} THEN IF up THEN "running" ELSE "volumes"
    ELSE IF label = "clean" THEN "unwatch" ELSE label

Restart ==
    /\ restarts < MaxRestarts
    /\ restarts' = restarts + 1
    /\ configs' = [m \in Maps |-> {}]
    /\ keysByPod' = [p \in Pods |-> {}]
    /\ pending' = {m \in Maps : content[m] # 0}
    /\ todo' = {}
    /\ fetched' = [p \in Pods |-> Nothing]
    /\ recreated' = {}
    /\ update' = [c \in Copy |-> Nothing]
    /\ \E up \in [Pods -> BOOLEAN] :
          /\ \A p \in Pods : pc[p] \in {"volumes", "write"} /\ up[p] => p \in recreated
          /\ pc' = [p \in Pods |-> AfterRestart(pc[p], up[p])]
    /\ UNCHANGED <<content, disk, life>>

-----------------------------------------------------------------------------
Worker(p) == CreateReads(p) \/ CreateWrites(p) \/ Watch(p) \/ Unwatch(p)
             \/ CleanVolumes(p)

Updater == \E c \in Copy : UpdateReads(c) \/ UpdateWrites(c)

Next ==
    \/ \E m \in Maps : ResourceWritten(m) \/ Resync(m) \/ HandleEvent(m)
    \/ \E p \in Pods : PodAssigned(p) \/ PodDeleted(p) \/ CreateAgain(p) \/ CreateFails(p)
                      \/ Worker(p)
    \/ Updater
    \/ Restart

Spec == Init /\ [][Next]_vars

\* Workers and the informer's goroutine keep going, the informer hands over its
\* events in the order they came, and resyncs for ever.
Fairness ==
    /\ \A p \in Pods : WF_vars(Worker(p))
    /\ \A m \in Maps : WF_vars(Resync(m)) /\ SF_vars(HandleEvent(m))
    /\ WF_vars(Updater)

FairSpec == Spec /\ Fairness

-----------------------------------------------------------------------------
(* Properties                                                              *)

\* A pod is watched only from the end of CreatePod to DeletePod's Unwatch, and
\* under its present UID: nothing of an earlier pod of that name, of a pod that
\* failed to be created or of one being deleted stays in the watcher.  A pod
\* that is created again while it runs stays watched meanwhile.
WatchesOnlyPodsThatRun ==
    \A m \in Maps : \A c \in configs[m] :
        /\ c = Current(c[1])
        /\ \/ pc[c[1]] \in {"running", "unwatch"}
           \/ c[1] \in recreated /\ pc[c[1]] \in {"volumes", "write", "watch"}

\* The new contents of a resource are never replaced on disk by older ones,
\* though CreatePod and the informer's goroutine write the same volumes: Watch
\* comes last in CreatePod.  That protects the first CreatePod of a pod only; one
\* that is called again runs beside the updates.
NoStaleOverwrite ==
    [][\A c \in Copy, m \in Maps :
          disk'[c][m] < disk[c][m] => disk'[c] = Nothing \/ c[1] \in recreated]_vars

\* Once resources are no longer written, the volumes of the pods that run hold
\* what the resources hold (README: mutated ConfigMaps and Secrets are updated
\* on disk); a change during CreatePod is made up for by the next resync.
VolumesGetFresh ==
    <>[](\A p \in Pods : pc[p] = "running" =>
            \A m \in Refs[p] : disk[Current(p)][m] = content[m])

\* The watcher implements WatchRegistry: a pair <<p, m>> is tracked while m has
\* a copy of p.
Tracked == {k \in Pods \X Maps : \E c \in configs[k[2]] : c[1] = k[1]}

Registry == INSTANCE WatchRegistry WITH tracked <- Tracked, boots <- restarts

ImplementsRegistry == Registry!Spec
=============================================================================
