--------------------------- MODULE WatchRegistry ---------------------------
(***************************************************************************)
(* What internal/kubernetes/watch.go promises (the comments at lines       *)
(* 24-28): Watch keeps track of the resources of a pod, Unwatch stops      *)
(* tracking the resources of that pod, and neither touches another pod.    *)
(* Module PodWatcher is the watcher as it is written.                      *)
(***************************************************************************)
EXTENDS Naturals

CONSTANTS
    Pods,
    Maps,  \* the ConfigMaps (or the Secrets) of the pods' namespaces
    Refs   \* Refs[p]: those a volume of the pod p refers to

VARIABLES
    tracked,  \* the pairs <<p, m>> where p is told of changes of m
    boots     \* how often systemk was restarted

vars == <<tracked, boots>>

Init == tracked = {} /\ boots = 0

Watch(p) == tracked' = tracked \cup ({p} \X Refs[p]) /\ UNCHANGED boots

Unwatch(p) == tracked' = tracked \ ({p} \X Maps) /\ UNCHANGED boots

\* A restart of systemk is the only thing that may forget all pods.
Forget == tracked' = {} /\ boots' = boots + 1

Next == Forget \/ \E p \in Pods : Watch(p) \/ Unwatch(p)

Spec == Init /\ [][Next]_vars
=============================================================================
