---------------------------- MODULE UnitManager ----------------------------
(***************************************************************************)
(* internal/unit/manager.go: the unit manager that stands between the      *)
(* provider and systemd.  A container of a pod is one systemd unit, so a   *)
(* unit is <<pod, i>> where i is the position of the container in the      *)
(* concatenation of the pod's init containers and its main containers      *)
(* (pod.go:90).                                                            *)
(*                                                                         *)
(*   file[u]    the unit file in /var/run/systemk                          *)
(*   linked[u]  systemd's symlinks to it (LinkUnitFiles, EnableUnitFiles)  *)
(*   state[u]   what systemd holds in memory about the unit                *)
(*                                                                         *)
(* The operators named after manager methods are the effects of one call;  *)
(* module PodLifecycle says who calls them and when.  The last group is    *)
(* systemd itself, which is not part of the repository and is modelled     *)
(* from how the code uses it over D-Bus.                                   *)
(***************************************************************************)
EXTENDS Integers

CONSTANTS
    Pods,      \* the pods the API server may assign to this node
    NumInit,   \* init containers of each pod
    NumMain    \* main containers of each pod

ASSUME SpecAssumption ==
    /\ NumInit \in Nat
    /\ NumMain \in Nat \ {0}

VARIABLES file, linked, state

umVars == <<file, linked, state>>

Containers == 1..(NumInit + NumMain)
Unit == Pods \X Containers
UnitsOf(p) == {p} \X Containers
IsInit(u) == u[2] <= NumInit

FileState == {"absent", "empty", "whole"}

\* "unloaded" units are unknown to systemd and are not listed; "queued" is a
\* start job waiting for its turn, "restarting" a start job waiting for the
\* stop that is under way, "starting" an init container (Type=oneshot) at work.
UnitState == {"unloaded", "dead", "queued", "starting", "running", "exited",
              "failed", "stopping", "restarting"}

\* States in which a start or a stop job is pending.
Pending == {"queued", "starting", "stopping", "restarting"}

\* States in which the unit runs, has run, or is about to.
Live == {"queued", "starting", "running", "exited", "restarting"}

UMTypeOK ==
    /\ file \in [Unit -> FileState]
    /\ linked \in [Unit -> BOOLEAN]
    /\ state \in [Unit -> UnitState]

UMInit ==
    /\ file = [u \in Unit |-> "absent"]
    /\ linked = [u \in Unit |-> FALSE]
    /\ state = [u \in Unit |-> "unloaded"]

-----------------------------------------------------------------------------
(* Load: writeUnit truncates the file and fills it, and the unit is linked *)
(* and enabled.  Readers of unit files do not take the mutex, so each is a *)
(* step.  LinkUnitFiles and EnableUnitFiles are one: a unit that is linked *)
(* and not enabled is not wanted by anything, so that systemd keeps it out *)
(* of memory, and nobody starts it before it was loaded again.             *)

WriteUnitBegin(u) ==
    /\ file' = [file EXCEPT ![u] = "empty"]
    /\ UNCHANGED <<linked, state>>

WriteUnitEnd(u) ==
    /\ file' = [file EXCEPT ![u] = "whole"]
    /\ UNCHANGED <<linked, state>>

EnableUnit(u) ==
    /\ linked' = [linked EXCEPT ![u] = TRUE]
    /\ UNCHANGED <<file, state>>

\* A removeUnit that returns as soon as DisableUnitFiles fails.
FileKeptIfEnabled(u, disabled) == IF disabled THEN "absent" ELSE file[u]

\* A removeUnit that leaves the file to a unit that is still stopping.
FileKeptWhileStopping(u, disabled) ==
    IF state[u] = "stopping" THEN file[u] ELSE "absent"

\* Where the unit file is after removeUnit: os.Remove runs whatever the D-Bus
\* calls before it answered.
FileAfterRemove(u, disabled) == "absent"

\* What ResetFailedUnit makes of a unit.
ResetFailed(s) == IF s = "failed" THEN "dead" ELSE s

\* removeUnit: DisableUnitFiles (which may fail), ResetFailedUnit, os.Remove.
RemoveUnit(u, disabled) ==
    /\ linked' = [linked EXCEPT ![u] = @ /\ ~disabled]
    /\ state' = [state EXCEPT ![u] = ResetFailed(@)]
    /\ file' = [file EXCEPT ![u] = FileAfterRemove(u, disabled)]

-----------------------------------------------------------------------------
(* Start, stop and reload only queue jobs in systemd.                      *)

AfterStart(s) ==
    IF s \in {"unloaded", "dead", "failed"} THEN "queued"
    ELSE IF s = "stopping" THEN "restarting" ELSE s

AfterStop(s) ==
    IF s \in {"starting", "running", "restarting"} THEN "stopping"
    ELSE IF s \in {"queued", "exited"} THEN "dead" ELSE s

\* StartUnit on a name systemd neither has in memory nor finds on disk fails.
Startable(u) == state[u] # "unloaded" \/ (linked[u] /\ file[u] # "absent")

TriggerStart(u) ==
    /\ state' = [state EXCEPT ![u] = IF Startable(u) THEN AfterStart(@) ELSE @]
    /\ UNCHANGED <<file, linked>>

TriggerStop(u) ==
    /\ state' = [state EXCEPT ![u] = AfterStop(@)]
    /\ UNCHANGED <<file, linked>>

\* Reload brings every enabled unit into memory: multi-user.target wants it.
Reload ==
    /\ state' = [u \in Unit |-> IF linked[u] /\ state[u] = "unloaded"
                                THEN "dead" ELSE state[u]]
    /\ UNCHANGED <<file, linked>>

-----------------------------------------------------------------------------
(* systemd: jobs run in the order the After= options of CreatePod ask for. *)

\* A CreatePod that orders the init containers only.
LastInitOfInits(i) == IF i <= NumInit THEN i - 1 ELSE 0

\* CreatePod writes After=<the last init container before this one>, if any.
LastInitBefore(i) == IF i - 1 <= NumInit THEN i - 1 ELSE NumInit
After(u) == {v \in UnitsOf(u[1]) : v[2] = LastInitBefore(u[2])}

StartJobRuns(u) ==
    /\ state[u] = "queued"
    /\ \A v \in After(u) : state[v] \notin Pending
    /\ \E s \in {IF IsInit(u) THEN "starting" ELSE "running", "failed"} :
          state' = [state EXCEPT ![u] = s]
    /\ UNCHANGED <<file, linked>>

\* RemainAfterExit=true keeps a finished unit around as "exited".
ProcessExits(u) ==
    /\ state[u] \in {"starting", "running"}
    /\ \E s \in {"exited", "failed"} : state' = [state EXCEPT ![u] = s]
    /\ UNCHANGED <<file, linked>>

StopJobEnds(u) ==
    /\ \/ /\ state[u] = "stopping"
          /\ \E s \in {"dead", "failed"} : state' = [state EXCEPT ![u] = s]
       \/ /\ state[u] = "restarting"
          /\ state' = [state EXCEPT ![u] = "queued"]
    /\ UNCHANGED <<file, linked>>

\* systemd forgets an inactive unit that nothing wants.
Collected(u) ==
    /\ state[u] = "dead"
    /\ ~linked[u]
    /\ state' = [state EXCEPT ![u] = "unloaded"]
    /\ UNCHANGED <<file, linked>>

SystemdStep(u) ==
    StartJobRuns(u) \/ ProcessExits(u) \/ StopJobEnds(u) \/ Collected(u)
=============================================================================
