----------------------------- MODULE PodStatus -----------------------------
(***************************************************************************)
(* internal/provider/unit.go, lines 143-265: the status GetPod makes of a  *)
(* pod's units.  The substates come from one ListUnits call; exit codes    *)
(* and time stamps are asked for later, unit by unit and property by       *)
(* property, each with a D-Bus call of its own, while systemd goes on.  So *)
(* a status may be put together from different moments; and a call that    *)
(* fails counts as the answer 0.                                           *)
(*                                                                         *)
(* Only the main containers are modelled: toPhase does not look at the     *)
(* init containers.  unitNames does not sort (sort.StringSlice is a type), *)
(* so the units are looked at in any order.  Which units are listed is for *)
(* PodReports to say.                                                      *)
(***************************************************************************)
EXTENDS FiniteSetsExt, Integers

CONSTANTS
    Containers,  \* the main containers of the pod
    ExitCodes    \* what a process may exit with

\* Kubernetes has no pod without containers.
ASSUME ContainersAssumption == IsFiniteSet(Containers) /\ Containers # {}
ASSUME ExitCodesAssumption == ExitCodes \subseteq Nat /\ 0 \in ExitCodes

VARIABLES
    sub,      \* SubState of each unit
    stamp,    \* whether its ExecMainExitTimestamp is set
    code,     \* its ExecMainStatus
    snap,     \* the substates ListUnits returned
    listed,   \* the containers it returned one for
    read,     \* how far containerState is with each unit
    report,   \* the container states made so far
    started   \* history: the units started, or forgotten, since ListUnits

systemdVars == <<sub, stamp, code>>
readerVars == <<snap, listed, read, report>>
vars == <<systemdVars, readerVars, started>>

\* "start" stands for all substates that begin with it and for "condition", "running"
\* for "reload" too, "stop-sigterm" for all that begin with "stop", and "final-sigterm"
\* for those containerState does not know.
SubStates == {"dead", "start", "running", "auto-restart", "stop-sigterm",
              "final-sigterm", "exited", "failed"}
Waiting == [kind |-> "waiting", code |-> 0]
Running == [kind |-> "running", code |-> 0]
Unhandled == [kind |-> "unhandled", code |-> 0]

\* A status that tells signals from exit codes by their sign.
Negated(exitcode) == [kind |-> "terminated", code |-> -exitcode]

Terminated(exitcode) == [kind |-> "terminated", code |-> exitcode]

TypeOK ==
    /\ sub \in [Containers -> SubStates]
    /\ stamp \in [Containers -> BOOLEAN]
    /\ code \in [Containers -> ExitCodes]
    /\ snap \in [Containers -> SubStates]
    /\ read \in [Containers -> {"no", "stamped", "done", "guessed"}]
    /\ report \in [Containers -> {Waiting, Running, Unhandled}
                                \cup [kind : {"terminated"}, code : ExitCodes]]
    /\ listed \subseteq Containers
    /\ started \subseteq Containers

Init ==
    /\ sub = [c \in Containers |-> "dead"]
    /\ stamp = [c \in Containers |-> FALSE]
    /\ code = [c \in Containers |-> 0]
    /\ snap = [c \in Containers |-> "dead"]
    /\ listed = {}
    /\ read = [c \in Containers |-> "no"]
    /\ report = [c \in Containers |-> Waiting]
    /\ started = {}

-----------------------------------------------------------------------------
(* systemd                                                                 *)

\* A start clears what is known of the process before.
Begin(c, s) ==
    /\ sub' = [sub EXCEPT ![c] = s]
    /\ stamp' = [stamp EXCEPT ![c] = FALSE]
    /\ code' = [code EXCEPT ![c] = 0]
    /\ started' = started \cup {c}
    /\ UNCHANGED readerVars

End(c, s, exitcode) ==
    /\ sub' = [sub EXCEPT ![c] = s]
    /\ stamp' = [stamp EXCEPT ![c] = TRUE]
    /\ code' = [code EXCEPT ![c] = exitcode]
    /\ UNCHANGED <<readerVars, started>>

Become(c, s) ==
    /\ sub' = [sub EXCEPT ![c] = s]
    /\ UNCHANGED <<stamp, code, readerVars, started>>

StartJob(c) ==
    sub[c] \in {"dead", "failed"} /\ \E s \in {"start", "running"} : Begin(c, s)

StartupOver(c) == sub[c] = "start" /\ Become(c, "running")

\* RemainAfterExit=true; the Restart= of a package's unit file stays in force.
ProcessExits(c) ==
    /\ sub[c] \in {"start", "running"}
    /\ \E x \in ExitCodes :
          \E s \in {IF x = 0 THEN "exited" ELSE "failed", "auto-restart"} : End(c, s, x)

AutoRestart(c) == sub[c] = "auto-restart" /\ Begin(c, "running")

StopJob(c) ==
    \/ sub[c] \in {"start", "running"} /\ Become(c, "stop-sigterm")
    \/ sub[c] \in {"exited", "auto-restart"} /\ Become(c, "dead")

\* A process that dies of SIGTERM leaves a dead unit and 15 as its status, or other
\* processes that have to go first.
StopJobEnds(c) ==
    /\ sub[c] = "stop-sigterm"
    /\ \E x \in ExitCodes :
          \E s \in {"dead", "final-sigterm"} \cup (IF x = 0 THEN {} ELSE {"failed"}) : End(c, s, x)

LastProcessGone(c) ==
    /\ sub[c] = "final-sigterm"
    /\ \E s \in {"dead"} \cup (IF code[c] = 0 THEN {} ELSE {"failed"}) : Become(c, s)

ResetFailed(c) == sub[c] = "failed" /\ Become(c, "dead")

\* systemd keeps nothing of a unit that is not loaded.
Forget(c) ==
    /\ sub[c] = "dead"
    /\ stamp' = [stamp EXCEPT ![c] = FALSE]
    /\ code' = [code EXCEPT ![c] = 0]
    /\ started' = started \cup {c}
    /\ UNCHANGED <<sub, readerVars>>

Systemd(c) ==
    \/ StartJob(c) \/ StartupOver(c) \/ ProcessExits(c) \/ AutoRestart(c)
    \/ StopJob(c) \/ StopJobEnds(c) \/ LastProcessGone(c) \/ ResetFailed(c)

-----------------------------------------------------------------------------
(* GetPod: States, then containerState of each unit, then toPhase.         *)

ListUnits(units) ==
    /\ listed' = units
    /\ snap' = sub
    /\ read' = [c \in Containers |-> "no"]
    /\ report' = [c \in Containers |-> Waiting]
    /\ started' = {}
    /\ UNCHANGED systemdVars

Answer(c, state, how) ==
    /\ report' = [report EXCEPT ![c] = state]
    /\ read' = [read EXCEPT ![c] = how]
    /\ UNCHANGED <<systemdVars, snap, listed, started>>

\* A property that cannot be read is "" (ServiceProperty), and "" is the number 0.
CodeIsRead(c) == Answer(c, Terminated(code[c]), "done")
CodeIsGuessed(c) == Answer(c, Terminated(0), "guessed")
StampIsGuessed(c) == Answer(c, Waiting, "guessed")

\* The unit has left the stage: its exit code is asked for now.
StateOfEnded(c) ==
    /\ read[c] = "no"
    /\ snap[c] \in {"stop-sigterm", "failed", "exited"}
    /\ CodeIsRead(c) \/ CodeIsGuessed(c)

\* A dead unit whose exit is never looked up.
DeadIsWaiting(c) ==
    read[c] = "no" /\ snap[c] = "dead" /\ Answer(c, Waiting, "done")

\* A dead unit either ran or waits to be run: its time stamp tells.
StateOfDead(c) ==
    /\ read[c] = "no"
    /\ snap[c] = "dead"
    /\ \/ /\ stamp[c]
          /\ read' = [read EXCEPT ![c] = "stamped"]
          /\ UNCHANGED <<systemdVars, snap, listed, report, started>>
       \/ ~stamp[c] /\ Answer(c, Waiting, "done")
       \/ StampIsGuessed(c)

\* And its exit code is a call of its own.
CodeOfDead(c) == read[c] = "stamped" /\ (CodeIsRead(c) \/ CodeIsGuessed(c))

StateOfLive(c) ==
    /\ read[c] = "no"
    /\ \/ snap[c] = "start" /\ Answer(c, Waiting, "done")
       \/ snap[c] \in {"running", "auto-restart"} /\ Answer(c, Running, "done")
       \/ snap[c] = "final-sigterm" /\ Answer(c, Unhandled, "done")

ContainerState(c) ==
    /\ c \in listed
    /\ StateOfEnded(c) \/ StateOfDead(c) \/ CodeOfDead(c) \/ StateOfLive(c)

OfKind(kind) == {c \in listed : report[c].kind = kind}

\* A toPhase that counts the containers it has an exit code of.
PhaseByCodes ==
    IF \E c \in listed : report[c].code # 0 THEN "Failed"
    ELSE IF OfKind("terminated") # {} THEN "Succeeded"
    ELSE IF OfKind("waiting") # {} THEN "Pending" ELSE "Running"

\* toPhase, of the units that were listed, Running if none was: one waiting
\* container makes the pod Pending; a pod some of whose containers run while
\* others are over is Unknown.
toPhase ==
    IF OfKind("waiting") # {} THEN "Pending"
    ELSE IF OfKind("running") = listed THEN "Running"
    ELSE IF OfKind("terminated") # listed THEN "Unknown"
    ELSE IF MapThenSumSet(LAMBDA c : report[c].code, listed) = 0
    THEN "Succeeded" ELSE "Failed"

-----------------------------------------------------------------------------
(* Properties                                                              *)

Reported == \A c \in listed : read[c] \in {"done", "guessed"}

\* A pod is reported Succeeded only if the process of every container listed has
\* ended, be it before a later start; only a unit that is being stopped counts
\* as over before its process is (unit.go:173, "stop" substates).
SucceededMeansEnded ==
    Reported /\ toPhase = "Succeeded" =>
        \A c \in listed : stamp[c] \/ c \in started \/ snap[c] = "stop-sigterm"

Guessed == {c \in listed : read[c] = "guessed"}

\* Once all containers are over and none is started again, the phase tells how
\* they ended, and keeps telling so when their units are stopped or reset
\* meanwhile: a dead unit still answers for its last process (pod.go:187-188).
\* Properties that cannot be read (manager.go:177) may hide a failure or leave
\* the pod Pending, but never make up a failure, nor hide one that was read.
FinishedPhase ==
    /\ listed = Containers /\ Reported
    /\ started = {}
    /\ \A c \in Containers : stamp[c] /\ snap[c] \in {"exited", "failed", "dead"}
    => /\ toPhase \in {"Pending", "Succeeded", "Failed"}
       /\ toPhase = "Pending" => \E c \in Guessed : snap[c] = "dead"
       /\ toPhase = "Succeeded" => \A c \in Containers \ Guessed : code[c] = 0
       /\ toPhase = "Failed" => \E c \in Containers \ Guessed : code[c] # 0
=============================================================================
