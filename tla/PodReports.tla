----------------------------- MODULE PodReports -----------------------------
(***************************************************************************)
(* GetPod of one pod among others: which units systemd lists, which of     *)
(* them the names say are the pod's (UnitNames), and what is then made of  *)
(* them (PodStatus).  The units of the pod come one by one while it is     *)
(* created, and go one by one while it is deleted; so do those of others.  *)
(***************************************************************************)
EXTENDS PodStatus, Sequences

CONSTANTS
    Namespaces, PodNames,  \* see UnitNames
    Mine,                  \* the pod that is asked for
    MaxOthers              \* bound: how many units of others there are besides its own

VARIABLE loaded  \* the units systemd lists

Names == INSTANCE UnitNames

allVars == <<vars, loaded>>

\* The name of a pod has at least one label.
Label == {"systemk", "service"} \cup Namespaces \cup Containers
         \cup UNION {{name[i] : i \in DOMAIN name} : name \in PodNames}

ASSUME NamesAssumption == PodNames \subseteq Seq(Label) \ {<<>>}
ASSUME MineAssumption == Mine \in Names!PodIds

Own(c) == <<Mine, c>>
OwnLoaded == {c \in Containers : Own(c) \in loaded}
Others == {u \in loaded : u[1] # Mine}

TypesOK == TypeOK /\ loaded \subseteq Names!Unit

InitAll == Init /\ Names!Init

-----------------------------------------------------------------------------
\* Load and Reload of any pod.
LoadUnit(u) ==
    /\ u[1] = Mine => Cardinality(Others) <= MaxOthers
    /\ u[1] # Mine /\ OwnLoaded # {} => Cardinality(Others) < MaxOthers
    /\ Names!Load(u)
    /\ UNCHANGED vars

\* Unload and Reload of any pod, or systemd itself: a dead unit goes.
UnloadUnit(u) ==
    /\ Names!Unload(u)
    /\ IF u[1] = Mine THEN Forget(u[2]) ELSE UNCHANGED vars

SystemdStep(c) == c \in OwnLoaded /\ Systemd(c) /\ UNCHANGED loaded

\* States of the pod's prefix; toContainerStatuses takes the name of a container out
\* of the name of its unit.
GetPod ==
    /\ ListUnits({Names!Container(n) : n \in Names!States(Names!unitPrefix(Mine))})
    /\ UNCHANGED loaded

ReportUnit(c) == ContainerState(c) /\ UNCHANGED loaded

Next ==
    \/ \E u \in Names!Unit : LoadUnit(u) \/ UnloadUnit(u)
    \/ GetPod
    \/ \E c \in Containers : SystemdStep(c) \/ ReportUnit(c)

Spec == InitAll /\ [][Next]_allVars

-----------------------------------------------------------------------------
(* Properties                                                              *)

\* See UnitNames: the units GetPod looks at are all those of the pod, and no other's.
GetPodSeesItsUnits == Names!GetPodSeesItsUnits

\* See UnitNames: GetPods asks for the pods that have units, and statuses name their
\* containers, as far as names without dots go.
NamesParse == Names!NamesParse

\* See UnitNames: no unit file is ever shared.
NamesDistinct == Names!NamesDistinct
=============================================================================
