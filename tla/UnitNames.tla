----------------------------- MODULE UnitNames -----------------------------
(***************************************************************************)
(* internal/provider/pod.go, lines 392-435: the names of the units, which  *)
(* are all systemk has to tell one pod's units from another's: GetPod asks *)
(* systemd for the units whose name starts with the pod's prefix, and      *)
(* GetPods takes the names of the pods out of the names of the units.      *)
(*                                                                         *)
(* A name is the sequence of its labels, the parts between the dots: the   *)
(* code builds names by joining with "." and takes them apart by splitting *)
(* at ".".  Namespaces and containers are one label, but the name of a pod *)
(* may have several (Kubernetes allows DNS subdomains).                    *)
(***************************************************************************)
EXTENDS Sequences, SequencesExt

CONSTANTS
    Namespaces,  \* a set of labels
    PodNames,    \* a set of non-empty sequences of labels
    Containers   \* a set of labels

VARIABLE loaded  \* the units systemd lists, as <<pod, container>>

PodIds == Namespaces \X PodNames
Unit == PodIds \X Containers

\* A prefix without the namespace.
PrefixOfName(pod) == <<"systemk">> \o pod[2]

unitPrefix(pod) == <<"systemk", pod[1]>> \o pod[2]

\* A name without the container.
NameOfPod(pod, container) == unitPrefix(pod) \o <<"service">>

podToUnitName(pod, container) == unitPrefix(pod) \o <<container, "service">>

NameOf(u) == podToUnitName(u[1], u[2])

\* strings.HasPrefix(name, prefix + "."): the closing dot makes it a matter of
\* whole labels, "update" is no prefix of "update2".
HasPrefix(prefix, name) == IsStrictPrefix(prefix, name)

\* States: the names of the listed units that start with the prefix.
States(prefix) == {n \in {NameOf(u) : u \in loaded} : HasPrefix(prefix, n)}

\* An index off by one.
LabelAfterPod(name) == name[5]

\* Taking a name apart counts labels from the left.
Namespace(name) == name[2]
Pod(name) == name[3]
Container(name) == name[4]

\* GetPods: the pods it then calls GetPod for.
Asked == {<<Namespace(n), <<Pod(n)>>>> : n \in States(<<"systemk">>)}

-----------------------------------------------------------------------------
Init == loaded = {}

Load(u) == u \notin loaded /\ loaded' = loaded \cup {u}

Unload(u) == u \in loaded /\ loaded' = loaded \ {u}

-----------------------------------------------------------------------------
\* Two containers never share a unit, so that loading one of them never
\* replaces the unit file of the other: even with dotted names of pods.
NamesDistinct ==
    \A u, v \in loaded : NameOf(u) = NameOf(v) => u = v

\* GetPod is about the units of the pod, all of them and no other (pod.go:26).
GetPodSeesItsUnits ==
    \A pod \in PodIds :
        States(unitPrefix(pod)) = {NameOf(u) : u \in {v \in loaded : v[1] = pod}}

\* GetPods asks for every pod that has units, and the containers of its statuses have
\* their names (pod.go:407-435), if the name of the pod has no dot, whatever other pods
\* there are; if no name has, it asks for no other pod.
NamesParse ==
    LET plain == {u \in loaded : Len(u[1][2]) = 1}
        pods == {u[1] : u \in plain}
    IN  /\ pods \subseteq Asked
        /\ plain = loaded => Asked = pods
        /\ \A u \in plain : Container(NameOf(u)) = u[2]
=============================================================================
