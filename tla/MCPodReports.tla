---------------------------- MODULE MCPodReports ----------------------------
(* Instances of PodReports for TLC.  The labels are chosen to be confused: *)
(* "web" is a namespace and a pod, "db" a namespace, a container and a     *)
(* part of the name of a pod, "service" a container.                       *)
EXTENDS PodReports

TwoNamespaces == {"web", "db"}
\* A name with a dot, but none that goes on where another one ends.
ApartNames == {<<"web">>, <<"db", "web">>}
TwoContainers == {"db", "service"}
WebInWeb == <<"web", <<"web">>>>
Codes == {0, 15}
=============================================================================
