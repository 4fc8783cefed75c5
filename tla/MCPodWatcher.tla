---------------------------- MODULE MCPodWatcher ----------------------------
(* Instances of PodWatcher for TLC.                                        *)
EXTENDS PodWatcher, TLC

CONSTANTS web, db, tls, conf

ThePods == {web, db}
OneMap == {tls}
TwoMaps == {tls, conf}

\* Both pods mount tls.
TlsRefs == web :> {tls} @@ db :> {tls}

\* No ConfigMap is in two pods.
OwnRefs == web :> {tls} @@ db :> {conf}
=============================================================================
