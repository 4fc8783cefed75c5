--------------------------- MODULE MCPodLifecycle ---------------------------
(* Instances of PodLifecycle for TLC.                                      *)
EXTENDS PodLifecycle, TLC

CONSTANTS web, db, poll

OnePod == {web}
TwoPods == {web, db}
NoPoller == {}
OnePoller == {poll}

NoFaults == {}
OrderFaults == {"crash", "install", "disable"}
AllFaults == {"list", "load", "start", "stop", "disable", "install", "crash"}
AllButStop == AllFaults \ {"stop", "disable"}
AllButList == AllFaults \ {"list"}
=============================================================================
