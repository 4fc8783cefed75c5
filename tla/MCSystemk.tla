----------------------------- MODULE MCSystemk -----------------------------
(* Instances of Systemk for TLC.                                           *)
EXTENDS Systemk, TLC

CONSTANTS w1, w2, starter, r1

TwoWorkers == {w1, w2}
OneRequest == {r1}

Name(p) == [form |-> "name", package |-> p]
Url(p) == [form |-> "url", package |-> p]
Path(p) == [form |-> "path", package |-> p]

\* Both pods want nginx, one of them by its URL; redis is there before systemk is,
\* and a program that is not a package has the name of one that is.
TheImages ==
    w1 :> <<Url("nginx"), Url("redis")>> @@ w2 :> <<Path("redis"), Name("nginx")>>
    @@ starter :> <<Name("policyrcd")>>
TheBefore == {"redis"}

Ip(a, p) == [ip |-> a, private |-> p]
NoStrings == [x \in {} |-> ""]

\* A Debian without a server: it installs packages.
Debian ==
    [keys |-> <<"PRETTY_NAME", "NAME", "ID">>, newline |-> TRUE, id |-> "debian",
     ips |-> <<Ip("1.2.3.4", FALSE), Ip("10.0.0.1", TRUE), Ip("10.0.0.2", TRUE)>>,
     ifaces |-> "eth0" :> "1.2.3.4" @@ "eth1" :> "10.0.0.1",
     env |-> "HOSTNAME" :> "fromenv" @@ "KUBECONFIG" :> "env.conf",
     given |-> "nodename" :> "fromflag", tls |-> FALSE]

\* An Arch Linux with a server: it answers requests.  It is behind a NAT.
Arch ==
    [keys |-> <<"NAME", "PRETTY_NAME", "ID">>, newline |-> TRUE, id |-> "arch",
     ips |-> <<Ip("10.0.0.1", TRUE)>>, ifaces |-> "eth0" :> "10.0.0.1",
     env |-> "HOSTNAME" :> "fromenv",
     given |-> "addr" :> "10.0.0.1:10250" @@ "external-ip" :> "1.2.3.4"
               @@ "kubeconfig" :> "given.conf", tls |-> TRUE]

\* VERSION_ID comes before ID; and of two private addresses it is to use the second.
Ubuntu ==
    [keys |-> <<"NAME", "VERSION_ID", "ID">>, newline |-> TRUE, id |-> "ubuntu",
     ips |-> <<Ip("10.0.0.1", TRUE), Ip("10.0.0.7", TRUE)>>,
     ifaces |-> "eth0" :> "10.0.0.1" @@ "eth1" :> "10.0.0.7", env |-> NoStrings,
     given |-> "internal-iface" :> "eth1" @@ "internal-ip" :> "10.0.0.1", tls |-> FALSE]

\* The interface it is to use has not got an address yet.
Early == [Ubuntu EXCEPT !.ips = <<Ip("10.0.0.1", TRUE)>>, !.ifaces = "eth0" :> "10.0.0.1"]

\* All it has is a public address.
Cloud ==
    [Ubuntu EXCEPT !.ips = <<Ip("1.2.3.4", FALSE)>>, !.ifaces = "eth0" :> "1.2.3.4",
                   !.given = NoStrings]

\* An address without a port, and files whose last line does not end.
NoPort == [Cloud EXCEPT !.given = "addr" :> "localhost"]
NoEnd == [Cloud EXCEPT !.keys = <<"NAME", "ID">>, !.newline = FALSE]
NoEndOfName == [Cloud EXCEPT !.keys = <<"ID", "PRETTY_NAME">>, !.newline = FALSE]

TheMachines == {Debian, Arch, Ubuntu, Early, Cloud, NoPort, NoEnd, NoEndOfName}
=============================================================================
