------------------------------ MODULE Startup ------------------------------
(***************************************************************************)
(* main.go, cmd/ and provider.New: from the command line to a node that is *)
(* ready, and to the end of the process.  The main goroutine goes from one *)
(* step to the next; the goroutines it leaves behind are the one that      *)
(* waits for a signal, the server's, and those of the two controllers.     *)
(***************************************************************************)
EXTENDS SequencesExt

CONSTANTS
    Machines, \* what systemk may be started on and with: a set of records
    Portless  \* the addresses without a colon

\* A machine has
\*   keys, id  the keys of /etc/os-release in their order, and the value of ID;
\*   newline   whether the last line of that file ends in one;
\*   ips       the addresses that were found, each with what RFC 1918 says of it;
\*   ifaces    the first address of each of its interfaces that has one;
\*   env       the values of HOSTNAME and KUBECONFIG, if they are set;
\*   given     the flags of the command line;
\*   tls       whether a certificate and a key are among them.

VARIABLES
    machine,    \* the machine of this run
    main,       \* where the main goroutine is
    over,       \* how the process has ended
    signalled,  \* whether a signal has been sent
    cancelled,  \* whether the context is done
    opts,       \* the options
    addresses,  \* the addresses the node advertises
    synced,     \* the informers whose cache holds what the API server does
    server,     \* the server of the kubelet API
    podCtl,     \* the pod controller
    nodeCtl,    \* the node controller
    ready       \* whether the node was reported ready

vars == <<machine, main, over, signalled, cancelled, opts, addresses, synced,
          server, podCtl, nodeCtl, ready>>

Caches == {"pods", "resources"}
MainPcs == {"flags", "client", "policyrcd", "node", "podsync", "ressync",
            "server", "podctl", "nodectl", "ready", "wait"}

-----------------------------------------------------------------------------
(* The options: flags are installed with their defaults, then SetDefaultOpts *)
(* fills in what is not set, and then the command line is read.              *)

Option == {"nodename", "addr", "kubeconfig", "internal-ip", "external-ip",
           "internal-iface", "external-iface"}

\* The values of flags that were not given.
InstallFlags ==
    [o \in Option |->
        CASE o = "addr" -> ":10250"
          [] o \in {"internal-ip", "external-ip"} -> "0.0.0.0"
          [] OTHER -> ""]

\* HOSTNAME counts if it is set, even to nothing; KUBECONFIG if it is not empty.  The
\* address it looks at is the flag's default: the command line is read later.
SetDefaultOpts(o, env) ==
    [o EXCEPT
        !["nodename"] = IF @ # "" THEN @
                        ELSE IF "HOSTNAME" \in DOMAIN env THEN env["HOSTNAME"] ELSE "host",
        !["addr"] = IF @ \in Portless THEN ":10250" ELSE @,
        !["kubeconfig"] = IF @ # "" THEN @
                          ELSE IF "KUBECONFIG" \in DOMAIN env /\ env["KUBECONFIG"] # ""
                          THEN env["KUBECONFIG"] ELSE "~/.kube/config"]

Parse(o, given) == [k \in Option |-> IF k \in DOMAIN given THEN given[k] ELSE o[k]]

\* Flags that are installed after the defaults are set.
InstalledLast(m) == Parse(InstallFlags, m.given)

Options(m) == Parse(SetDefaultOpts(InstallFlags, m.env), m.given)

-----------------------------------------------------------------------------
(* computeNodeAddresses and ID: pure functions of the machine.             *)

\* Of the three private blocks an address is in one at most, and it is filed under
\* external for each one it is not in.
InternalIPs(m) == SelectSeq(m.ips, LAMBDA ip : ip.private)
ExternalIPs(m) == m.ips

FirstOf(ips) == ips[1]

\* There may be no such interface, or no address on it.
IPFromInterface(m, iface) == IF iface \in DOMAIN m.ifaces THEN m.ifaces[iface] ELSE ""

\* An interface without an address counts as none given.
AdvertisedAnyhow(m, iface, ip, found) ==
    IF iface \in DOMAIN m.ifaces THEN m.ifaces[iface]
    ELSE IF ip # "0.0.0.0" THEN ip
    ELSE IF found = <<>> THEN "" ELSE FirstOf(found).ip

\* The switch of one kind of address: the interface, then the address of the
\* command line, then what was found.  "" if there is none: its errors are kept, and
\* nobody looks at them.
Advertised(m, iface, ip, found) ==
    IF iface # "" THEN IPFromInterface(m, iface)
    ELSE IF ip # "0.0.0.0" THEN ip
    ELSE IF found = <<>> THEN "" ELSE FirstOf(found).ip

NodeAddresses(m, o) ==
    [internal |-> Advertised(m, o["internal-iface"], o["internal-ip"], InternalIPs(m)),
     external |-> Advertised(m, o["external-iface"], o["external-ip"], ExternalIPs(m))]

\* An address that was found becomes an option, that of an interface does not.
Keeps(iface, ip, found) ==
    IF iface # "" \/ ip # "0.0.0.0" \/ found = <<>> THEN ip ELSE FirstOf(found).ip

AfterAddresses(m, o) ==
    [o EXCEPT !["internal-ip"] = Keeps(o["internal-iface"], @, InternalIPs(m)),
              !["external-ip"] = Keeps(o["external-iface"], @, ExternalIPs(m))]

\* The first line of os-release whose key ends in this, or 0.
LineOf(m, key) ==
    SelectInSeq(m.keys, LAMBDA k : k = key \/ (key = "ID" /\ k = "VERSION_ID"))

\* ID: the first key that ends in "ID" is taken, VERSION_ID too, but not if it is
\* the first thing in the file.
ID(m) == IF LineOf(m, "ID") > 1 /\ m.keys[LineOf(m, "ID")] = "ID" THEN m.id ELSE "unknown"

\* ID and Image look for the end of the line they take, and cut at -1 if there is
\* none; without such a key they take what follows the first bytes of the file.
CutsAtMinusOne(m, key) ==
    /\ ~m.newline /\ m.keys # <<>>
    /\ m.keys[1] # key
    /\ LineOf(m, key) = Len(m.keys) \/ (LineOf(m, key) = 0 /\ Len(m.keys) = 1)

ChosenManager(m) ==
    CASE ID(m) \in {"debian", "ubuntu"} -> "debian"
      [] ID(m) = "arch" -> "arch"
      [] OTHER -> "noop"

-----------------------------------------------------------------------------
(* The main goroutine.                                                     *)

TypeOK ==
    /\ machine \in Machines
    /\ main \in MainPcs
    /\ over \in {"no", "exit", "fatal", "panic", "killed"}
    /\ signalled \in BOOLEAN /\ cancelled \in BOOLEAN /\ ready \in BOOLEAN
    /\ DOMAIN opts = Option /\ DOMAIN addresses = {"internal", "external"}
    /\ synced \subseteq Caches
    /\ server \in {"off", "up"}
    /\ podCtl \in {"off", "started", "running", "ended"}
    /\ nodeCtl \in {"off", "started", "running", "ended"}

Begins ==
    [main |-> "flags", over |-> "no", signalled |-> FALSE, cancelled |-> FALSE,
     opts |-> InstallFlags, addresses |-> [internal |-> "", external |-> ""],
     synced |-> {}, server |-> "off", podCtl |-> "off", nodeCtl |-> "off", ready |-> FALSE]

Init ==
    /\ machine \in Machines
    /\ main = Begins.main /\ over = Begins.over
    /\ signalled = Begins.signalled /\ cancelled = Begins.cancelled
    /\ opts = Begins.opts /\ addresses = Begins.addresses
    /\ synced = Begins.synced /\ server = Begins.server
    /\ podCtl = Begins.podCtl /\ nodeCtl = Begins.nodeCtl /\ ready = Begins.ready

\* The process is started again, on the machine it was on.
Restart ==
    /\ over # "no"
    /\ main' = Begins.main /\ over' = Begins.over
    /\ signalled' = Begins.signalled /\ cancelled' = Begins.cancelled
    /\ opts' = Begins.opts /\ addresses' = Begins.addresses
    /\ synced' = Begins.synced /\ server' = Begins.server
    /\ podCtl' = Begins.podCtl /\ nodeCtl' = Begins.nodeCtl /\ ready' = Begins.ready
    /\ UNCHANGED machine

Main(from, to) == main = from /\ main' = to /\ UNCHANGED <<machine, over>>

contextVars == <<signalled, cancelled>>
configVars == <<opts, addresses>>
goroutineVars == <<synced, server, podCtl, nodeCtl, ready>>

\* The process ends: by log.Fatal, by a panic, or by the return of main.
Ends(how) ==
    /\ over' = how
    /\ UNCHANGED <<machine, main, contextVars, configVars, goroutineVars>>

ReadFlags ==
    /\ Main("flags", "client")
    /\ opts' = Options(machine)
    /\ UNCHANGED <<contextVars, addresses, goroutineVars>>

\* The client configuration, the unit directory and the D-Bus connection; then the
\* package manager is chosen.
SetUp ==
    \/ /\ ~CutsAtMinusOne(machine, "ID")
       /\ Main("client", "policyrcd")
       /\ UNCHANGED <<contextVars, configVars, goroutineVars>>
    \/ main = "client" /\ CutsAtMinusOne(machine, "ID") /\ Ends("panic")
    \/ main = "client" /\ Ends("fatal")

\* New returns: Policyrcd is installed, or was not to be had.
ProviderIsNew ==
    Main("policyrcd", "node") /\ UNCHANGED <<contextVars, configVars, goroutineVars>>

\* ConfigureNode takes the port from behind the colon of the address, which no one
\* has looked at.
NodePanics == opts["addr"] \in Portless \/ CutsAtMinusOne(machine, "PRETTY_NAME")

ConfigureNode ==
    \/ /\ ~NodePanics
       /\ Main("node", "podsync")
       /\ addresses' = NodeAddresses(machine, opts)
       /\ opts' = AfterAddresses(machine, opts)
       /\ UNCHANGED <<contextVars, goroutineVars>>
    \/ main = "node" /\ NodePanics /\ Ends("panic")

\* The informers of a factory run from its Start on, until the context is done.
Started(cache) ==
    main \notin {"flags", "client", "policyrcd", "node"}
    /\ (cache = "resources" => main # "podsync")

CacheSyncs(cache) ==
    /\ Started(cache) /\ ~cancelled /\ cache \notin synced
    /\ synced' = synced \cup {cache}
    /\ UNCHANGED <<machine, main, over, contextVars, configVars, server, podCtl, nodeCtl, ready>>

\* A WaitForCacheSync without the context, and one for the pods only.
SyncOrNever(cache) == cache \in synced
SyncOfPods(cache) == "pods" \in synced \/ cancelled

\* WaitForCacheSync returns; nobody looks at what.
SyncOver(cache) == cache \in synced \/ cancelled

WaitForCacheSync ==
    /\ \/ SyncOver("pods") /\ Main("podsync", "ressync")
       \/ SyncOver("resources") /\ Main("ressync", "server")
    /\ UNCHANGED <<contextVars, configVars, goroutineVars>>

\* Without certificate and key there is no server, and that is not an error.
SetupKubeletServer ==
    \/ /\ Main("server", "podctl")
       /\ server' = IF machine.tls THEN "up" ELSE "off"
       /\ UNCHANGED <<contextVars, configVars, synced, podCtl, nodeCtl, ready>>
    \/ main = "server" /\ machine.tls /\ Ends("fatal")

\* StartupTimeout is 0: the controllers are started one after the other, and the
\* pod controller is not waited for.
StartControllers ==
    \/ /\ Main("podctl", "nodectl")
       /\ podCtl' = "started"
       /\ UNCHANGED <<contextVars, configVars, synced, server, nodeCtl, ready>>
    \/ /\ Main("nodectl", "ready")
       /\ nodeCtl' = "started"
       /\ UNCHANGED <<contextVars, configVars, synced, server, podCtl, ready>>

\* UpdateStatus waits for the node controller, or for the end of the context.
SetNodeReady ==
    \/ /\ nodeCtl = "running"
       /\ Main("ready", "wait")
       /\ ready' = TRUE
       /\ UNCHANGED <<contextVars, configVars, synced, server, podCtl, nodeCtl>>
    \/ main = "ready" /\ cancelled /\ Ends("exit")

\* runRootCommand returns without a look at the workers.
Return == main = "wait" /\ cancelled /\ Ends("exit")

MainStep ==
    \/ ReadFlags \/ ConfigureNode \/ WaitForCacheSync \/ SetupKubeletServer
    \/ StartControllers \/ SetNodeReady \/ Return

-----------------------------------------------------------------------------
(* The other goroutines.                                                   *)

Signal ==
    /\ ~signalled
    /\ signalled' = TRUE
    /\ UNCHANGED <<machine, main, over, cancelled, configVars, goroutineVars>>

Cancel ==
    /\ signalled /\ ~cancelled
    /\ cancelled' = TRUE
    /\ UNCHANGED <<machine, main, over, signalled, configVars, goroutineVars>>

PodController(to) ==
    /\ podCtl' = to
    /\ UNCHANGED <<machine, main, over, contextVars, configVars, synced, server, nodeCtl, ready>>

NodeController(to) ==
    /\ nodeCtl' = to
    /\ UNCHANGED <<machine, main, over, contextVars, configVars, synced, server, podCtl, ready>>

\* pc.Run: it waits for the pods, and starts the workers.
RunPodController ==
    \/ podCtl = "started" /\ ~cancelled /\ "pods" \in synced /\ PodController("running")
    \/ podCtl = "started" /\ cancelled /\ (PodController("ended") \/ Ends("fatal"))

\* nodeRunner.Run: every error of it is fatal, that of a context that is done too.
RunNodeController ==
    \/ nodeCtl = "started" /\ ~cancelled /\ NodeController("running")
    \/ nodeCtl = "started" /\ Ends("fatal")
    \/ nodeCtl = "running" /\ cancelled /\ NodeController("ended")

GoroutineStep == Cancel \/ RunPodController \/ RunNodeController

-----------------------------------------------------------------------------
(* Properties                                                              *)

\* The options are those of the command line, then of the environment, then the
\* defaults (opts.go:113, and the help text of the flags), although the defaults
\* are set before the command line is read.  An empty KUBECONFIG is not a name.
OptionsAsGiven ==
    main # "flags" =>
        \A o \in {"nodename", "addr", "kubeconfig"} :
            LET given == o \in DOMAIN machine.given
                variable == IF o = "nodename" THEN "HOSTNAME" ELSE "KUBECONFIG"
                inEnv == /\ o # "addr" /\ variable \in DOMAIN machine.env
                         /\ o = "kubeconfig" => machine.env[variable] # ""
            IN  /\ given => opts[o] = machine.given[o]
                /\ ~given /\ inEnv => opts[o] = machine.env[variable]
                /\ ~given /\ ~inEnv => opts[o] # ""

\* What is advertised as internal is the address of the interface that was given, and
\* nothing if that has none, whatever else is known; else the address that was given,
\* else the first private one; and pods are told to be where the node says it is,
\* unless an interface was given (README.md:116-123, node.go:101-126).  0.0.0.0 and an
\* interface without a name stand for "not given".  What is not found is not copied from
\* the external address, as README.md:127-128 has it.
InternalAsDocumented ==
    main \notin {"flags", "client", "policyrcd", "node"} =>
        LET given(o, default) == o \in DOMAIN machine.given /\ machine.given[o] # default
            iface == machine.given["internal-iface"]
            private == InternalIPs(machine)
        IN  IF given("internal-iface", "")
            THEN /\ iface \in DOMAIN machine.ifaces => addresses.internal = machine.ifaces[iface]
                 /\ iface \notin DOMAIN machine.ifaces => addresses.internal = ""
            ELSE IF given("internal-ip", "0.0.0.0")
            THEN /\ addresses.internal = machine.given["internal-ip"]
                 /\ opts["internal-ip"] = addresses.internal
            ELSE /\ private = <<>> => addresses.internal = ""
                 /\ private # <<>> => /\ addresses.internal = private[1].ip
                                     /\ opts["internal-ip"] = addresses.internal

\* No pod is created and the node is not called ready before everything a pod can
\* refer to is known, be it that systemk is told to stop meanwhile, and before the
\* server is up: a ConfigMap that is only not known yet would count as missing.
NothingBeforeSync ==
    podCtl = "running" \/ ready =>
        synced = Caches /\ (machine.tls => server = "up")
=============================================================================
