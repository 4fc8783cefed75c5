------------------------------ MODULE Systemk ------------------------------
(***************************************************************************)
(* The process: start-up and end (Startup), the workers that install       *)
(* packages (Packages) and the requests for logs (LogFollow).  They meet   *)
(* where New waits for a package, where the pod controller starts the      *)
(* workers, where the server takes requests, and where the end of the      *)
(* process, asked for or not, stops them all wherever they are.            *)
(***************************************************************************)
EXTENDS Naturals, Sequences

CONSTANTS
    Machines, Portless,                                    \* see Startup
    Workers, Starter, Images, Policyrcd, Before, MaxErrors, \* see Packages
    Requests, MaxEntries,                                  \* see LogFollow
    MaxLives                                               \* bound: how often systemk runs

VARIABLES machine, main, over, signalled, cancelled, opts, addresses, synced, server,
          podCtl, nodeCtl, ready
VARIABLES manager, pc, at, policy, lock, installed, running, masked, ours, exposed, errors
VARIABLES entries, client, handler, follower, pos, reader, until, errChan
VARIABLE lives

S == INSTANCE Startup
P == INSTANCE Packages
L == INSTANCE LogFollow

\* A pod has a container, and New asks for one package by its name.
ASSUME StarterAssumption ==
    Starter \notin Workers /\ Images[Starter] = <<[form |-> "name", package |-> Policyrcd]>>
ASSUME ImagesAssumption ==
    \A w \in Workers : /\ Images[w] \in Seq([form : {"name", "url", "path"}, package : P!Package])
                       /\ Images[w] # <<>>
\* The address systemk listens on by default has a port.
ASSUME AddressAssumption == ":10250" \notin Portless
ASSUME BoundAssumption == MaxErrors \in Nat /\ MaxEntries \in Nat /\ MaxLives \in Nat \ {0}

startupVars == <<machine, main, over, signalled, cancelled, opts, addresses, synced, server,
                 podCtl, nodeCtl, ready>>
installVars == <<pc, at, policy, lock, installed, running, masked, ours, exposed, errors>>
packageVars == <<manager, installVars>>
logVars == <<entries, client, handler, follower, pos, reader, until, errChan>>
vars == <<startupVars, packageVars, logVars, lives>>

TypeOK == S!TypeOK /\ P!TypeOK /\ L!TypeOK /\ lives \in 1..MaxLives

Init == S!Init /\ P!Init /\ L!Init /\ manager = "noop" /\ lives = 1

-----------------------------------------------------------------------------
(* While the process lives.                                                *)

Lives == over = "no"

MainStep == Lives /\ S!MainStep /\ UNCHANGED <<packageVars, logVars, lives>>

\* provider.New chooses a package manager.
SetUp ==
    /\ Lives
    /\ S!SetUp
    /\ manager' = IF over' = "no" THEN S!ChosenManager(machine) ELSE manager
    /\ UNCHANGED <<installVars, logVars, lives>>

\* On a Debian, New returns after it has tried to install Policyrcd.
ProviderIsNew ==
    /\ Lives
    /\ manager = "debian" => pc[Starter] = "done"
    /\ S!ProviderIsNew
    /\ UNCHANGED <<packageVars, logVars, lives>>

GoroutineStep == Lives /\ S!GoroutineStep /\ UNCHANGED <<packageVars, logVars, lives>>

CacheSyncs ==
    /\ Lives
    /\ \E cache \in S!Caches : S!CacheSyncs(cache)
    /\ UNCHANGED <<packageVars, logVars, lives>>

\* Workers begin with a pod when the pod controller runs, and are not told to stop.
Install(w) ==
    /\ Lives
    /\ \/ w = Starter /\ main = "policyrcd" /\ P!Begin(w)
       \/ w # Starter /\ podCtl = "running" /\ ~cancelled /\ P!Begin(w)
       \/ P!InstallStep(w)
    /\ UNCHANGED <<startupVars, logVars, lives>>

Handle(r) == Lives /\ L!HandlerStep(r) /\ UNCHANGED <<startupVars, packageVars, lives>>

Follow(r) == Lives /\ L!FollowerStep(r) /\ UNCHANGED <<startupVars, packageVars, lives>>

-----------------------------------------------------------------------------
(* From outside.                                                           *)

Signal == Lives /\ S!Signal /\ UNCHANGED <<packageVars, logVars, lives>>

Client(r) ==
    /\ Lives
    /\ server = "up"
    /\ L!Request(r) \/ L!ClientLeaves(r)
    /\ UNCHANGED <<startupVars, packageVars, lives>>

\* What is logged while nobody can ask for it makes no difference.
Logged == Lives /\ server = "up" /\ L!Logged /\ UNCHANGED <<startupVars, packageVars, lives>>

\* SIGKILL, or what the follower does to itself.
Killed ==
    /\ Lives
    /\ lives < MaxLives \/ \E r \in Requests : L!UsedAfterClose(r)
    /\ S!Ends("killed")
    /\ UNCHANGED <<packageVars, logVars, lives>>

Restart ==
    /\ lives < MaxLives
    /\ S!Restart /\ P!Restart /\ L!Restart
    /\ lives' = lives + 1

Next ==
    \/ MainStep \/ SetUp \/ ProviderIsNew \/ GoroutineStep \/ CacheSyncs
    \/ \E w \in Workers \cup {Starter} : Install(w)
    \/ \E r \in Requests : Handle(r) \/ Follow(r) \/ Client(r)
    \/ Signal \/ Logged \/ Killed \/ Restart

Spec == Init /\ [][Next]_vars

\* The scheduler runs every goroutine, and dpkg and downloads come to an end.  That
\* a cache is ever filled is for the API server to say, and a failure is never due.
FairSpec ==
    /\ Spec
    /\ WF_vars(MainStep) /\ WF_vars(SetUp) /\ WF_vars(ProviderIsNew)
    /\ WF_vars(Lives /\ S!Cancel /\ UNCHANGED <<packageVars, logVars, lives>>)
    /\ WF_vars(GoroutineStep)
    /\ \A w \in Workers \cup {Starter} : WF_vars(Install(w))
    /\ \A r \in Requests : WF_vars(Handle(r)) /\ WF_vars(Follow(r))

-----------------------------------------------------------------------------
(* Properties                                                              *)

\* See Packages, now with start-up, crashes and restarts around it: no service of
\* a package that systemk installs is ever started by the installation.
OfficialServicesStayDown == P!OfficialServicesStayDown

\* See Packages: no service but those of the packages systemk installed is masked.
MasksOnlyOurs == P!MasksOnlyOurs

\* A package that systemk installs has its service masked in the end, if nothing
\* fails and the process is not interrupted, whatever other workers install.
InstalledGetsMasked ==
    \A p \in P!Package \ {Policyrcd} :
        p \in ours ~> p \in masked \/ errors > 0 \/ lives > 1 \/ ~Lives

\* See Startup: command line before environment before default.
OptionsAsGiven == S!OptionsAsGiven

\* See Startup: the internal address is that of the interface, of the command line or
\* the first private one, in this order, and pods are told it.
InternalAsDocumented == S!InternalAsDocumented

\* See Startup: no worker has begun, and the node is not called ready, before all
\* caches are filled and the server is up.
NothingBeforeSync ==
    /\ S!NothingBeforeSync
    /\ \A w \in Workers : pc[w] # "waiting" => synced = S!Caches

\* A signal ends the process, wherever it is, even while it waits for a cache, a
\* package or the node controller.
SignalEnds == signalled ~> ~Lives

\* A client that has gone leaves no goroutine behind.
FollowersEnd ==
    \A r \in Requests : client[r] = "gone" ~> L!FollowerOver(r) \/ ~Lives

\* See LogFollow: who follows the journal for a client reads an open reader.
ReadsOpenJournal == L!ReadsOpenJournal
=============================================================================
