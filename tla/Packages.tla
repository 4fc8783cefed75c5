------------------------------ MODULE Packages ------------------------------
(***************************************************************************)
(* internal/ospkg and its callers: CreatePod installs the package of each  *)
(* container and masks the service that came with it; New installs the     *)
(* package that makes dpkg ask POLICYRCD before it starts a service.       *)
(*                                                                         *)
(* Several workers do this at the same time, with the locks of dpkg alone  *)
(* between them.  Each command and each file is a step.                    *)
(***************************************************************************)
EXTENDS Functions, Naturals, Sequences

CONSTANTS
    Workers,   \* the workers of the pods
    Starter,   \* the goroutine that starts systemk
    Images,    \* Images[w]: the images of a worker's containers, in order
    Policyrcd, \* policyrcd-script-zg2
    Before,    \* the packages that are there before systemk is
    MaxErrors  \* bound: how many commands and calls fail

Installers == Workers \cup {Starter}
Package == {image.package : image \in UNION {Range(Images[w]) : w \in Installers}}
           \cup Before \cup {Policyrcd}

VARIABLES
    manager,   \* the package manager provider.New has chosen
    pc,        \* how far each caller is
    at,        \* at which of its containers
    policy,    \* the callers whose policy file exists
    lock,      \* who runs dpkg
    installed, \* what dpkg knows
    running,   \* the packages whose own service runs
    masked,    \* the packages whose own service is masked
    ours,      \* history: the packages systemk's commands have installed
    exposed,   \* history: New went on without Policyrcd
    errors

machineVars == <<installed, running, masked, ours>>
vars == <<manager, pc, at, policy, lock, machineVars, exposed, errors>>

Managers == {"debian", "arch", "noop"}
Pcs == {"waiting", "check", "fetch", "policy", "install", "dpkg", "mask", "done"}

TypeOK ==
    /\ manager \in Managers
    /\ pc \in [Installers -> Pcs]
    /\ at \in [Installers -> Nat]
    /\ \A w \in Installers : at[w] \in DOMAIN Images[w]
    /\ policy \subseteq Installers
    /\ lock \in {{}} \cup {{w} : w \in Installers}
    /\ \A w \in Installers : lock = {w} <=> pc[w] = "dpkg"
    /\ installed \subseteq Package /\ running \subseteq installed
    /\ masked \subseteq Package /\ ours \subseteq installed
    /\ exposed \in BOOLEAN
    /\ errors \in 0..MaxErrors

Init ==
    /\ manager \in Managers
    /\ pc = [w \in Installers |-> "waiting"]
    /\ at = [w \in Installers |-> 1]
    /\ policy = {}
    /\ lock = {}
    /\ installed = Before
    /\ running = Before
    /\ masked = {}
    /\ ours = {}
    /\ exposed = FALSE
    /\ errors = 0

At(w, label) == pc[w] = label
Goto(w, label) == pc' = [pc EXCEPT ![w] = label]

\* An image is the name of a package, the URL of one, or the path of a program;
\* Clean makes the name of all of these.
TheImage(w) == Images[w][at[w]]
Clean(image) == image.package

\* A loop that goes one too far.
OneMore(w) ==
    IF at[w] <= Len(Images[w])
    THEN at' = [at EXCEPT ![w] = @ + 1] /\ Goto(w, "check")
    ELSE UNCHANGED at /\ Goto(w, "done")

\* CreatePod goes on with the next container, New has only one package.
NextContainer(w) ==
    IF at[w] < Len(Images[w])
    THEN at' = [at EXCEPT ![w] = @ + 1] /\ Goto(w, "check")
    ELSE UNCHANGED at /\ Goto(w, "done")

\* Install returns an error.  CreatePod returns it, and is called again; New logs
\* it and goes on without.
Fails(w) ==
    IF w = Starter
    THEN Goto(w, "done") /\ exposed' = TRUE /\ UNCHANGED at
    ELSE Goto(w, "check") /\ at' = [at EXCEPT ![w] = 1] /\ UNCHANGED exposed

Error(w) == errors < MaxErrors /\ errors' = errors + 1 /\ Fails(w)

-----------------------------------------------------------------------------
\* CreatePod is called, or New on a Debian.
Begin(w) ==
    /\ At(w, "waiting")
    /\ w = Starter => manager = "debian"
    /\ Goto(w, "check")
    /\ UNCHANGED <<manager, at, policy, lock, machineVars, exposed, errors>>

\* What a package manager knows that is asked for what the pod names, a URL perhaps.
AsksForImage(image) ==
    IF image.form = "name" THEN installed \cap {image.package} ELSE {}

\* What dpkg -s knows of an image.
Known(image) == installed \cap {Clean(image)}

\* A path, or a package that is there: nothing is installed, and the unit that came
\* with it not masked.
NothingToInstall(w) == TheImage(w).form = "path" \/ Known(TheImage(w)) # {}

\* The no-op manager says that it has installed.
NoopInstall(w) == manager = "noop" /\ Goto(w, "mask") /\ UNCHANGED <<at, exposed>>

\* The Arch Linux one asks pacman so, and calls apt-get, which is not there.
ArchInstall(w) ==
    /\ manager = "arch"
    /\ IF TheImage(w).form = "path" \/ AsksForImage(TheImage(w)) # {}
       THEN NextContainer(w) /\ UNCHANGED exposed
       ELSE Fails(w)

\* Install up to the decision to install.
DebianInstall(w) ==
    /\ manager = "debian"
    /\ IF NothingToInstall(w) THEN NextContainer(w)
       ELSE Goto(w, IF TheImage(w).form = "url" THEN "fetch" ELSE "policy") /\ UNCHANGED at
    /\ UNCHANGED exposed

Check(w) ==
    /\ At(w, "check")
    /\ NoopInstall(w) \/ ArchInstall(w) \/ DebianInstall(w)
    /\ UNCHANGED <<manager, policy, lock, machineVars, errors>>

Fetch(w) ==
    /\ At(w, "fetch")
    /\ \/ Goto(w, "policy") /\ UNCHANGED <<at, exposed, errors>>
       \/ Error(w)
    /\ UNCHANGED <<manager, policy, lock, machineVars>>

\* One policy file for all.
SharedPolicy(w) == Installers

\* policy: a temporary file of the caller's own.
PolicyOf(w) == {w}

WritePolicy(w) ==
    /\ At(w, "policy")
    /\ \/ /\ policy' = policy \cup PolicyOf(w)
          /\ Goto(w, "install")
          /\ UNCHANGED <<at, exposed, errors>>
       \/ Error(w) /\ UNCHANGED policy
    /\ UNCHANGED <<manager, lock, machineVars>>

\* The command fails at once if another dpkg runs; Install removes its policy file
\* when it returns.
RunCommand(w) ==
    /\ At(w, "install")
    /\ \/ /\ lock = {}
          /\ lock' = {w}
          /\ Goto(w, "dpkg")
          /\ UNCHANGED <<at, policy, exposed>>
       \/ /\ lock # {}
          /\ policy' = policy \ PolicyOf(w)
          /\ Fails(w)
          /\ UNCHANGED lock
    /\ UNCHANGED <<manager, machineVars, errors>>

\* dpkg asks the policy file before it starts a service, if Policyrcd has it do so.
Denied(w) == Policyrcd \in installed /\ w \in policy

\* dpkg has installed the package of w, unless it was there.
Unpacked(w) ==
    LET new == {Clean(TheImage(w))} \ installed
    IN  /\ installed' = installed \cup new
        /\ ours' = ours \cup new
        /\ running' = IF Denied(w) THEN running ELSE running \cup (new \ {Policyrcd})
        /\ UNCHANGED masked

CommandEnds(w) ==
    /\ At(w, "dpkg")
    /\ lock' = {}
    /\ policy' = policy \ PolicyOf(w)
    /\ \/ /\ Unpacked(w)
          /\ Goto(w, IF w = Starter THEN "done" ELSE "mask")
          /\ UNCHANGED <<at, exposed, errors>>
       \/ /\ Error(w)
          /\ Unpacked(w) \/ UNCHANGED machineVars
    /\ UNCHANGED manager

\* The name of the image instead of that of the package.
RawName(image) == IF image.form = "name" THEN {image.package} ELSE {}

\* The service CreatePod has masked: it has the name of the package.
ServiceOf(image) == {Clean(image)}

\* Mask, whose error is ignored.
Mask(w) ==
    /\ At(w, "mask")
    /\ NextContainer(w)
    /\ \/ masked' = masked \cup ServiceOf(TheImage(w)) /\ UNCHANGED errors
       \/ errors < MaxErrors /\ errors' = errors + 1 /\ UNCHANGED masked
    /\ UNCHANGED <<manager, policy, lock, installed, running, ours, exposed>>

\* systemk has died; the command it ran has gone on to its end, or died with it.
\* Policy files are left behind, but have no reader any more.
Restart ==
    /\ pc' = [w \in Installers |-> "waiting"]
    /\ at' = [w \in Installers |-> 1]
    /\ policy' = {}
    /\ lock' = {}
    /\ (\E w \in lock : Unpacked(w)) \/ UNCHANGED machineVars
    /\ UNCHANGED <<manager, exposed, errors>>

InstallStep(w) ==
    Check(w) \/ Fetch(w) \/ WritePolicy(w) \/ RunCommand(w) \/ CommandEnds(w) \/ Mask(w)

-----------------------------------------------------------------------------
(* Properties                                                              *)

\* The service of a package that systemk installs is never started by it, though
\* several workers install at a time and fail in between (debian.go:75: the
\* policy says not to start), unless Policyrcd could not be installed.
OfficialServicesStayDown == exposed \/ running \subseteq Before

\* systemk masks the services of the packages it has installed and of no other
\* (README: if the package already exists we leave the existing unit alone).  The
\* no-op manager, which installs nothing, is no part of that.
MasksOnlyOurs == manager # "noop" => masked \subseteq ours
=============================================================================
