--------------------------- MODULE ContainerUnit ---------------------------
(***************************************************************************)
(* What CreatePod (internal/provider/pod.go, lines 81-242) writes into the *)
(* unit files of a pod: it takes the unit file of the package, or a        *)
(* synthesized one, and changes it option by option with the operations of *)
(* internal/unit/file.go.  The user comes from the pod's security context, *)
(* from --override-root-uid or from the package (security_context.go), the *)
(* command line from the container and the package (command.go).           *)
(*                                                                         *)
(* A unit file is a function from the options that matter here to the      *)
(* sequence of their values, in the order they stand in the file.  A       *)
(* command line is a sequence of words, a variable a pair of name and      *)
(* value.  The loop keeps uid and gid from one container to the next.      *)
(***************************************************************************)
EXTENDS Integers, Sequences, SequencesExt

CONSTANTS
    NumInit, NumMain,  \* as in UnitManager
    Files,             \* the unit files of the packages
    Specs,             \* containers: what the pod says and the package it names
    Uids,              \* numeric users, "0" among them
    Known,             \* those that exist on the machine
    PrimaryGroup,      \* the primary group of a known user
    Overrides,         \* values of --override-root-uid, Unset for none
    DefaultEnv         \* what defaultEnvironment answers

ASSUME NumAssumption == NumInit \in Nat /\ NumMain \in Nat

Unset == "unset"
Root == {"0", "root"}

ASSUME UserAssumption ==
    /\ "0" \in Known /\ Known \subseteq Uids
    /\ PrimaryGroup \in [Known -> Uids]
    /\ \A u \in Known \ {"0"} : PrimaryGroup[u] # "0"
    /\ Overrides \subseteq (Uids \ {"0"}) \cup {Unset}
    /\ Uids \cap {Unset, "root"} = {}

Options == {"User", "Group", "Type", "RemainAfterExit", "After", "InitContainer",
            "ExecStart", "Environment", "EnvironmentFile"}

Unreadable == <<>>  \* a unit file that is not there, or is malformed: it has no options

Variable == STRING \X STRING

\* User and Group stand in the unit file of a package once at most.
ASSUME FilesAssumption ==
    \A file \in Files :
        /\ DOMAIN file = Options
        /\ \A o \in {"User", "Group"} : file[o] \in Seq(STRING) /\ Len(file[o]) <= 1
        /\ file["ExecStart"] \in Seq(Seq(STRING))
        /\ file["Environment"] \in Seq(Variable)

ASSUME SpecsAssumption ==
    \A s \in Specs :
        /\ {s.package.listed, s.package.basic} \subseteq Seq(Files \cup {Unreadable})
        /\ {s.command, s.args} \subseteq Seq(STRING)
        /\ s.env \in Seq(Variable)

ASSUME EnvAssumption == DefaultEnv \in Seq(Variable)

VARIABLES
    context,    \* the pod's security context
    override,   \* --override-root-uid
    spec,       \* spec[c]: the container c and its package
    pc,         \* where CreatePod is
    at,         \* the container its loop is at
    uid, gid,   \* the user and group found so far, Unset if none
    previous,   \* the last init container, 0 if there was none
    written     \* written[c]: the unit file of c, NoFile before Load

input == <<context, override, spec>>
vars == <<context, override, spec, pc, at, uid, gid, previous, written>>

Containers == 1..(NumInit + NumMain)

\* A position counted from one in one place and from zero in the other.
InitOffByOne(c) == c <= NumInit + 1

IsInit(c) == c <= NumInit

NoFile == [o \in Options |-> <<"none">>]

Contexts == [user : Uids \cup {Unset}, name : Uids \cup {Unset}, group : Uids \cup {Unset}]

TypeOK ==
    /\ context \in Contexts /\ override \in Overrides /\ spec \in [Containers -> Specs]
    /\ pc \in {"begin", "loop", "failed", "done"}
    /\ at \in 1..(NumInit + NumMain + 1)
    /\ uid \in Known \cup {Unset}
    /\ gid \in Uids \cup {Unset}
    /\ previous \in 0..NumInit
    /\ DOMAIN written = Containers
    /\ \A c \in Containers : DOMAIN written[c] = Options

Init ==
    /\ context \in Contexts
    /\ override \in Overrides
    /\ spec \in [Containers -> Specs]
    /\ pc = "begin" /\ at = 1
    /\ uid = Unset /\ gid = Unset
    /\ previous = 0
    /\ written = [c \in Containers |-> NoFile]

-----------------------------------------------------------------------------
(* unit/file.go, for one option.                                           *)

Insert(values, value) == Append(values, value)

\* An Overwrite that leaves in the file what it overwrites.
InsertInstead(values, value) == Append(values, value)

Overwrite(values, value) == <<value>>
Delete(values) == <<>>

-----------------------------------------------------------------------------
(* The unit file of the package (ospkg/debian.go, archlinux.go, noop.go):  *)
(* the first service the package manager lists, or, if it lists none, one  *)
(* of the package's name in the directory of the units.  A package manager *)
(* that does not know the package gives an error, as the no-op one does.   *)

\* The unit files it looks at, in this order; basic is one or none.
Unitfiles(package) == IF package.known THEN package.listed \o package.basic ELSE <<>>

\* "ExecStart=" with nothing behind it.
synthUnit == [[o \in Options |-> <<>>] EXCEPT !["ExecStart"] = <<<<>>>>]

unitfileFromPackageOrSynthesized(package) ==
    IF Unitfiles(package) = <<>> THEN synthUnit ELSE Head(Unitfiles(package))

PackageFile(c) == unitfileFromPackageOrSynthesized(spec[c].package)

-----------------------------------------------------------------------------
(* command.go: the command replaces the first word of ExecStart, and args  *)
(* what follows it.  Several ExecStart lines become one.                   *)

FirstWord(line) == IF line = <<>> THEN <<>> ELSE <<Head(line)>>

\* What stands in the place of cmdargs[0], and of cmdargs[1:].
Program(execStart) ==
    IF Len(execStart) = 1 THEN FirstWord(execStart[1]) ELSE
    IF execStart = <<>> THEN <<>> ELSE Head(execStart)

\* An Arguments that keeps the options of the package in front of args.
Appended(execStart, args) ==
    (IF Len(execStart) = 1 THEN SubSeq(execStart[1], 2, Len(execStart[1])) ELSE <<>>) \o args

Arguments(execStart, args) ==
    IF args # <<>> THEN args
    ELSE IF Len(execStart) = 1 THEN SubSeq(execStart[1], 2, Len(execStart[1]))
    ELSE IF execStart = <<>> THEN <<>> ELSE FlattenSeq(Tail(execStart))

commandAndArgs(execStart, c) ==
    (IF spec[c].command # <<>> THEN spec[c].command ELSE Program(execStart))
        \o Arguments(execStart, spec[c].args)

-----------------------------------------------------------------------------
(* security_context.go                                                     *)

\* The user the context asks for: a name wins over a number.
Asked == IF context.name # Unset THEN context.name ELSE context.user

\* The context's root is overridden.
RootIsMapped == Asked = "0" /\ override # Unset

\* Every user that is looked up has to exist.
LookedUp == ({context.user, context.name} \cup (IF RootIsMapped THEN {override} ELSE {}))
            \ {Unset}

ContextUid == IF RootIsMapped THEN override ELSE Asked

\* A group alone comes without a user, and the loop does not use it then.
ContextGid ==
    IF RootIsMapped THEN PrimaryGroup[override]
    ELSE IF context.group # Unset \/ Asked = Unset THEN context.group
    ELSE PrimaryGroup[Asked]

\* A CreatePod that remembers the user of an earlier call.
BeginWithUid ==
    /\ pc = "begin"
    /\ pc' = IF LookedUp \subseteq Known THEN "loop" ELSE "failed"
    /\ IF LookedUp \subseteq Known /\ uid = Unset
       THEN uid' = ContextUid /\ gid' = ContextGid
       ELSE UNCHANGED <<uid, gid>>
    /\ UNCHANGED <<input, at, previous, written>>

Begin ==
    /\ pc = "begin"
    /\ IF LookedUp \subseteq Known
       THEN pc' = "loop" /\ uid' = ContextUid /\ gid' = ContextGid
       ELSE pc' = "failed" /\ UNCHANGED <<uid, gid>>
    /\ UNCHANGED <<input, at, previous, written>>

-----------------------------------------------------------------------------
(* The loop of CreatePod.                                                  *)

\* A test for root that forgets that root is what systemd takes by default.
NamesRoot(file) ==
    \E o \in {"User", "Group"} : file[o] # <<>> /\ file[o][1] \in Root

\* hasRoot: the file of the package leaves the user or the group to be root.
HasRoot(file) ==
    \E o \in {"User", "Group"} : file[o] # <<>> => file[o][1] \in Root

\* Line 161: root is overridden on behalf of the package.
Maps(c) == uid = Unset /\ HasRoot(PackageFile(c)) /\ override # Unset

\* The two errors after Install: CreatePod returns.
Fails(c) ==
    \/ PackageFile(c) = Unreadable
    \/ PackageFile(c) # Unreadable /\ Maps(c) /\ override \notin Known

\* An environment in which the defaults come last.
DefaultsLast(values, env) == values \o env \o DefaultEnv

WithEnvironment(values, env) == values \o DefaultEnv \o env

UnitFile(c, u, g, after) ==
    [PackageFile(c) EXCEPT
        !["User"] = IF u = Unset THEN @ ELSE Overwrite(@, u),
        !["Group"] = IF u = Unset THEN @ ELSE Overwrite(@, g),
        !["Type"] = IF IsInit(c) THEN Overwrite(@, "oneshot") ELSE @,
        !["InitContainer"] = IF IsInit(c) THEN Insert(@, "true") ELSE @,
        !["After"] = IF after = 0 THEN @ ELSE Insert(@, after),
        !["RemainAfterExit"] = Overwrite(@, "true"),
        !["ExecStart"] = Overwrite(@, commandAndArgs(@, c)),
        !["EnvironmentFile"] = Delete(@),
        !["Environment"] = WithEnvironment(@, spec[c].env)]

\* One round: from Install (module PodLifecycle) to Load.
Container ==
    /\ pc = "loop" /\ at \in Containers
    /\ ~Fails(at)
    /\ uid' = IF Maps(at) THEN override ELSE uid
    /\ gid' = IF Maps(at) THEN PrimaryGroup[override] ELSE gid
    /\ written' = [written EXCEPT ![at] = UnitFile(at, uid', gid', previous)]
    /\ previous' = IF IsInit(at) THEN at ELSE previous
    /\ at' = at + 1
    /\ UNCHANGED <<input, pc>>

\* The units of the containers before stay loaded.
ContainerFails ==
    /\ pc = "loop" /\ at \in Containers
    /\ Fails(at)
    /\ pc' = "failed"
    /\ UNCHANGED <<input, at, uid, gid, previous, written>>

Finish ==
    /\ pc = "loop" /\ at \notin Containers
    /\ pc' = "done"
    /\ UNCHANGED <<input, at, uid, gid, previous, written>>

\* CreatePod is called again for the pod, after a failure or by a GetPod that
\* did not see it.  uid and gid are variables of the call.
Again ==
    /\ pc \in {"failed", "done"}
    /\ pc' = "begin" /\ at' = 1 /\ previous' = 0
    /\ UNCHANGED <<input, uid, gid, written>>

Next == Begin \/ Container \/ ContainerFails \/ Finish \/ Again

Spec == Init /\ [][Next]_vars

-----------------------------------------------------------------------------
(* Properties                                                              *)

HasFile(c) == written[c]["RemainAfterExit"] # NoFile["RemainAfterExit"]

\* With --override-root-uid no container runs as root, be it that the pod asks
\* for root, by number or by name, that the package does or that the package
\* says nothing; nor in root's group, unless the pod asks for that group.
NoRootUnderOverride ==
    \A c \in Containers : override # Unset /\ HasFile(c) =>
        /\ written[c]["User"] # <<>> /\ Range(written[c]["User"]) \cap Root = {}
        /\ written[c]["Group"] # <<>>
        /\ context.group # "0" => Range(written[c]["Group"]) \cap Root = {}

\* "If the podspec has a security context we use that" (pod.go:149): in all
\* containers, whatever user the packages name, and with the user's primary
\* group if the pod asks for none.
ContextWins ==
    \A c \in Containers : HasFile(c) /\ Asked # Unset /\ ~RootIsMapped =>
        /\ written[c]["User"] = <<Asked>>
        /\ written[c]["Group"] = <<IF context.group # Unset THEN context.group
                                   ELSE PrimaryGroup[Asked]>>

\* A CreatePod that is called again writes the same unit files again: what one
\* call found out does not change the next one.
SameFilesAgain ==
    [][\A c \in Containers : HasFile(c) => written'[c] = written[c]]_vars

\* README, Design: a command replaces the first word of ExecStart and leaves the
\* options there, and args replace the options.
ExecStartAsDocumented ==
    \A c \in Containers : HasFile(c) =>
        LET line == written[c]["ExecStart"][1]
            packaged == PackageFile(c)["ExecStart"]
        IN  /\ Len(written[c]["ExecStart"]) = 1
            /\ spec[c].command # <<>> => IsPrefix(spec[c].command, line)
            /\ spec[c].args # <<>> => IsSuffix(spec[c].args, line)
            /\ Len(packaged) = 1 /\ spec[c].args # <<>> =>
                 Len(line) = Len(spec[c].args) +
                     (IF spec[c].command # <<>> THEN Len(spec[c].command)
                      ELSE Len(FirstWord(packaged[1])))
            /\ Len(packaged) = 1 /\ spec[c].command = <<>> /\ spec[c].args = <<>>
                 => line = packaged[1]

\* systemd takes the last value of a variable: the container's own one, whatever
\* the package and systemk itself have set before.
ContainerEnvWins ==
    \A c \in Containers : HasFile(c) =>
        \A i \in 1..Len(spec[c].env) : \E j \in 1..Len(written[c]["Environment"]) :
            /\ written[c]["Environment"][j] = spec[c].env[i]
            /\ \A k \in (j + 1)..Len(written[c]["Environment"]) :
                  written[c]["Environment"][k] \in Range(spec[c].env)

\* "If these are not set, the unit file's value are used" (pod.go:150): a
\* container of a package with a user of its own keeps it, whatever the other
\* containers of the pod are.
PackageUserKept ==
    \A c \in Containers :
        HasFile(c) /\ Asked = Unset /\ ~HasRoot(PackageFile(c))
            => written[c]["User"] = PackageFile(c)["User"]
=============================================================================
