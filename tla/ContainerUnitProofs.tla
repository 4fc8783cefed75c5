------------------------ MODULE ContainerUnitProofs ------------------------
(***************************************************************************)
(* Proofs about ContainerUnit, for any pods, packages and users: with      *)
(* --override-root-uid no container of systemk is root; and the unit files *)
(* are a function of the pod and the packages alone, from which the rest   *)
(* follows: what the security context asks for, the command line and the   *)
(* container's own variables reach the unit file, in every call again.     *)
(***************************************************************************)
EXTENDS ContainerUnit, SequenceTheorems, DataLemmas

InputType ==
    /\ context \in Contexts
    /\ override \in Overrides
    /\ spec \in [Containers -> Specs]

\* The user and the group the loop carries along are not root's.
CarriedInv ==
    /\ uid \in Known \cup {Unset}
    /\ gid \in Uids \cup {Unset}
    /\ override # Unset => uid # "0"
    /\ override # Unset /\ uid # Unset /\ context.group # "0" => gid # "0"

RootInv ==
    /\ InputType
    /\ DOMAIN written = Containers
    /\ CarriedInv
    /\ NoRootUnderOverride

-----------------------------------------------------------------------------

\* The unit file CreatePod starts from, if it can read it.
LEMMA PackageFileType ==
    ASSUME NEW c \in Containers, InputType, PackageFile(c) # Unreadable
    PROVE  /\ DOMAIN PackageFile(c) = Options
           /\ \A o \in {"User", "Group"} :
                 PackageFile(c)[o] \in Seq(STRING) /\ Len(PackageFile(c)[o]) <= 1
           /\ PackageFile(c)["ExecStart"] \in Seq(Seq(STRING))
           /\ PackageFile(c)["Environment"] \in Seq(Variable)
  <1> DEFINE package == spec[c].package
  <1>1. spec[c] \in Specs
    BY DEF InputType
  <1>2. package.listed \o package.basic \in Seq(Files \cup {Unreadable})
    BY <1>1, SpecsAssumption
  <1>3. CASE Unitfiles(package) = <<>>
    <2>1. PackageFile(c) = synthUnit
      BY <1>3 DEF PackageFile, unitfileFromPackageOrSynthesized
    <2>2. DOMAIN synthUnit = Options /\ synthUnit["User"] = <<>> /\ synthUnit["Group"] = <<>>
      BY DEF synthUnit, Options
    <2>3. \A o \in {"User", "Group"} : PackageFile(c)[o] = <<>>
      BY <2>1, <2>2
    <2>4. <<>> \in Seq(STRING) /\ Len(<<>>) <= 1
      OBVIOUS
    <2>5. DOMAIN PackageFile(c) = Options
      BY <2>1, <2>2
    <2>6. synthUnit["ExecStart"] = <<<<>>>> /\ synthUnit["Environment"] = <<>>
      BY DEF synthUnit, Options
    <2>7. <<<<>>>> \in Seq(Seq(STRING)) /\ <<>> \in Seq(Variable)
      OBVIOUS
    <2>8. /\ PackageFile(c)["ExecStart"] \in Seq(Seq(STRING))
          /\ PackageFile(c)["Environment"] \in Seq(Variable)
      BY <2>1, <2>6, <2>7
    <2> QED
      BY <2>3, <2>4, <2>5, <2>8, Zenon
  <1>4. CASE Unitfiles(package) # <<>>
    <2>1. PackageFile(c) = Head(Unitfiles(package))
      BY <1>4 DEF PackageFile, unitfileFromPackageOrSynthesized
    <2>2. Unitfiles(package) \in Seq(Files \cup {Unreadable})
      BY <1>2, <1>4 DEF Unitfiles
    <2>3. PackageFile(c) \in Files
      BY <1>4, <2>1, <2>2
    <2> QED
      BY <2>3, FilesAssumption
  <1> QED
    BY <1>3, <1>4

\* The security context never yields root when root is overridden.
LEMMA BeginKeepsCarried ==
    ASSUME RootInv, Begin
    PROVE  CarriedInv'
  <1> USE UserAssumption DEF RootInv, InputType, CarriedInv, Begin, input
  <1>1. CASE ~(LookedUp \subseteq Known)
    BY <1>1
  <1>2. CASE LookedUp \subseteq Known
    <2>1. uid' = ContextUid /\ gid' = ContextGid
      BY <1>2
    <2>2. /\ context.user \in Uids \cup {Unset}
          /\ context.name \in Uids \cup {Unset}
          /\ context.group \in Uids \cup {Unset}
      BY DEF Contexts
    <2>3. Asked \in Known \cup {Unset}
      BY <1>2, <2>2 DEF LookedUp, Asked
    <2>4. CASE RootIsMapped
      <3>1. override \in Known \ {"0"}
        BY <1>2, <2>4 DEF RootIsMapped, LookedUp
      <3>2. ContextUid = override /\ ContextGid = PrimaryGroup[override]
        BY <2>4 DEF ContextUid, ContextGid
      <3> QED
        BY <2>1, <3>1, <3>2
    <2>5. CASE ~RootIsMapped
      <3>1. ContextUid = Asked /\ (override # Unset => Asked # "0")
        BY <2>5 DEF ContextUid, RootIsMapped
      <3>2. CASE context.group # Unset \/ Asked = Unset
        BY <2>1, <2>2, <2>3, <2>5, <3>1, <3>2 DEF ContextGid
      <3>3. CASE context.group = Unset /\ Asked # Unset
        BY <2>1, <2>2, <2>3, <2>5, <3>1, <3>3 DEF ContextGid
      <3> QED
        BY <3>2, <3>3
    <2> QED
      BY <2>4, <2>5
  <1> QED
    BY <1>1, <1>2

\* One round of the loop: the file it writes and what it carries on.
LEMMA ContainerKeepsRootOut ==
    ASSUME RootInv, Container
    PROVE  RootInv'
  <1> USE UserAssumption
  <1> DEFINE file == PackageFile(at)
             new == UnitFile(at, uid', gid', previous)
  <1>1. /\ InputType' /\ InputType
        /\ override' = override /\ context' = context
    BY DEF RootInv, InputType, Container, input
  <1>2. /\ file # Unreadable
        /\ Maps(at) => override \in Known
        /\ at \in Containers
    BY DEF Container, Fails
  <1>3. CarriedInv'
    <2>1. CASE Maps(at)
      <3>1. override \in Known \ {"0"}
        BY <1>1, <1>2, <2>1 DEF InputType, Maps
      <3>2. uid' = override /\ gid' = PrimaryGroup[override]
        BY <2>1 DEF Container
      <3> QED
        BY <1>1, <3>1, <3>2 DEF CarriedInv
    <2>2. CASE ~Maps(at)
      BY <1>1, <2>2 DEF RootInv, CarriedInv, Container
    <2> QED
      BY <2>1, <2>2
  <1>4. DOMAIN written' = Containers /\ written' = [written EXCEPT ![at] = new]
    BY <1>2 DEF RootInv, Container
  <1>5. /\ DOMAIN file = Options
        /\ \A o \in {"User", "Group"} : file[o] \in Seq(STRING) /\ Len(file[o]) <= 1
    BY <1>1, <1>2, PackageFileType
  <1>6. /\ new["User"] = IF uid' = Unset THEN file["User"] ELSE <<uid'>>
        /\ new["Group"] = IF uid' = Unset THEN file["Group"] ELSE <<gid'>>
    BY <1>5 DEF UnitFile, Overwrite, Options
  <1>7. ASSUME override # Unset
        PROVE  /\ new["User"] # <<>> /\ Range(new["User"]) \cap Root = {}
               /\ new["Group"] # <<>>
               /\ context.group # "0" => Range(new["Group"]) \cap Root = {}
    <2>1. CASE uid' = Unset
      <3>1. uid = Unset /\ ~HasRoot(file)
        BY <1>2, <1>7, <2>1 DEF Container, Maps
      <3>2. \A o \in {"User", "Group"} : file[o] # <<>> /\ file[o][1] \notin Root
        BY <3>1 DEF HasRoot
      <3>3. \A o \in {"User", "Group"} : Range(file[o]) = {file[o][1]}
        BY <1>5, <3>2 DEF Range
      <3> QED
        BY <1>6, <2>1, <3>2, <3>3
    <2>2. CASE uid' # Unset
      <3>1. uid' \in Uids \ Root
        BY <1>1, <1>3, <1>7, <2>2 DEF CarriedInv, Root
      <3>2. context.group # "0" => gid' \notin Root
        BY <1>1, <1>3, <1>7, <2>2 DEF CarriedInv, Root, Unset
      <3>3. Range(<<uid'>>) = {uid'} /\ Range(<<gid'>>) = {gid'}
        BY DEF Range
      <3> QED
        BY <1>6, <2>2, <3>1, <3>2, <3>3
    <2> QED
      BY <2>1, <2>2
  <1>8. NoRootUnderOverride'
    <2> SUFFICES ASSUME NEW c \in Containers, override # Unset, HasFile(c)'
                 PROVE  /\ written'[c]["User"] # <<>>
                        /\ Range(written'[c]["User"]) \cap Root = {}
                        /\ written'[c]["Group"] # <<>>
                        /\ context.group # "0" => Range(written'[c]["Group"]) \cap Root = {}
      BY <1>1 DEF NoRootUnderOverride
    <2>1. CASE c = at
      BY <1>4, <1>7, <2>1 DEF RootInv
    <2>2. CASE c # at
      <3>1. written'[c] = written[c]
        BY <1>4, <2>2 DEF RootInv
      <3>2. HasFile(c)
        BY <3>1 DEF HasFile
      <3> QED
        BY <3>1, <3>2 DEF RootInv, NoRootUnderOverride
    <2> QED
      BY <2>1, <2>2
  <1> QED
    BY <1>1, <1>3, <1>4, <1>8 DEF RootInv

\* A step that touches neither the input nor what is carried nor the files.
LEMMA OthersKeepRootOut ==
    ASSUME RootInv, UNCHANGED <<input, uid, gid, written>>
    PROVE  RootInv'
  BY DEF RootInv, InputType, CarriedInv, NoRootUnderOverride, HasFile, input

LEMMA RootStep == RootInv /\ [Next]_vars => RootInv'
  <1> SUFFICES ASSUME RootInv, [Next]_vars PROVE RootInv'
    OBVIOUS
  <1>1. CASE Begin
    <2>1. UNCHANGED <<input, written>>
      BY <1>1 DEF Begin
    <2>2. CarriedInv'
      BY <1>1, BeginKeepsCarried
    <2> QED
      BY <2>1, <2>2 DEF RootInv, InputType, NoRootUnderOverride, HasFile, input
  <1>2. CASE Container
    BY <1>2, ContainerKeepsRootOut
  <1>3. CASE ContainerFails
    BY <1>3, OthersKeepRootOut DEF ContainerFails
  <1>4. CASE Finish
    BY <1>4, OthersKeepRootOut DEF Finish
  <1>5. CASE Again
    BY <1>5, OthersKeepRootOut DEF Again
  <1>6. CASE UNCHANGED vars
    BY <1>6, OthersKeepRootOut DEF vars, input
  <1> QED
    BY <1>1, <1>2, <1>3, <1>4, <1>5, <1>6 DEF Next

\* With --override-root-uid (pod.go:149-171, security_context.go:52-60) no unit
\* file systemk writes runs its container as root, whatever the pod, the package
\* and the order of the containers.
THEOREM NoContainerIsRoot == Spec => []NoRootUnderOverride
  <1>1. Init => RootInv
    <2> SUFFICES ASSUME Init PROVE RootInv
      OBVIOUS
    <2>1. InputType /\ DOMAIN written = Containers /\ CarriedInv
      BY UserAssumption DEF Init, InputType, CarriedInv, Unset
    <2>2. \A c \in Containers : ~HasFile(c)
      BY DEF Init, HasFile
    <2> QED
      BY <2>1, <2>2 DEF RootInv, NoRootUnderOverride
  <1>2. RootInv /\ [Next]_vars => RootInv'
    BY RootStep
  <1>3. RootInv => NoRootUnderOverride
    BY DEF RootInv
  <1> QED
    BY <1>1, <1>2, <1>3, PTL DEF Spec

-----------------------------------------------------------------------------
(* The unit files are a function of the pod: whatever was written before,  *)
(* the loop writes FileOf(c) for the container c.                          *)

\* The user, the group and the last init container after n rounds.
RootUpto(n) == override # Unset /\ \E d \in 1..n : HasRoot(PackageFile(d))
UserOf(n) == IF Asked # Unset THEN ContextUid ELSE IF RootUpto(n) THEN override ELSE Unset
GroupOf(n) == IF Asked = Unset /\ RootUpto(n) THEN PrimaryGroup[override] ELSE ContextGid
PreviousOf(n) == IF n <= NumInit THEN n ELSE NumInit

FileOf(c) == UnitFile(c, UserOf(c), GroupOf(c), PreviousOf(c - 1))

LoopInv ==
    /\ pc = "begin" => at = 1 /\ previous = 0
    /\ pc = "loop" => /\ uid = UserOf(at - 1)
                      /\ gid = GroupOf(at - 1)
                      /\ previous = PreviousOf(at - 1)

FilesInv ==
    \A c \in Containers : HasFile(c) => written[c] = FileOf(c) /\ PackageFile(c) # Unreadable

IInv == RootInv /\ TypeOK /\ LoopInv /\ FilesInv

\* All that the definitions above go by is the input, which no step changes.
LEMMA InputStays ==
    ASSUME UNCHANGED input
    PROVE  /\ UNCHANGED <<Asked, RootIsMapped, ContextUid, ContextGid>>
           /\ \A c \in Containers : UNCHANGED <<PackageFile(c), FileOf(c)>>
           /\ \A n \in Nat : UNCHANGED <<UserOf(n), GroupOf(n), PreviousOf(n)>>
           /\ InputType => InputType'
  <1>1. context' = context /\ override' = override /\ spec' = spec
    BY DEF input
  <1>2. UNCHANGED <<Asked, RootIsMapped, ContextUid, ContextGid>>
    BY <1>1 DEF Asked, RootIsMapped, ContextUid, ContextGid
  <1>3. \A c \in Containers : UNCHANGED PackageFile(c)
    BY <1>1 DEF PackageFile
  <1>4. \A n : UNCHANGED RootUpto(n)
    BY <1>1 DEF RootUpto, PackageFile
  <1>5. \A n : UNCHANGED <<UserOf(n), GroupOf(n), PreviousOf(n)>>
    BY <1>1, <1>2, <1>4 DEF UserOf, GroupOf, PreviousOf
  <1>6. \A c \in Containers : UNCHANGED FileOf(c)
    BY <1>1, <1>3, <1>5 DEF FileOf, UnitFile, commandAndArgs
  <1> QED  BY <1>1, <1>2, <1>3, <1>5, <1>6 DEF InputType

\* What the loop starts with.
LEMMA StartOfLoop ==
    /\ UserOf(0) = ContextUid
    /\ GroupOf(0) = ContextGid
    /\ PreviousOf(0) = 0
  <1>1. ~RootUpto(0)
    BY DEF RootUpto
  <1>2. Asked = Unset => ContextUid = Unset
    BY DEF ContextUid, RootIsMapped, Unset
  <1> QED  BY <1>1, <1>2, NumAssumption DEF UserOf, GroupOf, PreviousOf

\* What one round makes of it.
LEMMA OneRound ==
    ASSUME InputType, NEW n \in Containers
    PROVE  /\ UserOf(n) = IF UserOf(n - 1) = Unset /\ HasRoot(PackageFile(n)) /\ override # Unset
                          THEN override ELSE UserOf(n - 1)
           /\ GroupOf(n) = IF UserOf(n - 1) = Unset /\ HasRoot(PackageFile(n)) /\ override # Unset
                           THEN PrimaryGroup[override] ELSE GroupOf(n - 1)
           /\ PreviousOf(n) = IF IsInit(n) THEN n ELSE PreviousOf(n - 1)
  <1>1. n \in Nat /\ n - 1 \in Nat /\ 1..n = 1..(n - 1) \cup {n}
    BY NumAssumption DEF Containers
  <1>2. RootUpto(n) <=> RootUpto(n - 1) \/ (override # Unset /\ HasRoot(PackageFile(n)))
    BY <1>1 DEF RootUpto
  <1>3. Asked # Unset => ContextUid # Unset
    BY DEF ContextUid, RootIsMapped
  <1>4. RootUpto(n - 1) => override # Unset
    BY DEF RootUpto
  <1>5. PreviousOf(n) = IF IsInit(n) THEN n ELSE PreviousOf(n - 1)
    BY <1>1, NumAssumption DEF PreviousOf, IsInit
  <1>6. CASE Asked # Unset
    BY <1>3, <1>5, <1>6 DEF UserOf, GroupOf
  <1>7. CASE Asked = Unset /\ RootUpto(n - 1)
    BY <1>2, <1>4, <1>5, <1>7 DEF UserOf, GroupOf
  <1>8. CASE Asked = Unset /\ ~RootUpto(n - 1)
    BY <1>2, <1>5, <1>8 DEF UserOf, GroupOf
  <1> QED  BY <1>6, <1>7, <1>8

LEMMA RoundWritesFileOf ==
    ASSUME IInv, Container
    PROVE  /\ written' = [written EXCEPT ![at] = FileOf(at)]
           /\ uid' = UserOf(at) /\ gid' = GroupOf(at) /\ previous' = PreviousOf(at)
           /\ at \in Containers /\ PackageFile(at) # Unreadable
  <1>1. /\ uid = UserOf(at - 1) /\ gid = GroupOf(at - 1) /\ previous = PreviousOf(at - 1)
        /\ at \in Containers /\ PackageFile(at) # Unreadable
    BY DEF IInv, LoopInv, Container, Fails
  <1>2. InputType
    BY DEF IInv, RootInv
  <1>3. uid' = UserOf(at) /\ gid' = GroupOf(at) /\ previous' = PreviousOf(at)
    BY <1>1, <1>2, OneRound DEF Container, Maps
  <1> QED  BY <1>1, <1>3 DEF Container, FileOf

LEMMA TypeStep == IInv /\ [Next]_vars => TypeOK'
  <1> SUFFICES ASSUME IInv, [Next]_vars
               PROVE  TypeOK'
    OBVIOUS
  <1> USE NumAssumption DEF Containers
  <1>1. CASE Begin
    <2>1. CarriedInv'
      BY <1>1, BeginKeepsCarried DEF IInv
    <2> QED  BY <1>1, <2>1 DEF IInv, TypeOK, CarriedInv, Begin, input
  <1>2. CASE Container
    <2>1. CarriedInv'
      BY <1>2, ContainerKeepsRootOut DEF IInv, RootInv
    <2>2. DOMAIN FileOf(at) = Options
      <3>1. DOMAIN PackageFile(at) = Options
        BY <1>2, RoundWritesFileOf, PackageFileType DEF IInv, RootInv
      <3> QED  BY <3>1 DEF FileOf, UnitFile
    <2>3. /\ DOMAIN written' = Containers
          /\ \A c \in Containers : DOMAIN written'[c] = Options
      BY <1>2, <2>2, RoundWritesFileOf DEF IInv, TypeOK
    <2>4. at' \in 1..(NumInit + NumMain + 1) /\ previous' \in 0..NumInit
      BY <1>2 DEF IInv, TypeOK, Container, IsInit
    <2> QED  BY <1>2, <2>1, <2>3, <2>4 DEF IInv, TypeOK, CarriedInv, Container, input
  <1>3. CASE ContainerFails
    BY <1>3 DEF IInv, TypeOK, ContainerFails, input
  <1>4. CASE Finish
    BY <1>4 DEF IInv, TypeOK, Finish, input
  <1>5. CASE Again
    BY <1>5 DEF IInv, TypeOK, Again, input
  <1>6. CASE UNCHANGED vars
    BY <1>6 DEF IInv, TypeOK, vars, input
  <1> QED  BY <1>1, <1>2, <1>3, <1>4, <1>5, <1>6 DEF Next

LEMMA InputNeverChanges == [Next]_vars => UNCHANGED input
  BY DEF Next, vars, input, Begin, Container, ContainerFails, Finish, Again

LEMMA LoopStep == IInv /\ [Next]_vars => LoopInv'
  <1> SUFFICES ASSUME IInv, [Next]_vars
               PROVE  LoopInv'
    OBVIOUS
  <1> USE NumAssumption DEF Containers
  <1>i. /\ UNCHANGED <<ContextUid, ContextGid>>
        /\ \A n \in Nat : UNCHANGED <<UserOf(n), GroupOf(n), PreviousOf(n)>>
    BY InputNeverChanges, InputStays
  <1>t. at - 1 \in Nat /\ at \in Nat
    BY DEF IInv, TypeOK
  <1>1. CASE Begin
    <2>1. at' = 1 /\ previous' = 0 /\ pc' # "begin"
      BY <1>1 DEF Begin, IInv, LoopInv
    <2>2. pc' = "loop" => uid' = ContextUid /\ gid' = ContextGid
      BY <1>1 DEF Begin
    <2>3. UserOf(0)' = ContextUid /\ GroupOf(0)' = ContextGid /\ PreviousOf(0)' = 0
      BY <1>i, StartOfLoop
    <2>4. at' - 1 = 0
      BY <2>1
    <2> QED  BY <1>i, <2>1, <2>2, <2>3, <2>4 DEF LoopInv, UserOf, GroupOf, PreviousOf, RootUpto
  <1>2. CASE Container
    <2>1. uid' = UserOf(at) /\ gid' = GroupOf(at) /\ previous' = PreviousOf(at)
      BY <1>2, RoundWritesFileOf
    <2>2. pc = "loop" /\ pc' = "loop" /\ at' - 1 = at
      BY <1>2, <1>t DEF Container
    <2>4. PICK n \in Nat : n = at
      BY <1>t
    <2>5. uid' = UserOf(n)' /\ gid' = GroupOf(n)' /\ previous' = PreviousOf(n)'
      BY <1>i, <2>1, <2>4
    <2>6. at' - 1 = n
      BY <2>2, <2>4
    <2> QED  BY <1>i, <2>2, <2>5, <2>6 DEF LoopInv, UserOf, GroupOf, PreviousOf, RootUpto
  <1>3. CASE ContainerFails \/ Finish \/ Again
    BY <1>3 DEF ContainerFails, Finish, Again, LoopInv
  <1>4. CASE UNCHANGED vars
    BY <1>4, <1>i, <1>t DEF IInv, LoopInv, vars
  <1> QED  BY <1>1, <1>2, <1>3, <1>4 DEF Next

LEMMA FilesStep == IInv /\ [Next]_vars => FilesInv'
  <1> SUFFICES ASSUME IInv, [Next]_vars, NEW c \in Containers, HasFile(c)'
               PROVE  written'[c] = FileOf(c)' /\ PackageFile(c)' # Unreadable
    BY DEF FilesInv, Containers
  <1>i. UNCHANGED <<PackageFile(c), FileOf(c)>>
    BY InputNeverChanges, InputStays
  <1>1. CASE written' = written
    BY <1>1, <1>i DEF IInv, FilesInv, HasFile
  <1>2. CASE Container
    <2>1. CASE c = at
      BY <1>2, <1>i, <2>1, RoundWritesFileOf DEF IInv, RootInv
    <2>2. CASE c # at
      <3>1. written'[c] = written[c]
        BY <1>2, <2>2, RoundWritesFileOf DEF IInv, RootInv
      <3> QED  BY <1>i, <3>1 DEF IInv, FilesInv, HasFile
    <2> QED  BY <2>1, <2>2
  <1> QED  BY <1>1, <1>2 DEF Next, vars, Begin, ContainerFails, Finish, Again

LEMMA IInvInvariant == Spec => []IInv
  <1>1. Init => IInv
    <2> SUFFICES ASSUME Init PROVE IInv
      OBVIOUS
    <2>1. \A c \in Containers : ~HasFile(c)
      BY DEF Init, HasFile
    <2>2. RootInv
      BY <2>1, UserAssumption DEF Init, RootInv, InputType, CarriedInv, NoRootUnderOverride, Unset
    <2>3. TypeOK
      BY NumAssumption DEF Init, TypeOK, NoFile, Options
    <2> QED  BY <2>1, <2>2, <2>3 DEF IInv, Init, LoopInv, FilesInv
  <1>2. IInv /\ [Next]_vars => IInv'
    BY RootStep, TypeStep, LoopStep, FilesStep DEF IInv
  <1> QED  BY <1>1, <1>2, PTL DEF Spec

\* The variables of CreatePod keep their types; the input is what was given.
THEOREM TypeIsOK == Spec => []TypeOK
  <1>1. IInv => TypeOK
    BY DEF IInv
  <1> QED  BY <1>1, IInvInvariant, PTL

\* Whatever became of the calls before, a container that has its unit file keeps
\* the very same one: a CreatePod that comes again writes nothing else (pod.go,
\* lines 81-242).
THEOREM SameFilesWritten == Spec => SameFilesAgain
  <1>1. ASSUME IInv, [Next]_vars, NEW c \in Containers, HasFile(c)
        PROVE  written'[c] = written[c]
    <2>1. CASE written' = written
      BY <2>1
    <2>2. CASE Container
      BY <1>1, <2>2, RoundWritesFileOf DEF IInv, RootInv, FilesInv
    <2> QED  BY <1>1, <2>1, <2>2 DEF Next, vars, Begin, ContainerFails, Finish, Again
  <1>2. IInv /\ [Next]_vars => [\A c \in Containers : HasFile(c) => written'[c] = written[c]]_vars
    BY <1>1
  <1> QED  BY <1>2, IInvInvariant, PTL DEF Spec, SameFilesAgain

\* The options of a unit file the properties are about.
LEMMA FileFields ==
    ASSUME InputType, NEW c \in Containers, PackageFile(c) # Unreadable
    PROVE  /\ FileOf(c)["User"] = IF UserOf(c) = Unset THEN PackageFile(c)["User"] ELSE <<UserOf(c)>>
           /\ FileOf(c)["Group"] = IF UserOf(c) = Unset THEN PackageFile(c)["Group"] ELSE <<GroupOf(c)>>
           /\ FileOf(c)["ExecStart"] = <<commandAndArgs(PackageFile(c)["ExecStart"], c)>>
           /\ FileOf(c)["Environment"] = WithEnvironment(PackageFile(c)["Environment"], spec[c].env)
  <1>1. DOMAIN PackageFile(c) = Options
    BY PackageFileType
  <1> QED  BY <1>1 DEF FileOf, UnitFile, Overwrite, Options

\* The pod's security context decides in every container of the pod (pod.go:81-95
\* and 149-175), whatever the packages say and wherever CreatePod failed before.
THEOREM ContextAlwaysWins == Spec => []ContextWins
  <1>1. IInv => ContextWins
    <2> SUFFICES ASSUME IInv, NEW c \in Containers, HasFile(c), Asked # Unset, ~RootIsMapped
                 PROVE  /\ written[c]["User"] = <<Asked>>
                        /\ written[c]["Group"] = <<IF context.group # Unset THEN context.group
                                                   ELSE PrimaryGroup[Asked]>>
      BY DEF ContextWins
    <2>1. written[c] = FileOf(c) /\ PackageFile(c) # Unreadable /\ InputType
      BY DEF IInv, FilesInv, RootInv
    <2>2. UserOf(c) = Asked
      BY DEF UserOf, ContextUid
    <2>3. GroupOf(c) = IF context.group # Unset THEN context.group ELSE PrimaryGroup[Asked]
      BY DEF GroupOf, ContextGid
    <2> QED  BY <2>1, <2>2, <2>3, FileFields
  <1> QED  BY <1>1, IInvInvariant, PTL

\* systemd takes the last assignment of a variable, and the last ones in the file
\* are the container's (pod.go:222-234), for any number of variables anywhere.
THEOREM OwnEnvironmentWins == Spec => []ContainerEnvWins
  <1>1. IInv => ContainerEnvWins
    <2> SUFFICES ASSUME IInv, NEW c \in Containers, HasFile(c), NEW i \in 1..Len(spec[c].env)
                 PROVE  \E j \in 1..Len(written[c]["Environment"]) :
                           /\ written[c]["Environment"][j] = spec[c].env[i]
                           /\ \A k \in (j + 1)..Len(written[c]["Environment"]) :
                                 written[c]["Environment"][k] \in Range(spec[c].env)
      BY DEF ContainerEnvWins
    <2>1. written[c] = FileOf(c) /\ PackageFile(c) # Unreadable /\ InputType
      BY DEF IInv, FilesInv, RootInv
    <2> DEFINE env == spec[c].env
               before == PackageFile(c)["Environment"] \o DefaultEnv
               all == before \o env
    <2>2. spec[c] \in Specs
      BY <2>1 DEF InputType
    <2>3. env \in Seq(Variable) /\ before \in Seq(Variable)
      BY <2>1, <2>2, SpecsAssumption, EnvAssumption, PackageFileType, ConcatProperties
    <2>4. written[c]["Environment"] = all
      BY <2>1, FileFields DEF WithEnvironment
    <2> HIDE DEF before
    <2>5. PICK n \in Nat, m \in Nat : Len(before) = n /\ Len(env) = m
      BY <2>3, LenProperties
    <2>6. Len(all) = n + m /\ \A k \in 1..(n + m) : all[k] = IF k <= n THEN before[k] ELSE env[k - n]
      BY <2>3, <2>5, ConcatProperties
    <2>7. n + i \in 1..(n + m) /\ all[n + i] = env[i]
      <3>1. n + i \in 1..(n + m) /\ ~(n + i <= n) /\ (n + i) - n = i
        BY <2>5
      <3> HIDE DEF all, env
      <3> QED  BY <2>6, <3>1
    <2>8. ASSUME NEW k \in (n + i + 1)..(n + m)
          PROVE  all[k] \in Range(env)
      <3>1. k \in 1..(n + m) /\ ~(k <= n) /\ k - n \in 1..m
        BY <2>5
      <3>2. DOMAIN env = 1..m
        BY <2>3, <2>5, LenProperties
      <3>3. all[k] = env[k - n]
        BY <2>6, <3>1
      <3> QED  BY <3>1, <3>2, <3>3 DEF Range
    <2> HIDE DEF all
    <2> QED  BY <2>4, <2>6, <2>7, <2>8
  <1> QED  BY <1>1, IInvInvariant, PTL

\* What command.go makes of one ExecStart, whatever it is made of.
LEMMA CommandLine ==
    ASSUME NEW c \in Containers, InputType, NEW execStart \in Seq(Seq(STRING))
    PROVE  LET line == commandAndArgs(execStart, c)
           IN  /\ spec[c].command # <<>> => IsPrefix(spec[c].command, line)
               /\ spec[c].args # <<>> => IsSuffix(spec[c].args, line)
               /\ Len(execStart) = 1 /\ spec[c].args # <<>> =>
                     Len(line) = Len(spec[c].args) +
                         (IF spec[c].command # <<>> THEN Len(spec[c].command)
                          ELSE Len(FirstWord(execStart[1])))
               /\ Len(execStart) = 1 /\ spec[c].command = <<>> /\ spec[c].args = <<>>
                     => line = execStart[1]
  <1> DEFINE command == spec[c].command
             args == spec[c].args
             first == IF command # <<>> THEN command ELSE Program(execStart)
             rest == Arguments(execStart, args)
             line == commandAndArgs(execStart, c)
  <1>1. command \in Seq(STRING) /\ args \in Seq(STRING)
    <2>1. spec[c] \in Specs
      BY DEF InputType
    <2> QED  BY <2>1, SpecsAssumption
  <1>2. line = first \o rest
    BY DEF commandAndArgs
  <1>3. Len(execStart) = 1 => execStart[1] \in Seq(STRING)
    BY ElementOfSeq
  <1>4. \A l \in Seq(STRING) : FirstWord(l) \in Seq(STRING)
    <2> SUFFICES ASSUME NEW l \in Seq(STRING), l # <<>>
                 PROVE  <<Head(l)>> \in Seq(STRING)
      BY DEF FirstWord
    <2>1. Head(l) \in STRING
      BY HeadTailProperties
    <2> QED  BY <2>1
  <1>5. Program(execStart) \in Seq(STRING)
    <2>1. execStart # <<>> => Head(execStart) \in Seq(STRING)
      BY HeadTailProperties
    <2>2. <<>> \in Seq(STRING)
      OBVIOUS
    <2> QED  BY <1>3, <1>4, <2>1, <2>2 DEF Program
  <1>6. \A l \in Seq(STRING) : /\ SubSeq(l, 2, Len(l)) \in Seq(STRING)
                               /\ FirstWord(l) \o SubSeq(l, 2, Len(l)) = l
    <2> SUFFICES ASSUME NEW l \in Seq(STRING)
                 PROVE  /\ SubSeq(l, 2, Len(l)) \in Seq(STRING)
                        /\ FirstWord(l) \o SubSeq(l, 2, Len(l)) = l
      OBVIOUS
    <2>1. Len(l) \in Nat /\ \A i \in 2..Len(l) : l[i] \in STRING
      BY LenProperties
    <2>2. SubSeq(l, 2, Len(l)) \in Seq(STRING)
      BY <2>1, SubSeqProperties
    <2>3. CASE l = <<>>
      <3>1. SubSeq(l, 2, Len(l)) = <<>>
        BY <2>1, <2>3, SubSeqEmpty
      <3> QED  BY <2>2, <2>3, <3>1 DEF FirstWord
    <2>4. CASE l # <<>>
      <3>1. Len(l) \in 1..Len(l) /\ 1 \in 1..Len(l) /\ Head(l) = l[1]
        BY <2>1, <2>4, EmptySeq
      <3>2. SubSeq(l, 1, Len(l)) = <<l[1]>> \o SubSeq(l, 1 + 1, Len(l))
        BY <3>1, SubSeqRecursiveFirst
      <3>3. SubSeq(l, 1, Len(l)) = l
        BY SubSeqFull
      <3> QED  BY <2>2, <2>4, <3>1, <3>2, <3>3 DEF FirstWord
    <2> QED  BY <2>3, <2>4
  <1>7. rest \in Seq(STRING)
    <2>1. CASE args # <<>>
      BY <1>1, <2>1 DEF Arguments
    <2>2. CASE args = <<>> /\ Len(execStart) = 1
      BY <1>3, <1>6, <2>2 DEF Arguments
    <2>3. CASE args = <<>> /\ Len(execStart) # 1 /\ execStart = <<>>
      BY <2>3 DEF Arguments
    <2>4. CASE args = <<>> /\ Len(execStart) # 1 /\ execStart # <<>>
      <3>1. Tail(execStart) \in Seq(Seq(STRING))
        BY <2>4, HeadTailProperties
      <3>2. FlattenSeq(Tail(execStart)) \in Seq(STRING)
        BY <3>1, FlattenIsSequence
      <3> QED  BY <2>4, <3>2 DEF Arguments
    <2> QED  BY <2>1, <2>2, <2>3, <2>4
  <1>8. first \in Seq(STRING)
    BY <1>1, <1>5
  <1>9. command # <<>> => IsPrefix(command, line)
    BY <1>1, <1>2, <1>7, PrefixOfConcat
  <1>10. args # <<>> => IsSuffix(args, line)
    <2> SUFFICES ASSUME args # <<>> PROVE IsSuffix(args, line)
      OBVIOUS
    <2>1. rest = args
      BY DEF Arguments
    <2> HIDE DEF first, rest, line
    <2> QED  BY <1>1, <1>2, <1>8, <2>1, SuffixOfConcat
  <1>11. Len(execStart) = 1 /\ args # <<>> =>
            Len(line) = Len(args) + (IF command # <<>> THEN Len(command)
                                     ELSE Len(FirstWord(execStart[1])))
    <2> SUFFICES ASSUME Len(execStart) = 1, args # <<>>
                 PROVE  Len(line) = Len(args) + (IF command # <<>> THEN Len(command)
                                                 ELSE Len(FirstWord(execStart[1])))
      OBVIOUS
    <2>1. rest = args /\ first = IF command # <<>> THEN command ELSE FirstWord(execStart[1])
      BY DEF Arguments, Program
    <2> HIDE DEF first, rest, line
    <2>2. Len(line) = Len(first) + Len(rest) /\ Len(first) \in Nat /\ Len(rest) \in Nat
      BY <1>2, <1>7, <1>8, ConcatProperties, LenProperties
    <2> HIDE DEF command, args
    <2>3. Len(first) = IF command # <<>> THEN Len(command) ELSE Len(FirstWord(execStart[1]))
      BY <2>1, Zenon
    <2>4. Len(rest) = Len(args)
      BY <2>1, Zenon
    <2>5. Len(line) = Len(rest) + Len(first)
      BY <2>2
    <2> QED  BY <2>3, <2>4, <2>5, Zenon
  <1>12. Len(execStart) = 1 /\ command = <<>> /\ args = <<>> => line = execStart[1]
    BY <1>2, <1>3, <1>6 DEF Arguments, Program
  <1> QED  BY <1>9, <1>10, <1>11, <1>12

\* README, Design: a command takes the place of the package's program and leaves
\* its options, args take the place of the options (command.go:13-47); for unit
\* files with any number of ExecStart lines, and for the synthesized one.
THEOREM CommandsAreAsDocumented == Spec => []ExecStartAsDocumented
  <1>1. IInv => ExecStartAsDocumented
    <2> SUFFICES ASSUME IInv, NEW c \in Containers, HasFile(c)
                 PROVE  LET line == written[c]["ExecStart"][1]
                            packaged == PackageFile(c)["ExecStart"]
                        IN  /\ Len(written[c]["ExecStart"]) = 1
                            /\ spec[c].command # <<>> => IsPrefix(spec[c].command, line)
                            /\ spec[c].args # <<>> => IsSuffix(spec[c].args, line)
                            /\ Len(packaged) = 1 /\ spec[c].args # <<>> =>
                                 Len(line) = Len(spec[c].args) +
                                     (IF spec[c].command # <<>> THEN Len(spec[c].command)
                                      ELSE Len(FirstWord(packaged[1])))
                            /\ Len(packaged) = 1 /\ spec[c].command = <<>> /\ spec[c].args = <<>>
                                 => line = packaged[1]
      BY DEF ExecStartAsDocumented
    <2>1. written[c] = FileOf(c) /\ PackageFile(c) # Unreadable /\ InputType
      BY DEF IInv, FilesInv, RootInv
    <2> DEFINE packaged == PackageFile(c)["ExecStart"]
               line == commandAndArgs(packaged, c)
    <2>2. packaged \in Seq(Seq(STRING))
      BY <2>1, PackageFileType
    <2>3. Len(written[c]["ExecStart"]) = 1 /\ written[c]["ExecStart"][1] = line
      <3>1. written[c]["ExecStart"] = <<line>>
        BY <2>1, FileFields
      <3> HIDE DEF line
      <3> QED  BY <3>1
    <2> HIDE DEF packaged
    <2>4. /\ spec[c].command # <<>> => IsPrefix(spec[c].command, line)
          /\ spec[c].args # <<>> => IsSuffix(spec[c].args, line)
          /\ Len(packaged) = 1 /\ spec[c].args # <<>> =>
                Len(line) = Len(spec[c].args) +
                    (IF spec[c].command # <<>> THEN Len(spec[c].command)
                     ELSE Len(FirstWord(packaged[1])))
          /\ Len(packaged) = 1 /\ spec[c].command = <<>> /\ spec[c].args = <<>>
                => line = packaged[1]
      BY <2>1, <2>2, CommandLine
    <2> QED  BY <2>3, <2>4 DEF packaged
  <1> QED  BY <1>1, IInvInvariant, PTL
=============================================================================
