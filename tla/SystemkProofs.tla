---------------------------- MODULE SystemkProofs ----------------------------
(***************************************************************************)
(* Proofs about Systemk.  The inductive invariant IInv says, for start-up, *)
(* what the main goroutine has behind it at each of its places; for the    *)
(* packages, who installs at what time and under which policy; and for the *)
(* logs, which of handler and follower can end first.  It is the workers   *)
(* that tie the parts together: they begin late, so that the policy is     *)
(* there when they run dpkg.                                               *)
(***************************************************************************)
EXTENDS Systemk, TLAPS

-----------------------------------------------------------------------------
(* Start-up.                                                               *)

LEMMA StartupType == S!TypeOK /\ [Next]_vars => S!TypeOK'
  <1> SUFFICES ASSUME S!TypeOK, [Next]_vars
               PROVE  S!TypeOK'
    OBVIOUS
  <1> USE DEF S!TypeOK, S!Main, S!contextVars, S!configVars, S!goroutineVars, S!Ends,
              S!MainPcs, S!Caches
  <1>1. CASE S!ReadFlags
    BY <1>1 DEF S!ReadFlags, S!Options, S!Parse
  <1>2. CASE S!ConfigureNode
    BY <1>2 DEF S!ConfigureNode, S!NodeAddresses, S!AfterAddresses
  <1>3. CASE S!WaitForCacheSync
    BY <1>3 DEF S!WaitForCacheSync
  <1>4. CASE S!SetupKubeletServer
    BY <1>4 DEF S!SetupKubeletServer
  <1>5. CASE S!StartControllers
    BY <1>5 DEF S!StartControllers
  <1>6. CASE S!SetNodeReady \/ S!Return
    BY <1>6 DEF S!SetNodeReady, S!Return
  <1>7. CASE S!SetUp
    BY <1>7 DEF S!SetUp
  <1>8. CASE S!ProviderIsNew
    BY <1>8 DEF S!ProviderIsNew
  <1>9. CASE S!Cancel
    BY <1>9 DEF S!Cancel
  <1>10. ASSUME NEW to \in {"running", "ended"}, S!PodController(to)
         PROVE  S!TypeOK'
    BY <1>10 DEF S!PodController
  <1>11. ASSUME NEW to \in {"running", "ended"}, S!NodeController(to)
         PROVE  S!TypeOK'
    BY <1>11 DEF S!NodeController
  <1>12. CASE S!Signal
    BY <1>12 DEF S!Signal
  <1>13. ASSUME NEW cache \in S!Caches, S!CacheSyncs(cache)
         PROVE  S!TypeOK'
    BY <1>13 DEF S!CacheSyncs
  <1>14. CASE S!Ends("killed") \/ S!Ends("fatal")
    BY <1>14
  <1>15. CASE S!Restart
    BY <1>15 DEF S!Restart, S!Begins, S!InstallFlags
  <1>16. CASE UNCHANGED startupVars
    BY <1>16 DEF startupVars
  <1>17. S!GoroutineStep => \/ S!Cancel \/ S!Ends("fatal")
                            \/ \E to \in {"running", "ended"} : 
                                  S!PodController(to) \/ S!NodeController(to)
    BY DEF S!GoroutineStep, S!RunPodController, S!RunNodeController
  <1>18. CASE MainStep
    BY <1>18, <1>1, <1>2, <1>3, <1>4, <1>5, <1>6 DEF MainStep, S!MainStep
  <1>19. CASE GoroutineStep
    BY <1>19, <1>9, <1>10, <1>11, <1>14, <1>17 DEF GoroutineStep
  <1>20. CASE SetUp \/ ProviderIsNew \/ CacheSyncs \/ Signal \/ Killed \/ Restart
    BY <1>20, <1>7, <1>8, <1>12, <1>13, <1>14, <1>15
    DEF SetUp, ProviderIsNew, CacheSyncs, Signal, Killed, Restart
  <1> QED
    BY <1>16, <1>18, <1>19, <1>20 DEF Next, Install, Handle, Follow, Client, Logged, vars

-----------------------------------------------------------------------------
(* Nothing before the caches and the server.                               *)

\* Everything a pod may need is there.
Complete == synced = S!Caches /\ (machine.tls => server = "up")

\* The main goroutine goes past a wait only with what it waited for, or told to
\* stop; and no controller starts to run after that.
SyncInv ==
    /\ main \in {"ressync", "server", "podctl", "nodectl", "ready", "wait"}
          => "pods" \in synced \/ cancelled
    /\ main \in {"server", "podctl", "nodectl", "ready", "wait"}
          => "resources" \in synced \/ cancelled
    /\ main \in {"podctl", "nodectl", "ready", "wait"} => (machine.tls => server = "up")
    /\ podCtl # "off" => main \in {"nodectl", "ready", "wait"}
    /\ nodeCtl # "off" => main \in {"ready", "wait"}
    /\ podCtl = "running" \/ nodeCtl = "running" \/ ready => Complete

LEMMA SyncStep == S!TypeOK /\ SyncInv /\ [Next]_vars => SyncInv'
  <1> SUFFICES ASSUME S!TypeOK, SyncInv, [Next]_vars
               PROVE  SyncInv'
    OBVIOUS
  <1> USE DEF SyncInv, Complete, S!Main, S!contextVars, S!configVars, S!goroutineVars, S!Ends
  <1>0. synced \subseteq S!Caches
    BY DEF S!TypeOK
  <1>1. CASE S!ReadFlags \/ S!ConfigureNode \/ S!SetUp \/ S!ProviderIsNew
    BY <1>1 DEF S!ReadFlags, S!ConfigureNode, S!SetUp, S!ProviderIsNew
  <1>2. CASE S!WaitForCacheSync
    BY <1>2 DEF S!WaitForCacheSync, S!SyncOver
  <1>3. CASE S!SetupKubeletServer
    BY <1>3 DEF S!SetupKubeletServer
  <1>4. CASE S!StartControllers
    BY <1>4 DEF S!StartControllers
  <1>5. CASE S!SetNodeReady \/ S!Return
    BY <1>5 DEF S!SetNodeReady, S!Return
  <1>6. CASE S!Cancel \/ S!Signal
    BY <1>6 DEF S!Cancel, S!Signal
  <1>7. CASE S!RunPodController
    <2>1. CASE podCtl = "started" /\ ~cancelled /\ "pods" \in synced /\ S!PodController("running")
      BY <2>1, <1>0 DEF S!PodController, S!Caches
    <2>2. CASE podCtl = "started" /\ S!PodController("ended")
      BY <2>2 DEF S!PodController
    <2>3. CASE S!Ends("fatal")
      BY <2>3
    <2> QED  BY <1>7, <2>1, <2>2, <2>3 DEF S!RunPodController
  <1>8. CASE S!RunNodeController
    <2>1. CASE nodeCtl = "started" /\ ~cancelled /\ S!NodeController("running")
      BY <2>1, <1>0 DEF S!NodeController, S!Caches
    <2>2. CASE nodeCtl = "running" /\ S!NodeController("ended")
      BY <2>2 DEF S!NodeController
    <2>3. CASE S!Ends("fatal")
      BY <2>3
    <2> QED  BY <1>8, <2>1, <2>2, <2>3 DEF S!RunNodeController
  <1>9. ASSUME NEW cache \in S!Caches, S!CacheSyncs(cache)
        PROVE  SyncInv'
    BY <1>0, <1>9 DEF S!CacheSyncs
  <1>10. CASE S!Ends("killed") \/ UNCHANGED startupVars
    BY <1>10 DEF startupVars
  <1>14. CASE S!Restart
    BY <1>14 DEF S!Restart, S!Begins
  <1>11. CASE MainStep
    BY <1>11, <1>1, <1>2, <1>3, <1>4, <1>5 DEF MainStep, S!MainStep
  <1>12. CASE GoroutineStep
    BY <1>12, <1>6, <1>7, <1>8 DEF GoroutineStep, S!GoroutineStep
  <1>13. CASE SetUp \/ ProviderIsNew \/ CacheSyncs \/ Signal \/ Killed \/ Restart
    BY <1>13, <1>1, <1>6, <1>9, <1>10, <1>14
    DEF SetUp, ProviderIsNew, CacheSyncs, Signal, Killed, Restart
  <1> QED
    BY <1>10, <1>11, <1>12, <1>13 DEF Next, Install, Handle, Follow, Client, Logged, vars

-----------------------------------------------------------------------------
(* Packages.                                                               *)

\* What the assumptions on Images say of one list of images.
LEMMA NonEmptySeq ==
    ASSUME NEW T, NEW s \in Seq(T), s # <<>>
    PROVE  Len(s) \in Nat \ {0} /\ DOMAIN s = 1..Len(s) /\ \A i \in DOMAIN s : s[i] \in T
  OBVIOUS

\* Every caller has an image to install.
LEMMA ImagesAreThere ==
    ASSUME NEW w \in P!Installers
    PROVE  /\ Len(Images[w]) \in Nat \ {0}
           /\ DOMAIN Images[w] = 1..Len(Images[w])
           /\ \A i \in DOMAIN Images[w] : Images[w][i].package \in P!Package
  <1>1. CASE w = Starter
    <2>1. Images[w] = <<[form |-> "name", package |-> Policyrcd]>>
      BY <1>1, StarterAssumption
    <2>2. Policyrcd \in P!Package
      BY DEF P!Package
    <2> QED  BY <2>1, <2>2
  <1>2. CASE w \in Workers
    <2> DEFINE Image == [form : {"name", "url", "path"}, package : P!Package]
    <2>1. Images[w] \in Seq(Image) /\ Images[w] # <<>>
      BY <1>2, ImagesAssumption
    <2>2. \A image \in Image : image.package \in P!Package
      OBVIOUS
    <2> HIDE DEF Image
    <2> QED  BY <2>1, <2>2, NonEmptySeq
  <1> QED  BY <1>1, <1>2 DEF P!Installers

\* Going on with the next container, or starting again with the first.
LEMMA NextContainerType ==
    ASSUME P!TypeOK, NEW w \in P!Installers, P!NextContainer(w) \/ P!Fails(w) \/ UNCHANGED at
    PROVE  \A v \in P!Installers : at'[v] \in DOMAIN Images[v]
  <1> SUFFICES ASSUME NEW v \in P!Installers
               PROVE  at'[v] \in DOMAIN Images[v]
    OBVIOUS
  <1>0. /\ Len(Images[v]) \in Nat \ {0}
        /\ DOMAIN Images[v] = 1..Len(Images[v])
        /\ at[v] \in DOMAIN Images[v]
    BY ImagesAreThere DEF P!TypeOK
  <1>1. CASE P!NextContainer(w)
    <2>1. at \in [P!Installers -> Nat]
      BY DEF P!TypeOK
    <2>2. CASE at[w] < Len(Images[w]) /\ at' = [at EXCEPT ![w] = @ + 1]
      BY <1>0, <2>1, <2>2
    <2>3. CASE at' = at
      BY <1>0, <2>3
    <2> QED  BY <1>1, <2>2, <2>3 DEF P!NextContainer
  <1>2. CASE P!Fails(w) \/ UNCHANGED at
    <2>1. at \in [P!Installers -> Nat]
      BY DEF P!TypeOK
    <2>2. CASE at' = [at EXCEPT ![w] = 1]
      BY <1>0, <2>1, <2>2
    <2>3. CASE at' = at
      BY <1>0, <2>3
    <2> QED  BY <1>2, <2>2, <2>3 DEF P!Fails
  <1> QED  BY <1>1, <1>2


\* dpkg adds a package, or does nothing.
LEMMA UnpackedType ==
    ASSUME P!TypeOK, NEW w \in P!Installers, P!Unpacked(w) \/ UNCHANGED P!machineVars
    PROVE  /\ installed' \subseteq P!Package /\ running' \subseteq installed'
           /\ masked' \subseteq P!Package /\ ours' \subseteq installed'
  <1>1. P!Clean(P!TheImage(w)) \in P!Package
    BY ImagesAreThere DEF P!TypeOK, P!Clean, P!TheImage
  <1>2. CASE P!Unpacked(w)
    BY <1>1, <1>2 DEF P!TypeOK, P!Unpacked
  <1>3. CASE UNCHANGED P!machineVars
    BY <1>3 DEF P!TypeOK, P!machineVars
  <1> QED  BY <1>2, <1>3

\* What a caller does when it goes on, or when Install fails.
GoesOn(w) == P!NextContainer(w) \/ P!Fails(w)

LEMMA GoesOnType ==
    ASSUME P!TypeOK, NEW w \in P!Installers, GoesOn(w), exposed' \in BOOLEAN
    PROVE  /\ at' \in [P!Installers -> Nat]
           /\ \A v \in P!Installers : at'[v] \in DOMAIN Images[v]
           /\ \E to \in {"check", "done"} : pc' = [pc EXCEPT ![w] = to]
  <1>1. at \in [P!Installers -> Nat]
    BY DEF P!TypeOK
  <1>2. at' \in [P!Installers -> Nat]
    BY <1>1 DEF GoesOn, P!NextContainer, P!Fails
  <1>3. \A v \in P!Installers : at'[v] \in DOMAIN Images[v]
    BY NextContainerType DEF GoesOn
  <1>4. \E to \in {"check", "done"} : pc' = [pc EXCEPT ![w] = to]
    BY DEF GoesOn, P!NextContainer, P!Fails, P!Goto
  <1> QED  BY <1>2, <1>3, <1>4

\* A step that takes a caller to another place, and neither into dpkg nor out of it.
LEMMA GotoType ==
    ASSUME P!TypeOK, NEW w \in P!Installers, pc[w] # "dpkg",
           NEW to \in P!Pcs \ {"dpkg"}, pc' = [pc EXCEPT ![w] = to], UNCHANGED lock
    PROVE  /\ pc' \in [P!Installers -> P!Pcs]
           /\ \A v \in P!Installers : lock' = {v} <=> pc'[v] = "dpkg"
  BY DEF P!TypeOK

\* The failures stay within their bound.
LEMMA ErrorsType ==
    ASSUME P!TypeOK, UNCHANGED errors \/ (errors < MaxErrors /\ errors' = errors + 1)
    PROVE  errors' \in 0..MaxErrors
  BY BoundAssumption DEF P!TypeOK

LEMMA PackagesType == P!TypeOK /\ [Next]_vars => P!TypeOK'
  <1> SUFFICES ASSUME P!TypeOK, [Next]_vars
               PROVE  P!TypeOK'
    OBVIOUS
  <1>0. /\ pc \in [P!Installers -> P!Pcs] /\ at \in [P!Installers -> Nat]
        /\ errors \in 0..MaxErrors /\ exposed \in BOOLEAN
        /\ \A v \in P!Installers : at[v] \in DOMAIN Images[v]
    BY DEF P!TypeOK
  <1>1. ASSUME NEW w \in P!Installers, P!Begin(w)
        PROVE  P!TypeOK'
    BY <1>1 DEF P!TypeOK, P!Begin, P!Pcs, P!machineVars, P!At, P!Goto
  <1>2. ASSUME NEW w \in P!Installers, P!Check(w)
        PROVE  P!TypeOK'
    <2>0. /\ pc[w] = "check" /\ UNCHANGED <<manager, policy, lock, errors>>
          /\ UNCHANGED <<installed, running, masked, ours>> /\ exposed' \in BOOLEAN
      BY <1>0, <1>2 DEF P!Check, P!At, P!NoopInstall, P!ArchInstall, P!DebianInstall, P!Fails,
                        P!machineVars
    <2>1. CASE GoesOn(w)
      <3>1. PICK to \in {"check", "done"} : pc' = [pc EXCEPT ![w] = to]
        BY <2>0, <2>1, GoesOnType
      <3>2. to \in P!Pcs \ {"dpkg"}
        BY DEF P!Pcs
      <3> QED  BY <2>0, <2>1, <3>1, <3>2, GoesOnType, GotoType DEF P!TypeOK
    <2>2. ASSUME NEW to \in {"mask", "fetch", "policy"}, P!Goto(w, to), UNCHANGED at
          PROVE  P!TypeOK'
      <3>1. to \in P!Pcs \ {"dpkg"} /\ pc' = [pc EXCEPT ![w] = to]
        BY <2>2 DEF P!Pcs, P!Goto
      <3> QED  BY <2>0, <2>2, <3>1, GotoType DEF P!TypeOK
    <2> QED
      BY <1>2, <2>1, <2>2 DEF GoesOn, P!Check, P!NoopInstall, P!ArchInstall, P!DebianInstall
  <1>3. ASSUME NEW w \in P!Installers, P!Fetch(w) \/ P!WritePolicy(w)
        PROVE  P!TypeOK'
    <2>0. /\ pc[w] # "dpkg" /\ UNCHANGED <<manager, lock>> /\ policy' \subseteq P!Installers
          /\ UNCHANGED <<installed, running, masked, ours>> /\ exposed' \in BOOLEAN
      BY <1>0, <1>3
      DEF P!Fetch, P!WritePolicy, P!At, P!Error, P!Fails, P!PolicyOf, P!machineVars, P!TypeOK
    <2>3. errors' \in 0..MaxErrors
      BY <1>3, ErrorsType DEF P!Fetch, P!WritePolicy, P!Error
    <2>1. CASE P!Error(w)
      <3>0. GoesOn(w)
        BY <2>1 DEF P!Error, GoesOn
      <3>1. PICK to \in {"check", "done"} : pc' = [pc EXCEPT ![w] = to]
        BY <2>0, <3>0, GoesOnType
      <3>2. to \in P!Pcs \ {"dpkg"}
        BY DEF P!Pcs
      <3> QED  BY <2>0, <2>3, <3>0, <3>1, <3>2, GoesOnType, GotoType DEF P!TypeOK
    <2>2. ASSUME NEW to \in {"policy", "install"}, P!Goto(w, to), UNCHANGED at
          PROVE  P!TypeOK'
      <3>1. to \in P!Pcs \ {"dpkg"} /\ pc' = [pc EXCEPT ![w] = to]
        BY <2>2 DEF P!Pcs, P!Goto
      <3> QED  BY <2>0, <2>2, <2>3, <3>1, GotoType DEF P!TypeOK
    <2> QED  BY <1>3, <2>1, <2>2 DEF P!Fetch, P!WritePolicy
  <1>5. ASSUME NEW w \in P!Installers, P!RunCommand(w)
        PROVE  P!TypeOK'
    <2>0. /\ pc[w] = "install" /\ UNCHANGED <<manager, errors>> /\ policy' \subseteq P!Installers
          /\ UNCHANGED <<installed, running, masked, ours>> /\ exposed' \in BOOLEAN
      BY <1>0, <1>5 DEF P!RunCommand, P!At, P!Fails, P!PolicyOf, P!machineVars, P!TypeOK
    <2>1. CASE lock = {} /\ lock' = {w} /\ P!Goto(w, "dpkg") /\ UNCHANGED at
      <3>1. \A v \in P!Installers : pc[v] # "dpkg"
        BY <2>1 DEF P!TypeOK
      <3>2. \A v \in P!Installers : lock' = {v} <=> pc'[v] = "dpkg"
        BY <1>0, <2>1, <3>1 DEF P!Goto
      <3>3. pc' \in [P!Installers -> P!Pcs]
        BY <1>0, <2>1 DEF P!Goto, P!Pcs
      <3> QED  BY <2>0, <2>1, <3>2, <3>3 DEF P!TypeOK
    <2>2. CASE P!Fails(w) /\ UNCHANGED lock
      <3>0. GoesOn(w)
        BY <2>2 DEF GoesOn
      <3>1. PICK to \in {"check", "done"} : pc' = [pc EXCEPT ![w] = to]
        BY <2>0, <3>0, GoesOnType
      <3>2. to \in P!Pcs \ {"dpkg"}
        BY DEF P!Pcs
      <3> QED  BY <2>0, <2>2, <3>0, <3>1, <3>2, GoesOnType, GotoType DEF P!TypeOK
    <2> QED  BY <1>5, <2>1, <2>2 DEF P!RunCommand
  <1>6. ASSUME NEW w \in P!Installers, P!CommandEnds(w)
        PROVE  P!TypeOK'
    <2>0. /\ pc[w] = "dpkg" /\ lock' = {} /\ UNCHANGED manager /\ policy' \subseteq P!Installers
          /\ exposed' \in BOOLEAN
      BY <1>0, <1>6 DEF P!CommandEnds, P!At, P!Error, P!Fails, P!PolicyOf, P!TypeOK
    <2>7. errors' \in 0..MaxErrors
      BY <1>6, ErrorsType DEF P!CommandEnds, P!Error
    <2>1. /\ installed' \subseteq P!Package /\ running' \subseteq installed'
          /\ masked' \subseteq P!Package /\ ours' \subseteq installed'
      BY <1>6, UnpackedType DEF P!CommandEnds
    <2>2. lock = {w}
      BY <2>0 DEF P!TypeOK
    <2>3. \A v \in P!Installers \ {w} : pc[v] # "dpkg"
      BY <2>2 DEF P!TypeOK
    <2>4. ASSUME NEW to \in P!Pcs \ {"dpkg"}, pc' = [pc EXCEPT ![w] = to]
          PROVE  /\ pc' \in [P!Installers -> P!Pcs]
                 /\ \A v \in P!Installers : lock' = {v} <=> pc'[v] = "dpkg"
      BY <1>0, <2>0, <2>3, <2>4
    <2>5. CASE P!Error(w)
      <3>0. GoesOn(w)
        BY <2>5 DEF P!Error, GoesOn
      <3>1. PICK to \in {"check", "done"} : pc' = [pc EXCEPT ![w] = to]
        BY <2>0, <3>0, GoesOnType
      <3>2. to \in P!Pcs \ {"dpkg"}
        BY DEF P!Pcs
      <3> QED  BY <2>0, <2>1, <2>4, <2>7, <3>0, <3>1, <3>2, GoesOnType DEF P!TypeOK
    <2>6. CASE P!Goto(w, IF w = Starter THEN "done" ELSE "mask") /\ UNCHANGED at
      <3> DEFINE to == IF w = Starter THEN "done" ELSE "mask"
      <3>0. to \in P!Pcs \ {"dpkg"}
        BY DEF P!Pcs
      <3>1. pc' = [pc EXCEPT ![w] = to]
        BY <2>6 DEF P!Goto
      <3> HIDE DEF to
      <3>2. /\ at' \in [P!Installers -> Nat]
            /\ \A v \in P!Installers : at'[v] \in DOMAIN Images[v]
        BY <1>0, <2>6
      <3>3. manager' \in P!Managers
        BY <2>0 DEF P!TypeOK
      <3>4. lock' = {}
        BY <2>0
      <3>5. \A v \in P!Installers : lock' = {v} <=> pc'[v] = "dpkg"
        BY <2>4, <3>0, <3>1
      <3>6. pc' \in [P!Installers -> P!Pcs]
        BY <2>4, <3>0, <3>1
      <3>7. policy' \subseteq P!Installers /\ exposed' \in BOOLEAN
        BY <2>0
      <3> QED  BY <2>1, <2>7, <3>2, <3>3, <3>4, <3>5, <3>6, <3>7 DEF P!TypeOK
    <2> QED  BY <1>6, <2>5, <2>6 DEF P!CommandEnds
  <1>7. ASSUME NEW w \in P!Installers, P!Mask(w)
        PROVE  P!TypeOK'
    <2>0. /\ pc[w] = "mask" /\ UNCHANGED <<manager, policy, lock, installed, running, ours, exposed>>
          /\ GoesOn(w)
      BY <1>0, <1>7 DEF P!Mask, P!At, GoesOn
    <2>4. errors' \in 0..MaxErrors
      BY <1>7, ErrorsType DEF P!Mask
    <2>5. exposed' \in BOOLEAN
      BY <1>0, <2>0
    <2>1. masked' \subseteq P!Package
      BY <1>0, <1>7, ImagesAreThere DEF P!Mask, P!ServiceOf, P!Clean, P!TheImage, P!TypeOK
    <2>2. PICK to \in {"check", "done"} : pc' = [pc EXCEPT ![w] = to]
      BY <2>0, <2>5, GoesOnType
    <2>3. to \in P!Pcs \ {"dpkg"}
      BY DEF P!Pcs
    <2> QED  BY <2>0, <2>1, <2>2, <2>3, <2>4, <2>5, GoesOnType, GotoType DEF P!TypeOK
  <1>8. CASE P!Restart
    <2>1. /\ installed' \subseteq P!Package /\ running' \subseteq installed'
          /\ masked' \subseteq P!Package /\ ours' \subseteq installed'
      <3>1. CASE UNCHANGED P!machineVars
        BY <3>1 DEF P!TypeOK, P!machineVars
      <3>2. CASE \E w \in lock : P!Unpacked(w)
        <4>1. PICK w \in lock : P!Unpacked(w)
          BY <3>2
        <4>2. w \in P!Installers
          BY DEF P!TypeOK
        <4> QED  BY <4>1, <4>2, UnpackedType
      <3> QED  BY <1>8, <3>1, <3>2 DEF P!Restart
    <2>2. /\ pc' \in [P!Installers -> P!Pcs] /\ at' \in [P!Installers -> Nat]
          /\ \A v \in P!Installers : lock' = {v} <=> pc'[v] = "dpkg"
      BY <1>8 DEF P!Restart, P!Pcs
    <2>3. \A v \in P!Installers : at'[v] \in DOMAIN Images[v]
      BY <1>8, ImagesAreThere DEF P!Restart
    <2>4. policy' \subseteq P!Installers /\ lock' = {}
      BY <1>8 DEF P!Restart
    <2>5. manager' \in P!Managers
      BY <1>8 DEF P!Restart, P!TypeOK
    <2>6. errors' \in 0..MaxErrors
      BY <1>8, ErrorsType DEF P!Restart
    <2>7. exposed' \in BOOLEAN
      <3>1. exposed \in BOOLEAN
        BY <1>0
      <3>2. exposed' = exposed
        BY <1>8 DEF P!Restart
      <3> QED  BY <3>1, <3>2
    <2> QED  BY <2>1, <2>2, <2>3, <2>4, <2>5, <2>6, <2>7 DEF P!TypeOK
  <1>9. CASE UNCHANGED installVars /\ manager' \in P!Managers
    BY <1>9 DEF P!TypeOK, installVars
  <1>10. CASE SetUp
    <2>1. manager' \in P!Managers
      BY <1>10 DEF SetUp, S!ChosenManager, P!Managers, P!TypeOK
    <2> QED  BY <1>9, <1>10, <2>1 DEF SetUp
  <1>11. ASSUME NEW w \in Workers \cup {Starter}, Install(w)
         PROVE  P!TypeOK'
    BY <1>11, <1>1, <1>2, <1>3, <1>5, <1>6, <1>7 DEF Install, P!InstallStep, P!Installers
  <1> QED
    BY <1>8, <1>9, <1>10, <1>11
    DEF Next, MainStep, ProviderIsNew, GoroutineStep, CacheSyncs, Signal, Handle, Follow,
        Client, Logged, Killed, Restart, packageVars, vars, P!TypeOK

-----------------------------------------------------------------------------
(* The package manager, and who calls it when.                             *)

\* Before New has chosen, the manager is that of the last life, on the same machine.
ManagerInv ==
    /\ manager \in {"noop", S!ChosenManager(machine)}
    /\ main \notin {"flags", "client"} => manager = S!ChosenManager(machine)

LEMMA ManagerStep == ManagerInv /\ [Next]_vars => ManagerInv'
  <1> SUFFICES ASSUME ManagerInv, [Next]_vars
               PROVE  ManagerInv'
    OBVIOUS
  <1> USE DEF ManagerInv
  <1>1. CASE S!MainStep /\ UNCHANGED manager
    <2>1. UNCHANGED machine /\ (main \in {"flags", "client"} <=> main' \in {"flags", "client"})
      BY <1>1 DEF S!MainStep, S!ReadFlags, S!ConfigureNode, S!WaitForCacheSync,
                  S!SetupKubeletServer, S!StartControllers, S!SetNodeReady, S!Return, S!Main, S!Ends
    <2> QED  BY <1>1, <2>1
  <1>2. CASE SetUp
    <2>1. UNCHANGED machine /\ main = "client" /\ (over' = "no" \/ UNCHANGED main)
      BY <1>2 DEF SetUp, Lives, S!SetUp, S!Main, S!Ends
    <2>2. manager' = IF over' = "no" THEN S!ChosenManager(machine) ELSE manager
      BY <1>2 DEF SetUp
    <2>3. S!ChosenManager(machine)' = S!ChosenManager(machine)
      BY <2>1
    <2> QED  BY <2>1, <2>2, <2>3
  <1>3. CASE UNCHANGED <<machine, manager>> /\ (UNCHANGED main \/ main = "policyrcd" \/ main' = "flags")
    BY <1>3
  <1>4. CASE GoroutineStep \/ CacheSyncs \/ Signal \/ Killed
    BY <1>3, <1>4 DEF GoroutineStep, CacheSyncs, Signal, Killed, packageVars,
       S!GoroutineStep, S!Cancel, S!RunPodController, S!RunNodeController, S!PodController,
       S!NodeController, S!CacheSyncs, S!Signal, S!Ends
  <1>5. ASSUME NEW w \in Workers \cup {Starter}, Install(w)
        PROVE  ManagerInv'
    <2>1. UNCHANGED manager
      BY <1>5 DEF Install, P!Begin, P!InstallStep, P!Check, P!Fetch, P!WritePolicy, P!RunCommand,
                  P!CommandEnds, P!Mask
    <2> QED  BY <1>3, <1>5, <2>1 DEF Install, startupVars
  <1>6. CASE ProviderIsNew
    BY <1>3, <1>6 DEF ProviderIsNew, S!ProviderIsNew, S!Main, packageVars
  <1>7. CASE Restart
    BY <1>3, <1>7 DEF Restart, S!Restart, S!Begins, P!Restart
  <1>8. CASE MainStep
    BY <1>1, <1>8 DEF MainStep, packageVars
  <1> QED
    BY <1>2, <1>3, <1>4, <1>5, <1>6, <1>7, <1>8
    DEF Next, Handle, Follow, Client, Logged, startupVars, packageVars, vars

-----------------------------------------------------------------------------
(* Who installs, and when.                                                 *)

Installs(w) == pc[w] \in {"fetch", "policy", "install", "dpkg"}

\* Workers begin when the caches and the server are there, New before; and only the
\* manager of a Debian gets to a command, its policy written.
CallersInv ==
    /\ \A w \in Workers :
          pc[w] # "waiting" => main \in {"nodectl", "ready", "wait"} /\ Complete
    /\ pc[Starter] # "waiting" =>
          main \notin {"flags", "client"} /\ manager = "debian" /\ pc[Starter] # "mask"
    /\ \A w \in P!Installers : Installs(w) => manager = "debian"
    /\ \A w \in P!Installers : pc[w] \in {"install", "dpkg"} => w \in policy

\* Once New is past the installation of Policyrcd it is there or known to be not.
PolicyInv ==
    /\ pc[Starter] = "done" => exposed \/ Policyrcd \in installed
    /\ main \notin {"flags", "client", "policyrcd"} /\ manager = "debian"
          => exposed \/ Policyrcd \in installed
    /\ exposed \/ running \subseteq Before

\* What a caller is about to mask, or installs although it was installed meanwhile, is
\* one of systemk's packages.
MaskInv ==
    /\ S!ChosenManager(machine) = "noop" \/ masked \subseteq ours
    /\ \A w \in P!Installers :
          pc[w] = "mask" => manager = "noop" \/ P!Clean(P!TheImage(w)) \in ours
    /\ \A w \in P!Installers :
          Installs(w) => P!Clean(P!TheImage(w)) \notin installed \ ours

\* While the process lives, the main goroutine only goes on, and what is complete
\* stays so.
GoesAhead ==
    /\ UNCHANGED <<machine, installVars>>
    /\ main \notin {"flags", "client"} => main' \notin {"flags", "client"} /\ UNCHANGED manager
    /\ main \in {"nodectl", "ready", "wait"} /\ Complete
          => main' \in {"nodectl", "ready", "wait"} /\ Complete'
    /\ \/ main \notin {"flags", "client", "policyrcd"}
       \/ main' \in {"flags", "client", "policyrcd"}
       \/ main = "policyrcd" /\ (manager = "debian" => pc[Starter] = "done")

LEMMA StartupGoesAhead ==
    ASSUME S!TypeOK,
           \/ MainStep \/ SetUp \/ ProviderIsNew \/ GoroutineStep \/ CacheSyncs \/ Signal \/ Killed
           \/ UNCHANGED <<startupVars, packageVars>>
    PROVE  GoesAhead
  <1> USE DEF GoesAhead, Complete, S!Main, S!Ends, packageVars, installVars,
              S!contextVars, S!configVars, S!goroutineVars
  <1>0. synced \subseteq S!Caches
    BY DEF S!TypeOK
  <1>1. CASE SetUp
    BY <1>1 DEF SetUp, Lives, S!SetUp
  <1>2. CASE ProviderIsNew
    BY <1>2 DEF ProviderIsNew, S!ProviderIsNew
  <1>3. CASE MainStep
    BY <1>3 DEF MainStep, S!MainStep, S!ReadFlags, S!ConfigureNode, S!WaitForCacheSync,
                S!SetupKubeletServer, S!StartControllers, S!SetNodeReady, S!Return
  <1>4. CASE GoroutineStep
    BY <1>4 DEF GoroutineStep, S!GoroutineStep, S!Cancel, S!RunPodController,
                S!RunNodeController, S!PodController, S!NodeController
  <1>5. CASE CacheSyncs
    BY <1>0, <1>5 DEF CacheSyncs, S!CacheSyncs
  <1>6. CASE Signal \/ Killed
    BY <1>6 DEF Signal, Killed, S!Signal
  <1>7. CASE UNCHANGED <<startupVars, packageVars>>
    BY <1>7 DEF startupVars
  <1> QED  BY <1>1, <1>2, <1>3, <1>4, <1>5, <1>6, <1>7

LEMMA AheadKeeps ==
    ASSUME CallersInv, PolicyInv, MaskInv, GoesAhead
    PROVE  CallersInv' /\ PolicyInv' /\ MaskInv'
  <1> USE DEF GoesAhead, installVars
  <1>1. \A w \in P!Installers : P!Clean(P!TheImage(w))' = P!Clean(P!TheImage(w))
    BY DEF P!Clean, P!TheImage
  <1>5. \A w \in P!Installers :
           pc[w] # "waiting" => main \notin {"flags", "client"} /\ UNCHANGED manager
    BY DEF CallersInv, P!Installers
  <1>2. CallersInv'
    <2>1. \A w \in Workers :
             pc[w] # "waiting" => main' \in {"nodectl", "ready", "wait"} /\ Complete'
      BY DEF CallersInv
    <2>2. pc[Starter] # "waiting" =>
             main' \notin {"flags", "client"} /\ manager' = "debian" /\ pc[Starter] # "mask"
      BY DEF CallersInv
    <2>3. \A w \in P!Installers : Installs(w) => manager' = "debian"
      BY <1>5 DEF CallersInv, Installs
    <2> QED  BY <2>1, <2>2, <2>3 DEF CallersInv, Installs
  <1>3. PolicyInv'
    BY DEF PolicyInv, CallersInv
  <1>4. MaskInv'
    BY <1>1, <1>5 DEF MaskInv, Installs
  <1> QED  BY <1>2, <1>3, <1>4

\* The step of a caller leaves the others where they are, and what it adds to the
\* installed packages are systemk's.
OwnStep(w) ==
    /\ UNCHANGED startupVars /\ UNCHANGED manager
    /\ \A v \in P!Installers \ {w} : pc'[v] = pc[v] /\ at'[v] = at[v] /\ (v \in policy' <=> v \in policy)
    /\ installed \subseteq installed' /\ ours \subseteq ours' /\ (exposed => exposed')
    /\ installed' \ installed \subseteq ours'

LEMMA InstallIsOwn ==
    ASSUME P!TypeOK, NEW w \in P!Installers, P!InstallStep(w) \/ P!Begin(w), UNCHANGED startupVars
    PROVE  OwnStep(w)
  <1>0. /\ pc \in [P!Installers -> P!Pcs] /\ at \in [P!Installers -> Nat]
    BY DEF P!TypeOK
  <1>1. /\ installed \subseteq installed' /\ ours \subseteq ours'
        /\ installed' \ installed \subseteq ours'
    BY DEF P!InstallStep, P!Begin, P!Check, P!Fetch, P!WritePolicy, P!RunCommand, P!CommandEnds,
           P!Mask, P!Unpacked, P!machineVars
  <1>2. exposed => exposed'
    BY DEF P!InstallStep, P!Begin, P!Check, P!Fetch, P!WritePolicy, P!RunCommand, P!CommandEnds,
           P!Mask, P!NoopInstall, P!ArchInstall, P!DebianInstall, P!Error, P!Fails
  <1>3. UNCHANGED manager /\ \A v \in P!Installers \ {w} : v \in policy' <=> v \in policy
    BY DEF P!InstallStep, P!Begin, P!Check, P!Fetch, P!WritePolicy, P!RunCommand, P!CommandEnds,
           P!Mask, P!PolicyOf
  <1>4. \A v \in P!Installers \ {w} : pc'[v] = pc[v]
    <2>1. ASSUME NEW to, P!Goto(w, to)
          PROVE  \A v \in P!Installers \ {w} : pc'[v] = pc[v]
      BY <1>0, <2>1 DEF P!Goto
    <2>2. CASE P!NextContainer(w) \/ P!Fails(w)
      BY <2>1, <2>2 DEF P!NextContainer, P!Fails
    <2> QED
      BY <2>1, <2>2 DEF P!InstallStep, P!Begin, P!Check, P!Fetch, P!WritePolicy, P!RunCommand,
         P!CommandEnds, P!Mask, P!NoopInstall, P!ArchInstall, P!DebianInstall, P!Error
  <1>5. \A v \in P!Installers \ {w} : at'[v] = at[v]
    <2>1. CASE P!NextContainer(w) \/ P!Fails(w)
      BY <1>0, <2>1 DEF P!NextContainer, P!Fails
    <2> QED
      BY <2>1 DEF P!InstallStep, P!Begin, P!Check, P!Fetch, P!WritePolicy, P!RunCommand,
         P!CommandEnds, P!Mask, P!NoopInstall, P!ArchInstall, P!DebianInstall, P!Error
  <1> QED  BY <1>1, <1>2, <1>3, <1>4, <1>5 DEF OwnStep

\* So only the caller itself, its pc and its policy, and the services are to look at.
LEMMA OwnStepKeeps ==
    ASSUME CallersInv, PolicyInv, MaskInv, NEW w \in P!Installers, OwnStep(w),
           pc'[w] # "waiting" /\ w # Starter =>
               main \in {"nodectl", "ready", "wait"} /\ Complete,
           w = Starter =>
               /\ main \notin {"flags", "client"} /\ manager = "debian" /\ pc'[w] # "mask"
               /\ pc'[w] = "done" => exposed' \/ Policyrcd \in installed',
           Installs(w)' => /\ manager = "debian"
                           /\ P!Clean(P!TheImage(w))' \notin installed' \ ours',
           pc'[w] \in {"install", "dpkg"} => w \in policy',
           exposed' \/ running' \subseteq Before,
           S!ChosenManager(machine) = "noop" \/ masked' \subseteq ours',
           pc'[w] = "mask" => manager = "noop" \/ P!Clean(P!TheImage(w))' \in ours'
    PROVE  CallersInv' /\ PolicyInv' /\ MaskInv'
  <1> USE DEF OwnStep, startupVars
  <1>1. CallersInv'
    <2>1. ASSUME NEW v \in Workers, pc'[v] # "waiting"
          PROVE  main \in {"nodectl", "ready", "wait"} /\ Complete
      BY <2>1, StarterAssumption DEF CallersInv, P!Installers
    <2>2. UNCHANGED main /\ (Complete <=> Complete')
      BY DEF Complete
    <2>3. pc'[Starter] # "waiting" =>
             main \notin {"flags", "client"} /\ manager = "debian" /\ pc'[Starter] # "mask"
      BY DEF CallersInv, P!Installers
    <2>4. \A v \in P!Installers :
             /\ Installs(v)' => manager = "debian"
             /\ pc'[v] \in {"install", "dpkg"} => v \in policy'
      BY DEF CallersInv, Installs
    <2> QED  BY <2>1, <2>2, <2>3, <2>4 DEF CallersInv, Installs
  <1>2. PolicyInv'
    BY DEF PolicyInv, P!Installers
  <1>3. \A v \in P!Installers \ {w} : P!Clean(P!TheImage(v))' = P!Clean(P!TheImage(v))
    BY DEF P!Clean, P!TheImage
  <1>4. MaskInv'
    BY <1>3 DEF MaskInv, Installs
  <1> QED  BY <1>1, <1>2, <1>4

\* New has one package to install.
LEMMA StarterImage ==
    ASSUME P!TypeOK
    PROVE  /\ Len(Images[Starter]) = 1 /\ at[Starter] = 1
           /\ P!TheImage(Starter) = [form |-> "name", package |-> Policyrcd]
  <1>1. Images[Starter] = <<[form |-> "name", package |-> Policyrcd]>>
    BY StarterAssumption
  <1>2. at[Starter] \in DOMAIN Images[Starter]
    BY DEF P!TypeOK, P!Installers
  <1>3. at[Starter] = 1
    BY <1>1, <1>2
  <1> QED  BY <1>1, <1>3 DEF P!TheImage

\* A command that comes to its end starts no service: a worker's because its policy
\* is written and Policyrcd there to ask it, New's because Policyrcd has none.
LEMMA CommandDeniesServices ==
    ASSUME P!TypeOK, CallersInv, PolicyInv, NEW w \in P!Installers, pc[w] = "dpkg",
           P!Unpacked(w) \/ UNCHANGED P!machineVars
    PROVE  exposed \/ running' \subseteq Before
  <1>1. CASE UNCHANGED P!machineVars
    BY <1>1 DEF PolicyInv, P!machineVars
  <1>2. CASE w = Starter /\ P!Unpacked(w)
    BY <1>2, StarterImage DEF P!Unpacked, P!Clean, PolicyInv
  <1>3. CASE w \in Workers /\ P!Unpacked(w)
    <2>1. w \in policy /\ (exposed \/ Policyrcd \in installed)
      BY <1>3 DEF CallersInv, PolicyInv, Installs
    <2> QED  BY <1>3, <2>1 DEF P!Unpacked, P!Denied, PolicyInv
  <1> QED  BY <1>1, <1>2, <1>3 DEF P!Installers

\* No step of a caller breaks the invariants, whatever the others are doing.
LEMMA InstallKeeps ==
    ASSUME P!TypeOK, CallersInv, PolicyInv, MaskInv, ManagerInv, UNCHANGED startupVars,
           NEW w \in P!Installers, P!InstallStep(w)
    PROVE  CallersInv' /\ PolicyInv' /\ MaskInv'
  <1> USE DEF P!At, P!Goto, Installs
  <1>0. /\ OwnStep(w) /\ pc \in [P!Installers -> P!Pcs] /\ at \in [P!Installers -> Nat]
    BY InstallIsOwn DEF P!TypeOK
  <1>1. pc[w] # "waiting"
    BY DEF P!InstallStep, P!Check, P!Fetch, P!WritePolicy, P!RunCommand, P!CommandEnds, P!Mask
  <1>2. w # Starter => main \in {"nodectl", "ready", "wait"} /\ Complete
    BY <1>1 DEF CallersInv, P!Installers
  <1>3. w = Starter => main \notin {"flags", "client"} /\ manager = "debian" /\ pc[w] # "mask"
    BY <1>1 DEF CallersInv
  <1>4. ASSUME GoesOn(w), UNCHANGED P!machineVars,
               w = Starter /\ ~exposed' => Policyrcd \in installed
        PROVE  CallersInv' /\ PolicyInv' /\ MaskInv'
    <2>1. pc'[w] \in {"check", "done"}
      BY <1>0, <1>4 DEF GoesOn, P!NextContainer, P!Fails
    <2>2. exposed' \/ running' \subseteq Before
      BY <1>0, <1>4 DEF PolicyInv, P!machineVars, OwnStep
    <2>3. S!ChosenManager(machine) = "noop" \/ masked' \subseteq ours'
      BY <1>4 DEF MaskInv, P!machineVars
    <2>4. w = Starter => exposed' \/ Policyrcd \in installed'
      BY <1>4 DEF P!machineVars
    <2> QED  BY <1>0, <1>2, <1>3, <2>1, <2>2, <2>3, <2>4, OwnStepKeeps
  <1>5. ASSUME UNCHANGED P!machineVars, UNCHANGED at, pc'[w] \notin {"mask", "done"},
               Installs(w)' => manager = "debian" /\ P!Clean(P!TheImage(w)) \notin installed \ ours,
               pc'[w] \in {"install", "dpkg"} => w \in policy'
        PROVE  CallersInv' /\ PolicyInv' /\ MaskInv'
    <2>1. P!Clean(P!TheImage(w))' = P!Clean(P!TheImage(w))
      BY <1>5 DEF P!Clean, P!TheImage
    <2>2. exposed' \/ running' \subseteq Before
      BY <1>0, <1>5 DEF PolicyInv, P!machineVars, OwnStep
    <2>3. S!ChosenManager(machine) = "noop" \/ masked' \subseteq ours'
      BY <1>5 DEF MaskInv, P!machineVars
    <2>4. installed' = installed /\ ours' = ours
      BY <1>5 DEF P!machineVars
    <2> QED  BY <1>0, <1>2, <1>3, <1>5, <2>1, <2>2, <2>3, <2>4, OwnStepKeeps
  <1>6. CASE P!Check(w)
    <2>1. pc[w] = "check" /\ UNCHANGED P!machineVars /\ UNCHANGED policy
      BY <1>6 DEF P!Check
    <2>2. CASE P!NoopInstall(w)
      <3>1. manager = "noop" /\ pc'[w] = "mask" /\ UNCHANGED exposed
        BY <1>0, <2>2 DEF P!NoopInstall
      <3>2. w # Starter
        BY <1>3, <3>1
      <3>3. exposed' \/ running' \subseteq Before
        BY <2>1, <3>1 DEF PolicyInv, P!machineVars
      <3>4. S!ChosenManager(machine) = "noop" \/ masked' \subseteq ours'
        BY <2>1 DEF MaskInv, P!machineVars
      <3> QED  BY <1>0, <1>2, <3>1, <3>2, <3>3, <3>4, OwnStepKeeps
    <2>3. CASE P!ArchInstall(w)
      <3>1. w # Starter
        BY <1>3, <2>3 DEF P!ArchInstall
      <3> QED  BY <1>4, <2>1, <2>3, <3>1 DEF P!ArchInstall, GoesOn
    <2>4. CASE manager = "debian" /\ P!NothingToInstall(w) /\ P!NextContainer(w)
      <3>1. w = Starter => Policyrcd \in installed
        BY <2>4, StarterImage DEF P!NothingToInstall, P!Known, P!Clean
      <3> QED  BY <1>4, <2>1, <2>4, <3>1 DEF GoesOn
    <2>5. ASSUME manager = "debian", ~P!NothingToInstall(w), UNCHANGED at,
                 NEW to \in {"fetch", "policy"}, P!Goto(w, to)
          PROVE  CallersInv' /\ PolicyInv' /\ MaskInv'
      <3>1. pc'[w] = to
        BY <1>0, <2>5
      <3>2. P!Clean(P!TheImage(w)) \notin installed \ ours
        BY <2>5 DEF P!NothingToInstall, P!Known
      <3> QED  BY <1>5, <2>1, <2>5, <3>1, <3>2
    <2> QED  BY <1>6, <2>2, <2>3, <2>4, <2>5 DEF P!Check, P!DebianInstall
  <1>7. CASE P!Fetch(w)
    <2>1. pc[w] = "fetch" /\ UNCHANGED P!machineVars
      BY <1>7 DEF P!Fetch
    <2>2. CASE P!Goto(w, "policy") /\ UNCHANGED at
      <3>1. pc'[w] = "policy"
        BY <1>0, <2>2
      <3> QED  BY <1>5, <2>1, <2>2, <3>1 DEF CallersInv, MaskInv
    <2>3. CASE P!Error(w)
      BY <1>4, <2>1, <2>3 DEF P!Error, P!Fails, GoesOn
    <2> QED  BY <1>7, <2>2, <2>3 DEF P!Fetch
  <1>8. CASE P!WritePolicy(w)
    <2>1. pc[w] = "policy" /\ UNCHANGED P!machineVars
      BY <1>8 DEF P!WritePolicy
    <2>2. CASE P!Goto(w, "install") /\ UNCHANGED at /\ policy' = policy \cup P!PolicyOf(w)
      <3>1. pc'[w] = "install" /\ w \in policy'
        BY <1>0, <2>2 DEF P!PolicyOf
      <3> QED  BY <1>5, <2>1, <2>2, <3>1 DEF CallersInv, MaskInv
    <2>3. CASE P!Error(w)
      BY <1>4, <2>1, <2>3 DEF P!Error, P!Fails, GoesOn
    <2> QED  BY <1>8, <2>2, <2>3 DEF P!WritePolicy
  <1>9. CASE P!RunCommand(w)
    <2>1. pc[w] = "install" /\ UNCHANGED P!machineVars
      BY <1>9 DEF P!RunCommand
    <2>2. CASE P!Goto(w, "dpkg") /\ UNCHANGED <<at, policy>>
      <3>1. pc'[w] = "dpkg" /\ w \in policy'
        BY <1>0, <2>1, <2>2 DEF CallersInv
      <3> QED  BY <1>5, <2>1, <2>2, <3>1 DEF CallersInv, MaskInv
    <2>3. CASE P!Fails(w)
      BY <1>4, <2>1, <2>3 DEF P!Fails, GoesOn
    <2> QED  BY <1>9, <2>2, <2>3 DEF P!RunCommand
  <1>10. CASE P!CommandEnds(w)
    <2>1. /\ pc[w] = "dpkg" /\ manager = "debian" /\ P!Clean(P!TheImage(w)) \notin installed \ ours
          /\ P!Unpacked(w) \/ UNCHANGED P!machineVars
      BY <1>10 DEF P!CommandEnds, CallersInv, MaskInv
    <2>2. exposed' \/ running' \subseteq Before
      BY <1>0, <2>1, CommandDeniesServices DEF OwnStep
    <2>3. S!ChosenManager(machine) = "noop" \/ masked' \subseteq ours'
      BY <2>1 DEF MaskInv, P!machineVars, P!Unpacked
    <2>4. CASE P!Unpacked(w) /\ P!Goto(w, IF w = Starter THEN "done" ELSE "mask") /\ UNCHANGED at
      <3>1. pc'[w] = IF w = Starter THEN "done" ELSE "mask"
        BY <1>0, <2>4
      <3>2. P!Clean(P!TheImage(w))' = P!Clean(P!TheImage(w))
        BY <2>4 DEF P!Clean, P!TheImage
      <3>3. P!Clean(P!TheImage(w)) \in installed' /\ P!Clean(P!TheImage(w)) \in ours'
        BY <2>1, <2>4 DEF P!Unpacked
      <3>4. w = Starter => Policyrcd \in installed'
        BY <3>3, StarterImage DEF P!Clean
      <3> QED  BY <1>0, <1>2, <1>3, <2>2, <2>3, <3>1, <3>2, <3>3, <3>4, OwnStepKeeps
    <2>5. CASE P!Error(w)
      <3>1. pc'[w] \in {"check", "done"}
        BY <1>0, <2>5 DEF P!Error, P!Fails
      <3>2. w = Starter => exposed'
        BY <2>5 DEF P!Error, P!Fails
      <3> QED  BY <1>0, <1>2, <1>3, <2>2, <2>3, <3>1, <3>2, OwnStepKeeps
    <2> QED  BY <1>10, <2>4, <2>5 DEF P!CommandEnds
  <1>11. CASE P!Mask(w)
    <2>1. pc[w] = "mask" /\ GoesOn(w) /\ w # Starter
      BY <1>3, <1>11 DEF P!Mask, GoesOn
    <2>2. pc'[w] \in {"check", "done"}
      BY <1>0, <1>11 DEF P!Mask, P!NextContainer
    <2>3. exposed' \/ running' \subseteq Before
      BY <1>11 DEF P!Mask, PolicyInv
    <2>4. manager = S!ChosenManager(machine)
      BY <1>2, <2>1 DEF ManagerInv
    <2>5. S!ChosenManager(machine) = "noop" \/ masked' \subseteq ours'
      BY <1>11, <2>1, <2>4 DEF P!Mask, P!ServiceOf, MaskInv
    <2> QED  BY <1>0, <1>2, <2>1, <2>2, <2>3, <2>5, OwnStepKeeps
  <1> QED  BY <1>6, <1>7, <1>8, <1>9, <1>10, <1>11 DEF P!InstallStep

-----------------------------------------------------------------------------
(* Options and addresses.                                                  *)

\* They are functions of the machine, one up to ConfigureNode and one from there on.
ConfigInv ==
    /\ main \in {"client", "policyrcd", "node"} => opts = S!Options(machine)
    /\ main \notin {"flags", "client", "policyrcd", "node"} =>
          /\ opts = S!AfterAddresses(machine, S!Options(machine))
          /\ addresses = S!NodeAddresses(machine, S!Options(machine))

LEMMA ConfigStep == ConfigInv /\ [Next]_vars => ConfigInv'
  <1> SUFFICES ASSUME ConfigInv, [Next]_vars
               PROVE  ConfigInv'
    OBVIOUS
  <1> USE DEF ConfigInv, S!Main, S!Ends, S!configVars
  <1>1. CASE S!ReadFlags \/ S!SetUp \/ S!ProviderIsNew
    BY <1>1 DEF S!ReadFlags, S!SetUp, S!ProviderIsNew
  <1>2. CASE S!ConfigureNode
    BY <1>2 DEF S!ConfigureNode
  <1>3. CASE S!WaitForCacheSync \/ S!SetupKubeletServer \/ S!StartControllers
    BY <1>3 DEF S!WaitForCacheSync, S!SetupKubeletServer, S!StartControllers
  <1>4. CASE S!SetNodeReady \/ S!Return
    BY <1>4 DEF S!SetNodeReady, S!Return
  <1>5. CASE UNCHANGED <<machine, main, opts, addresses>>
    BY <1>5
  <1>6. CASE GoroutineStep \/ CacheSyncs \/ Signal \/ Killed
    BY <1>5, <1>6 DEF GoroutineStep, CacheSyncs, Signal, Killed, S!GoroutineStep, S!Cancel,
       S!RunPodController, S!RunNodeController, S!PodController, S!NodeController, S!CacheSyncs,
       S!Signal
  <1>7. CASE Restart
    BY <1>7 DEF Restart, S!Restart, S!Begins
  <1>8. CASE MainStep
    BY <1>8, <1>1, <1>2, <1>3, <1>4 DEF MainStep, S!MainStep
  <1> QED
    BY <1>1, <1>5, <1>6, <1>7, <1>8
    DEF Next, SetUp, ProviderIsNew, Install, Handle, Follow, Client, Logged, startupVars, vars

\* What Options makes of a flag that addresses have nothing to do with.
LEMMA OptionsByName ==
    ASSUME NEW m
    PROVE  LET o == S!Options(m)  g == m.given  e == m.env
           IN  /\ o["nodename"] = IF "nodename" \in DOMAIN g THEN g["nodename"]
                                  ELSE IF "HOSTNAME" \in DOMAIN e THEN e["HOSTNAME"] ELSE "host"
               /\ o["addr"] = IF "addr" \in DOMAIN g THEN g["addr"] ELSE ":10250"
               /\ o["kubeconfig"] =
                      IF "kubeconfig" \in DOMAIN g THEN g["kubeconfig"]
                      ELSE IF "KUBECONFIG" \in DOMAIN e /\ e["KUBECONFIG"] # "" THEN e["KUBECONFIG"]
                      ELSE "~/.kube/config"
               /\ o["internal-ip"] = IF "internal-ip" \in DOMAIN g THEN g["internal-ip"] ELSE "0.0.0.0"
               /\ o["internal-iface"] = IF "internal-iface" \in DOMAIN g THEN g["internal-iface"] ELSE ""
  BY AddressAssumption DEF S!Options, S!Parse, S!SetDefaultOpts, S!InstallFlags, S!Option

LEMMA AddressesLeave ==
    ASSUME NEW m
    PROVE  LET o == S!Options(m)  after == S!AfterAddresses(m, o)
           IN  /\ \A k \in {"nodename", "addr", "kubeconfig"} : after[k] = o[k]
               /\ after["internal-ip"] =
                      S!Keeps(o["internal-iface"], o["internal-ip"], S!InternalIPs(m))
  <1>1. S!Options(m) = [k \in S!Option |-> S!Options(m)[k]]
    BY DEF S!Options, S!Parse
  <1> QED  BY <1>1 DEF S!AfterAddresses, S!Option

LEMMA OptionsFollow == ConfigInv => OptionsAsGiven
  <1> SUFFICES ASSUME ConfigInv, main # "flags"
               PROVE  S!OptionsAsGiven
    BY DEF OptionsAsGiven, S!OptionsAsGiven
  <1>1. \A k \in {"nodename", "addr", "kubeconfig"} : opts[k] = S!Options(machine)[k]
    BY AddressesLeave DEF ConfigInv
  <1> DEFINE o == S!Options(machine)  g == machine.given  e == machine.env
  <1>2. /\ o["nodename"] = IF "nodename" \in DOMAIN g THEN g["nodename"]
                           ELSE IF "HOSTNAME" \in DOMAIN e THEN e["HOSTNAME"] ELSE "host"
        /\ o["addr"] = IF "addr" \in DOMAIN g THEN g["addr"] ELSE ":10250"
        /\ o["kubeconfig"] =
               IF "kubeconfig" \in DOMAIN g THEN g["kubeconfig"]
               ELSE IF "KUBECONFIG" \in DOMAIN e /\ e["KUBECONFIG"] # "" THEN e["KUBECONFIG"]
               ELSE "~/.kube/config"
    BY OptionsByName
  <1> HIDE DEF o
  <1>3. opts["nodename"] = o["nodename"] /\ opts["addr"] = o["addr"] /\ opts["kubeconfig"] = o["kubeconfig"]
    BY <1>1 DEF o
  <1> QED  BY <1>2, <1>3 DEF S!OptionsAsGiven

LEMMA InternalFollows == ConfigInv => InternalAsDocumented
  <1> SUFFICES ASSUME ConfigInv, main \notin {"flags", "client", "policyrcd", "node"}
               PROVE  S!InternalAsDocumented
    BY DEF InternalAsDocumented, S!InternalAsDocumented
  <1> DEFINE o == S!Options(machine)
             private == S!InternalIPs(machine)
  <1>1. /\ addresses.internal = S!Advertised(machine, o["internal-iface"], o["internal-ip"], private)
        /\ opts["internal-ip"] = S!Keeps(o["internal-iface"], o["internal-ip"], private)
    BY AddressesLeave DEF ConfigInv, S!NodeAddresses
  <1>2. /\ o["internal-ip"] = IF "internal-ip" \in DOMAIN machine.given
                              THEN machine.given["internal-ip"] ELSE "0.0.0.0"
        /\ o["internal-iface"] = IF "internal-iface" \in DOMAIN machine.given
                                 THEN machine.given["internal-iface"] ELSE ""
    BY OptionsByName
  <1> HIDE DEF o, private
  <1> QED  BY <1>1, <1>2
     DEF S!InternalAsDocumented, S!Advertised, S!IPFromInterface, S!Keeps, S!FirstOf, private

-----------------------------------------------------------------------------
(* Requests for logs.                                                      *)

\* Handler and follower of a request begin together; while the client is there, the
\* handler ends only after the follower has left its error, which it is the only
\* one to take.
LogsInv ==
    \A r \in Requests :
        /\ client[r] = "away" => handler[r] = "none" /\ follower[r] = "none" /\ r \notin errChan
        /\ client[r] # "gone" => r \notin until
        /\ client[r] = "there" /\ follower[r] \in {"read", "write", "wait"}
              => handler[r] = "select"
        /\ r \in errChan => follower[r] = "over"

LEMMA LogsType == L!TypeOK /\ LogsInv /\ [Next]_vars => L!TypeOK'
  <1> SUFFICES ASSUME L!TypeOK, LogsInv, [Next]_vars
               PROVE  L!TypeOK'
    OBVIOUS
  <1> USE DEF L!Set
  <1>1. ASSUME L!Logged
        PROVE  L!TypeOK'
    BY <1>1, BoundAssumption DEF L!TypeOK, L!Logged, L!requestVars
  <1>2. ASSUME NEW r \in Requests, L!RequestRefused(r)
        PROVE  L!TypeOK'
    BY <1>2 DEF LogsInv, L!TypeOK, L!RequestRefused, L!HandlerPcs
  <1>3. ASSUME NEW r \in Requests, NEW follow \in BOOLEAN, L!Opened(r, follow)
        PROVE  L!TypeOK'
    BY <1>3, BoundAssumption DEF LogsInv, L!TypeOK, L!Opened, L!HandlerPcs, L!FollowerPcs
  <1>4. ASSUME NEW r \in Requests, L!ClientLeaves(r)
        PROVE  L!TypeOK'
    BY <1>4 DEF L!TypeOK, L!ClientLeaves
  <1>5. ASSUME NEW r \in Requests, L!Copy(r)
        PROVE  L!TypeOK'
    BY <1>5, BoundAssumption DEF L!TypeOK, L!Copy, L!HandlerPcs
  <1>6. ASSUME NEW r \in Requests, L!TakesError(r) \/ L!SeesClientGo(r)
        PROVE  L!TypeOK'
    BY <1>6 DEF L!TypeOK, L!TakesError, L!SeesClientGo, L!HandlerPcs
  <1>7. ASSUME NEW r \in Requests, L!Close(r)
        PROVE  L!TypeOK'
    BY <1>7 DEF L!TypeOK, L!Close, L!HandlerPcs
  <1>8. ASSUME NEW r \in Requests, L!FollowRead(r)
        PROVE  L!TypeOK'
    BY <1>8, BoundAssumption DEF L!TypeOK, L!FollowRead, L!FollowTo, L!FollowerPcs
  <1>9. ASSUME NEW r \in Requests, L!FollowWrite(r) \/ L!FollowWait(r) \/ L!FollowSend(r)
        PROVE  L!TypeOK'
    BY <1>9 DEF L!TypeOK, L!FollowWrite, L!FollowWait, L!FollowSend, L!FollowTo, L!FollowerPcs
  <1>10. CASE L!Restart
    BY <1>10, BoundAssumption DEF L!TypeOK, L!Restart, L!HandlerPcs, L!FollowerPcs
  <1>11. CASE UNCHANGED logVars
    BY <1>11 DEF L!TypeOK, logVars
  <1>12. ASSUME NEW r \in Requests, Handle(r) \/ Follow(r) \/ Client(r)
         PROVE  L!TypeOK'
    BY <1>12, <1>2, <1>3, <1>4, <1>5, <1>6, <1>7, <1>8, <1>9
    DEF Handle, Follow, Client, L!HandlerStep, L!FollowerStep, L!Request
  <1> QED
    BY <1>1, <1>10, <1>11, <1>12
    DEF Next, MainStep, SetUp, ProviderIsNew, GoroutineStep, CacheSyncs, Install, Signal,
        Logged, Killed, Restart, vars

LEMMA LogsStep == L!TypeOK /\ LogsInv /\ [Next]_vars => LogsInv'
  <1> SUFFICES ASSUME L!TypeOK, LogsInv, [Next]_vars
               PROVE  LogsInv'
    OBVIOUS
  <1> USE DEF L!Set
  <1>1. ASSUME L!Logged
        PROVE  LogsInv'
    BY <1>1 DEF LogsInv, L!TypeOK, L!Logged, L!requestVars
  <1>2. ASSUME NEW r \in Requests, L!RequestRefused(r)
        PROVE  LogsInv'
    BY <1>2 DEF LogsInv, L!TypeOK, L!RequestRefused
  <1>3. ASSUME NEW r \in Requests, NEW follow \in BOOLEAN, L!Opened(r, follow)
        PROVE  LogsInv'
    BY <1>3 DEF LogsInv, L!TypeOK, L!Opened
  <1>4. ASSUME NEW r \in Requests, L!ClientLeaves(r)
        PROVE  LogsInv'
    BY <1>4 DEF LogsInv, L!TypeOK, L!ClientLeaves
  <1>5. ASSUME NEW r \in Requests, L!Copy(r)
        PROVE  LogsInv'
    BY <1>5 DEF LogsInv, L!TypeOK, L!Copy
  <1>6. ASSUME NEW r \in Requests, L!TakesError(r) \/ L!SeesClientGo(r)
        PROVE  LogsInv'
    BY <1>6 DEF LogsInv, L!TypeOK, L!TakesError, L!SeesClientGo
  <1>7. ASSUME NEW r \in Requests, L!Close(r)
        PROVE  LogsInv'
    BY <1>7 DEF LogsInv, L!TypeOK, L!Close
  <1>8. ASSUME NEW r \in Requests, L!FollowRead(r)
        PROVE  LogsInv'
    BY <1>8 DEF LogsInv, L!TypeOK, L!FollowRead, L!FollowTo
  <1>9. ASSUME NEW r \in Requests, L!FollowWrite(r) \/ L!FollowWait(r) \/ L!FollowSend(r)
        PROVE  LogsInv'
    BY <1>9 DEF LogsInv, L!TypeOK, L!FollowWrite, L!FollowWait, L!FollowSend, L!FollowTo
  <1>10. CASE L!Restart
    BY <1>10 DEF LogsInv, L!TypeOK, L!Restart
  <1>11. CASE UNCHANGED logVars
    BY <1>11 DEF LogsInv, L!TypeOK, logVars
  <1>12. ASSUME NEW r \in Requests, Handle(r) \/ Follow(r) \/ Client(r)
         PROVE  LogsInv'
    BY <1>12, <1>2, <1>3, <1>4, <1>5, <1>6, <1>7, <1>8, <1>9
    DEF Handle, Follow, Client, L!HandlerStep, L!FollowerStep, L!Request
  <1> QED
    BY <1>1, <1>10, <1>11, <1>12
    DEF Next, MainStep, SetUp, ProviderIsNew, GoroutineStep, CacheSyncs, Install, Signal,
        Logged, Killed, Restart, vars

-----------------------------------------------------------------------------
(* All of it together.                                                     *)

LEMMA InstallsKeeps ==
    ASSUME S!TypeOK, SyncInv, P!TypeOK, ManagerInv, CallersInv, PolicyInv, MaskInv,
           NEW w \in Workers \cup {Starter}, Install(w)
    PROVE  CallersInv' /\ PolicyInv' /\ MaskInv'
  <1>0. w \in P!Installers /\ UNCHANGED startupVars
    BY DEF Install, P!Installers
  <1>1. CASE P!InstallStep(w)
    BY <1>0, <1>1, InstallKeeps
  <1>2. ASSUME P!Begin(w), \/ w = Starter /\ main = "policyrcd"
                           \/ w # Starter /\ podCtl = "running"
        PROVE  CallersInv' /\ PolicyInv' /\ MaskInv'
    <2>1. OwnStep(w) /\ pc \in [P!Installers -> P!Pcs]
      BY <1>0, <1>2, InstallIsOwn DEF P!TypeOK
    <2>2. pc'[w] = "check" /\ UNCHANGED P!machineVars /\ UNCHANGED exposed
      BY <1>0, <1>2, <2>1 DEF P!Begin, P!Goto
    <2>3. w = Starter => manager = "debian" /\ main \notin {"flags", "client"}
      BY <1>2 DEF P!Begin
    <2>4. w # Starter => main \in {"nodectl", "ready", "wait"} /\ Complete
      BY <1>2 DEF SyncInv
    <2>5. exposed' \/ running' \subseteq Before
      BY <2>2 DEF PolicyInv, P!machineVars
    <2>6. S!ChosenManager(machine) = "noop" \/ masked' \subseteq ours'
      BY <2>2 DEF MaskInv, P!machineVars
    <2> QED  BY <1>0, <2>1, <2>2, <2>3, <2>4, <2>5, <2>6, OwnStepKeeps DEF Installs
  <1> QED  BY <1>1, <1>2 DEF Install

\* A command that outlives systemk keeps to the policy it was run with.
LEMMA RestartKeeps ==
    ASSUME P!TypeOK, CallersInv, PolicyInv, MaskInv, Restart
    PROVE  CallersInv' /\ PolicyInv' /\ MaskInv'
  <1>1. /\ UNCHANGED <<machine, manager, exposed>> /\ main' = "flags"
        /\ \A w \in P!Installers : pc'[w] = "waiting"
    BY DEF Restart, S!Restart, S!Begins, P!Restart
  <1>2. UNCHANGED P!machineVars \/ \E w \in lock : P!Unpacked(w)
    BY DEF Restart, P!Restart
  <1>3. exposed' \/ running' \subseteq Before
    <2>1. CASE UNCHANGED P!machineVars
      BY <1>1, <2>1 DEF PolicyInv, P!machineVars
    <2>2. CASE \E w \in lock : P!Unpacked(w)
      <3>1. PICK w \in lock : P!Unpacked(w)
        BY <2>2
      <3>2. w \in P!Installers /\ lock = {w}
        BY <3>1 DEF P!TypeOK
      <3>3. w \in P!Installers /\ pc[w] = "dpkg"
        BY <3>2 DEF P!TypeOK
      <3> QED  BY <1>1, <3>1, <3>3, CommandDeniesServices
    <2> QED  BY <1>2, <2>1, <2>2
  <1>4. masked' = masked /\ ours \subseteq ours'
    BY <1>2 DEF P!Unpacked, P!machineVars
  <1>5. CallersInv'
    BY <1>1 DEF CallersInv, Installs, P!Installers
  <1>6. PolicyInv'
    BY <1>1, <1>3 DEF PolicyInv, P!Installers
  <1>7. MaskInv'
    BY <1>1, <1>4 DEF MaskInv, Installs
  <1> QED  BY <1>5, <1>6, <1>7

\* The inductive invariant.
IInv ==
    /\ S!TypeOK /\ P!TypeOK /\ L!TypeOK /\ lives \in 1..MaxLives
    /\ SyncInv /\ ConfigInv
    /\ ManagerInv /\ CallersInv /\ PolicyInv /\ MaskInv
    /\ LogsInv

LEMMA Inits == Init => IInv
  <1> SUFFICES ASSUME Init
               PROVE  IInv
    OBVIOUS
  <1> USE DEF Init
  <1>1. S!TypeOK /\ SyncInv /\ ConfigInv
    BY DEF S!Init, S!Begins, S!TypeOK, S!MainPcs, S!InstallFlags, S!Caches, SyncInv, Complete,
           ConfigInv
  <1>2. P!TypeOK
    <2> USE DEF P!Init
    <2>1. /\ manager \in P!Managers /\ pc \in [P!Installers -> P!Pcs] /\ at \in [P!Installers -> Nat]
          /\ policy \subseteq P!Installers /\ lock = {}
          /\ \A w \in P!Installers : pc[w] = "waiting"
      BY DEF P!Managers, P!Pcs
    <2>2. \A w \in P!Installers : at[w] \in DOMAIN Images[w]
      BY ImagesAreThere
    <2>3. /\ installed \subseteq P!Package /\ running \subseteq installed
          /\ masked \subseteq P!Package /\ ours \subseteq installed
      BY DEF P!Package
    <2>4. exposed \in BOOLEAN
      OBVIOUS
    <2>5. errors \in 0..MaxErrors
      BY BoundAssumption
    <2> QED  BY <2>1, <2>2, <2>3, <2>4, <2>5 DEF P!TypeOK
  <1>3. L!TypeOK /\ LogsInv
    BY BoundAssumption DEF L!Init, L!TypeOK, L!HandlerPcs, L!FollowerPcs, LogsInv
  <1>4. ManagerInv /\ CallersInv /\ PolicyInv /\ MaskInv
    BY DEF S!Init, S!Begins, P!Init, P!Installers, ManagerInv, CallersInv, PolicyInv, MaskInv, Installs
  <1>5. lives \in 1..MaxLives
    BY BoundAssumption
  <1> QED  BY <1>1, <1>2, <1>3, <1>4, <1>5 DEF IInv

LEMMA Steps == IInv /\ [Next]_vars => IInv'
  <1> SUFFICES ASSUME IInv, [Next]_vars
               PROVE  IInv'
    OBVIOUS
  <1>1. S!TypeOK' /\ SyncInv' /\ ConfigInv'
    BY StartupType, SyncStep, ConfigStep DEF IInv
  <1>2. P!TypeOK' /\ ManagerInv'
    BY PackagesType, ManagerStep DEF IInv
  <1>3. L!TypeOK' /\ LogsInv'
    BY LogsType, LogsStep DEF IInv
  <1>4. lives' \in 1..MaxLives
    <2>1. UNCHANGED lives \/ (lives < MaxLives /\ lives' = lives + 1)
      BY DEF Next, MainStep, SetUp, ProviderIsNew, GoroutineStep, CacheSyncs, Install, Handle,
             Follow, Client, Signal, Logged, Killed, Restart, vars
    <2> QED  BY <2>1, BoundAssumption DEF IInv
  <1>5. CallersInv' /\ PolicyInv' /\ MaskInv'
    <2>1. ASSUME NEW w \in Workers \cup {Starter}, Install(w)
          PROVE  CallersInv' /\ PolicyInv' /\ MaskInv'
      BY <2>1, InstallsKeeps DEF IInv
    <2>2. CASE Restart
      BY <2>2, RestartKeeps DEF IInv
    <2>3. CASE \/ MainStep \/ SetUp \/ ProviderIsNew \/ GoroutineStep \/ CacheSyncs \/ Signal
               \/ Killed \/ UNCHANGED <<startupVars, packageVars>>
      BY <2>3, StartupGoesAhead, AheadKeeps DEF IInv
    <2> QED  BY <2>1, <2>2, <2>3 DEF Next, Handle, Follow, Client, Logged, vars
  <1> QED  BY <1>1, <1>2, <1>3, <1>4, <1>5 DEF IInv

LEMMA Invariant == Spec => []IInv
  BY Inits, Steps, PTL DEF Spec

-----------------------------------------------------------------------------
(* Theorems.                                                               *)

\* The variables of start-up, packages and logs have their types, through any
\* number of lives of the process.
THEOREM TypeIsOK == Spec => []TypeOK
  <1>1. IInv => TypeOK
    BY DEF IInv, TypeOK
  <1> QED  BY <1>1, Invariant, PTL

\* No pod is created, no package installed for one and no node called ready before
\* both caches are filled and the server is up, be it that main has run on because
\* the context is done (start.go, controllers.go): any machine, any workers.
THEOREM NothingStartsBeforeSync == Spec => []NothingBeforeSync
  <1>1. IInv => NothingBeforeSync
    BY DEF IInv, SyncInv, Complete, CallersInv, NothingBeforeSync, S!NothingBeforeSync
  <1> QED  BY <1>1, Invariant, PTL

\* The installation of a package starts no service, however many workers install
\* at a time, with whatever failures, crashes and restarts in between, unless New
\* has gone on without Policyrcd (debian.go).
THEOREM ServicesStayDown == Spec => []OfficialServicesStayDown
  <1>1. IInv => OfficialServicesStayDown
    BY DEF IInv, PolicyInv, OfficialServicesStayDown, P!OfficialServicesStayDown
  <1> QED  BY <1>1, Invariant, PTL

\* CreatePod masks the services of the packages that systemk has installed, and of
\* no package that was there before, although it looks for the package long before
\* it masks (pod.go, ospkg).
THEOREM OnlyOursAreMasked == Spec => []MasksOnlyOurs
  <1>1. IInv => MasksOnlyOurs
    BY DEF IInv, ManagerInv, MaskInv, MasksOnlyOurs, P!MasksOnlyOurs
  <1> QED  BY <1>1, Invariant, PTL

\* Command line before environment before default, for every machine (opts.go).
THEOREM OptionsAreAsGiven == Spec => []OptionsAsGiven
  BY Invariant, OptionsFollow, PTL DEF IInv

\* The internal address is that of the interface that was given, or none if that has
\* none; else the one that was given, else the first private one; and but for the
\* interface pods are told the one the node advertises, for every machine (node.go).
THEOREM InternalIsAsDocumented == Spec => []InternalAsDocumented
  BY Invariant, InternalFollows, PTL DEF IInv

\* What follows the journal for a client that is there reads an open reader: only
\* the follower's own end, or the client's, makes the handler close it (log.go).
THEOREM ReaderIsOpen == Spec => []ReadsOpenJournal
  <1>1. IInv => ReadsOpenJournal
    BY DEF IInv, LogsInv, L!TypeOK, ReadsOpenJournal, L!ReadsOpenJournal
  <1> QED  BY <1>1, Invariant, PTL
=============================================================================
