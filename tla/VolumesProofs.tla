---------------------------- MODULE VolumesProofs ----------------------------
(***************************************************************************)
(* Proofs about Volumes.  Three goroutines write below the directories of  *)
(* a pod.  The inductive invariant IInv says for each of them where its    *)
(* call is, what it has read and how far its temporary file is; that       *)
(* CreatePod's call and those of the informers do not meet; what is on the *)
(* disk for what a call has behind it; and, for the order of updates, that *)
(* no file is newer than what the one call in its directory has read.      *)
(***************************************************************************)
EXTENDS Volumes, DataLemmas

-----------------------------------------------------------------------------
(* The parts of the invariant.                                             *)

\* What a call that is in a volume's directory is doing there.
Busy(c) == call[c].pc \in {"keys", "chown", "write", "rename"}
Writing(c) == call[c].pc \in {"chown", "write", "rename"}

\* A call is at a volume it is about; what it has left to write is of the version it
\* has read, which the lister had.
CallInvOf(c) ==
    /\ ~Busy(c) => call[c].left = {}
    /\ call[c].pc # "idle" /\ call[c].i \in Place =>
          /\ Handles(c, TheVolume(c).type)
          /\ TheVolume(c).type \notin {"hostPath", "emptyDir"} =>
                call[c].s \in DOMAIN TheVolume(c).sources
    /\ Busy(c) =>
          /\ call[c].i \in Place
          /\ TheVolume(c).type # "hostPath"
          /\ call[c].left \subseteq KeysToWrite(c, call[c].version)
          /\ IF TheVolume(c).type = "emptyDir" THEN call[c].version = 0
             ELSE call[c].version \in 1..lister[TheSource(c).ref]
    /\ Writing(c) => call[c].key \in call[c].left
    /\ ~Writing(c) => tmp[c] = NoFile

CallInv == \A c \in Which : CallInvOf(c)

\* CreatePod and the informers do not meet.
OneCaller ==
    /\ call["all"].pc # "idle" => pod = "creating"
    /\ \A h \in Handlers : call[h].pc # "idle" => pod \in {"watched", "deleting", "gone"}

\* The temporary file is further with each part of writeFile, unless it was removed.
TmpInvOf(c) ==
    /\ tmp[c] # NoFile => tmp[c].version = call[c].version
    /\ pod # "gone" =>
          /\ Writing(c) => tmp[c] # NoFile
          /\ call[c].pc \in {"write", "rename"} => tmp[c].owned
          /\ call[c].pc = "rename" => tmp[c].whole

TmpInv == \A c \in Which : TmpInvOf(c)

\* The directory of a call is there, with the files it has written.
DirInvOf(c) ==
    Busy(c) =>
        /\ dir[TheDir(c)] = "owned"
        /\ \A k \in KeysToWrite(c, call[c].version) \ call[c].left :
              file[TheDir(c)][k] # NoFile

DirInv == pod # "gone" => \A c \in Which : DirInvOf(c)

\* And those of the volumes CreatePod has are.
VolInv ==
    /\ \A i \in Place : vol[i] = Host => Vols[i].type = "hostPath"
    /\ pod # "gone" =>
        \A i \in Place : vol[i] \notin {NoDir, Host} =>
            /\ vol[i].dir \in Dir /\ dir[vol[i].dir] = "owned"
            /\ \A k \in vol[i].keys : file[vol[i].dir][k] # NoFile

\* A required source that is behind CreatePod has made it a volume.
Behind(j, s) ==
    \/ pod \in {"watched", "forgotten"}
    \/ /\ call["all"].pc # "idle"
       /\ j < call["all"].i \/ (j = call["all"].i /\ s < call["all"].s)

RequiredInv ==
    \A j \in Place : \A s \in DOMAIN Vols[j].sources :
        Required(Vols[j].sources[s]) /\ Behind(j, s) => vol[j] # NoDir

\* No file of a ConfigMap or Secret volume is newer than what the lister has, or
\* than what the one call that is in its directory has read.
VersionInv ==
    pod # "gone" =>
        \A i \in Place, d \in Dir, k \in Key :
            Vols[i].type \in {"secret", "configMap"} /\ d[2] = i =>
                /\ file[d][k].version <= lister[Vols[i].sources[1].ref]
                /\ \A c \in Which : Busy(c) /\ call[c].i = i =>
                      file[d][k].version <= call[c].version

-----------------------------------------------------------------------------
(* The least element of a set of numbers.                                  *)

LEMMA MinIsLeast ==
    ASSUME NEW A \in SUBSET Nat, A # {}
    PROVE  Min(A) \in A /\ \A y \in A : Min(A) <= y
  BY LeastNatural DEF Min
-----------------------------------------------------------------------------
(* The loop over the volumes.                                              *)

LEMMA VolsType ==
    /\ Len(Vols) \in Nat
    /\ \A i \in Place :
          /\ Vols[i].type \in {"hostPath", "emptyDir", "secret", "configMap", "projected"}
          /\ Vols[i].sources \in Seq(Source)
          /\ Len(Vols[i].sources) \in Nat /\ DOMAIN Vols[i].sources = 1..Len(Vols[i].sources)
          /\ \A s \in DOMAIN Vols[i].sources : Vols[i].sources[s] \in Source
  <1> DEFINE Volume == [type : {"hostPath", "emptyDir", "secret", "configMap", "projected"},
                        sources : Seq(Source)]
  <1>1. Vols \in Seq(Volume)
    BY VolsAssumption
  <1>2. Len(Vols) \in Nat /\ \A i \in Place : Vols[i] \in Volume
    <2> HIDE DEF Volume
    <2> QED  BY <1>1 DEF Place
  <1>3. ASSUME NEW i \in Place
        PROVE  /\ Vols[i].type \in {"hostPath", "emptyDir", "secret", "configMap", "projected"}
               /\ Vols[i].sources \in Seq(Source)
    BY <1>2
  <1>4. ASSUME NEW S, NEW q \in Seq(S)
        PROVE  Len(q) \in Nat /\ DOMAIN q = 1..Len(q) /\ \A s \in DOMAIN q : q[s] \in S
    BY <1>4
  <1> QED  BY <1>2, <1>3, <1>4

\* A call goes to the next volume it is about, and passes over none.
LEMMA NextPlaceType ==
    ASSUME NEW c, NEW i \in 1..(Len(Vols) + 1)
    PROVE  /\ NextPlace(c, i) \in i..(Len(Vols) + 1)
           /\ NextPlace(c, i) \in Place => NextPlace(c, i) \in Ahead(c, i)
           /\ \A j \in Place : i <= j /\ j < NextPlace(c, i) => j \notin Ahead(c, i)
  <1> DEFINE A == Ahead(c, i) \cup {Len(Vols) + 1}
  <1>0. Len(Vols) \in Nat
    BY VolsType
  <1>1. A \in SUBSET Nat /\ A # {} /\ \A j \in A : i <= j /\ j <= Len(Vols) + 1
    BY <1>0 DEF Ahead, Place
  <1>2. Min(A) \in A /\ \A j \in A : Min(A) <= j
    <2> HIDE DEF A
    <2> QED  BY <1>1, MinIsLeast
  <1>3. NextPlace(c, i) = Min(A)
    BY DEF NextPlace
  <1>4. ASSUME NEW n \in A, \A j \in A : n <= j
        PROVE  /\ n \in i..(Len(Vols) + 1)
               /\ n \in Place => n \in Ahead(c, i)
               /\ \A j \in Place : i <= j /\ j < n => j \notin Ahead(c, i)
    BY <1>0, <1>1, <1>4 DEF Place
  <1> HIDE DEF A
  <1> QED  BY <1>2, <1>3, <1>4

\* The directory of a call, and what it reads, are of the volume it is at.
LEMMA TheDirType ==
    ASSUME NEW c \in Which, call[c].i \in Place, TheVolume(c).type # "hostPath",
           TheVolume(c).type # "emptyDir" => call[c].s \in DOMAIN TheVolume(c).sources
    PROVE  /\ TheDir(c) \in Dir /\ TheDir(c)[2] = call[c].i
           /\ TheVolume(c).type # "emptyDir" =>
                 TheSource(c) \in Source /\ TheSource(c).ref \in Objects
  <1> DEFINE i == call[c].i
  <1>1. CASE TheVolume(c).type = "emptyDir"
    BY <1>1 DEF TheDir, Dir, TheVolume
  <1>2. CASE TheVolume(c).type # "emptyDir"
    <2>1. TheSource(c) \in Source
      BY <1>2, VolsType DEF TheSource, TheVolume
    <2>2. TheSource(c).ref \in Objects /\ TheSource(c).kind \in {"configMap", "secret", "token"}
      BY <2>1 DEF Source
    <2>3. TheSource(c).kind \in Kinds(i)
      BY <1>2 DEF Kinds, TheSource, TheVolume
    <2>4. TheSource(c).kind = "configMap" => <<"configmaps", i>> \in Dir
      BY <2>3 DEF Dir
    <2>5. TheSource(c).kind # "configMap" => <<"secrets", i>> \in Dir
      BY <2>3 DEF Dir
    <2> QED  BY <1>2, <2>1, <2>2, <2>4, <2>5 DEF TheDir
  <1> QED  BY <1>1, <1>2

LEMMA ZeroVersion == 0 \in Version /\ AnyKey \in Key /\ NoFile \in File /\ Version \subseteq Nat
  <1>1. PICK o \in Objects : TRUE
    BY KeysAssumption DEF Key
  <1>2. \A p \in Objects : Len(Keys[p]) \in Nat
    BY KeysAssumption
  <1>3. 0 \in Version /\ Version \subseteq Nat
    BY <1>1, <1>2 DEF Version
  <1> QED  BY <1>3, KeysAssumption DEF AnyKey, File, NoFile

\* Where a call is at a volume, it is at one it is about, and at one of its sources.
GoodPlace(c, r) ==
    r.i \in Place =>
        /\ Handles(c, Vols[r.i].type)
        /\ Vols[r.i].type \notin {"hostPath", "emptyDir"} => r.s \in DOMAIN Vols[r.i].sources

\* A call that looks at a volume has read nothing of it.
Looking(c, r) ==
    r \in Call /\ r.pc = "look" /\ r.left = {} /\ r.version = 0 /\ GoodPlace(c, r)

LEMMA LookFromLooks ==
    ASSUME TypeOK, NEW c \in Which, NEW i \in 1..(Len(Vols) + 1)
    PROVE  /\ Looking(c, LookFrom(c, i))
           /\ LookFrom(c, i).i = NextPlace(c, i) /\ LookFrom(c, i).s = 1
  <1>1. call[c] \in Call
    BY DEF TypeOK
  <1>2. NextPlace(c, i) \in 1..(Len(Vols) + 1)
    BY NextPlaceType, VolsType
  <1>3. /\ LookFrom(c, i) \in Call
        /\ LookFrom(c, i).pc = "look" /\ LookFrom(c, i).i = NextPlace(c, i)
        /\ LookFrom(c, i).s = 1 /\ LookFrom(c, i).version = 0 /\ LookFrom(c, i).left = {}
    <2>1. call[c].key \in Key
      BY <1>1 DEF Call
    <2> QED  BY <1>2, <2>1, ZeroVersion DEF LookFrom, Call, Pcs
  <1>4. ASSUME NextPlace(c, i) \in Place
        PROVE  /\ Handles(c, Vols[NextPlace(c, i)].type)
               /\ Vols[NextPlace(c, i)].type \notin {"hostPath", "emptyDir"} =>
                     1 \in DOMAIN Vols[NextPlace(c, i)].sources
    <2> DEFINE n == NextPlace(c, i)
    <2>1. n \in Ahead(c, i)
      BY <1>4, NextPlaceType
    <2>2. n \in Place /\ Handles(c, Vols[n].type)
          /\ (Vols[n].type = "projected" => Vols[n].sources # <<>>)
      <3> HIDE DEF n
      <3> QED  BY <2>1 DEF Ahead
    <2>3. Vols[n].type \in {"secret", "configMap"} => Len(Vols[n].sources) = 1
      BY <2>2, VolsAssumption
    <2>4. /\ Vols[n].sources \in Seq(Source) /\ DOMAIN Vols[n].sources = 1..Len(Vols[n].sources)
          /\ Len(Vols[n].sources) \in Nat
          /\ Vols[n].type \in {"hostPath", "emptyDir", "secret", "configMap", "projected"}
      BY <2>2, VolsType
    <2>5. Vols[n].sources # <<>> => Len(Vols[n].sources) # 0
      BY <2>4
    <2>7. Vols[n].type \notin {"hostPath", "emptyDir"} => Len(Vols[n].sources) # 0
      <3> HIDE DEF n
      <3>1. CASE Vols[n].type = "projected"
        BY <2>2, <2>5, <3>1
      <3>2. CASE Vols[n].type \in {"secret", "configMap"}
        <4>1. Len(Vols[n].sources) = 1
          BY <2>3, <3>2
        <4> QED  BY <4>1
      <3> QED  BY <2>4, <3>1, <3>2
    <2>6. Vols[n].type \notin {"hostPath", "emptyDir"} => 1 \in DOMAIN Vols[n].sources
      <3> HIDE DEF n
      <3> QED  BY <2>4, <2>7
    <2> QED  BY <2>2, <2>6
  <1> QED  BY <1>3, <1>4 DEF Looking, GoodPlace

\* After a source comes the next one of its volume, or the next volume.
LEMMA NextSourceLooks ==
    ASSUME TypeOK, NEW c \in Which, CallInvOf(c), call[c].pc # "idle", call[c].i \in Place
    PROVE  /\ Looking(c, NextSource(c))
           /\ \/ /\ NextSource(c).i = call[c].i /\ NextSource(c).s = call[c].s + 1
              \/ /\ NextSource(c).i = NextPlace(c, call[c].i + 1) /\ NextSource(c).s = 1
                 /\ \A s \in DOMAIN TheVolume(c).sources : s <= call[c].s
  <1>1. call[c] \in Call /\ call[c].i + 1 \in 1..(Len(Vols) + 1)
    BY VolsType DEF TypeOK, Place
  <1>2. Len(TheVolume(c).sources) \in Nat /\ DOMAIN TheVolume(c).sources = 1..Len(TheVolume(c).sources)
    BY VolsType DEF TheVolume
  <1>3. call[c].s \in Nat \ {0}
    BY <1>1 DEF Call
  <1>4. CASE call[c].s < Len(TheVolume(c).sources)
    <2>1. NextSource(c) = [call[c] EXCEPT !.pc = "look", !.s = @ + 1, !.version = 0, !.left = {}]
      BY <1>4 DEF NextSource
    <2>2. call[c].s + 1 \in Nat \ {0} /\ call[c].s + 1 \in DOMAIN TheVolume(c).sources
      BY <1>2, <1>3, <1>4
    <2>3. NextSource(c) \in Call
      BY <1>1, <2>1, <2>2, ZeroVersion DEF Call, Pcs
    <2>4. /\ NextSource(c).pc = "look" /\ NextSource(c).i = call[c].i
          /\ NextSource(c).s = call[c].s + 1 /\ NextSource(c).version = 0 /\ NextSource(c).left = {}
      BY <1>1, <2>1 DEF Call
    <2>5. GoodPlace(c, NextSource(c))
      BY <2>2, <2>4 DEF GoodPlace, CallInvOf, TheVolume
    <2> QED  BY <2>3, <2>4, <2>5 DEF Looking
  <1>5. CASE ~(call[c].s < Len(TheVolume(c).sources))
    <2>1. NextSource(c) = LookFrom(c, call[c].i + 1)
      BY <1>5 DEF NextSource, NextVolume
    <2>2. \A s \in DOMAIN TheVolume(c).sources : s <= call[c].s
      BY <1>2, <1>3, <1>5
    <2> QED  BY <1>1, <2>1, <2>2, LookFromLooks
  <1> QED  BY <1>4, <1>5

-----------------------------------------------------------------------------
(* What a step of one call does to it and leaves alone.                    *)

\* A step of c is of no other call, and the lister stays.
Others(c) ==
    /\ \A e \in Which \ {c} : call'[e] = call[e] /\ tmp'[e] = tmp[e]
    /\ call' \in [Which -> Call] /\ tmp' \in [Which -> File]
    /\ lister' = lister

\* volumes() has returned, or died.
Stops(c) == call'[c] = Idle /\ tmp'[c] = NoFile

\* It looks at another source.
GoesOn(c) == Looking(c, call'[c]) /\ tmp'[c] = NoFile

\* It has read its object.
Reads(c) ==
    /\ call[c].pc = "look" /\ call[c].i \in Place
    /\ Looks(c, {"emptyDir"}) \/ (LooksForSource(c) /\ Exists(TheSource(c).ref))
    /\ call'[c].pc = "keys" /\ call'[c].i = call[c].i /\ call'[c].s = call[c].s
    /\ call'[c].version = TheVersion(c) /\ call'[c].left = KeysToWrite(c, TheVersion(c))
    /\ tmp'[c] = NoFile /\ dir'[TheDir(c)] = "owned"

\* It is at the next part of writeFile.
Writes(c) ==
    /\ Busy(c) /\ call'[c].pc \in {"keys", "chown", "write", "rename"}
    /\ call'[c].i = call[c].i /\ call'[c].s = call[c].s /\ call'[c].version = call[c].version
    /\ call'[c].left \subseteq call[c].left
    /\ call'[c].pc # "keys" => call'[c].key \in call'[c].left
    /\ call'[c].pc = "keys" => tmp'[c] = NoFile

LEMMA IdleType == Idle \in Call
  BY ZeroVersion, VolsType DEF Idle, Call, Pcs

LEMMA FailsStops ==
    ASSUME TypeOK, NEW c \in Which, Fails(c), lister' = lister
    PROVE  Others(c) /\ Stops(c) /\ vol' = vol
  BY IdleType, ZeroVersion DEF TypeOK, Fails, Others, Stops

LEMMA KeysType ==
    ASSUME NEW o \in Objects, NEW v \in 0..Len(Keys[o])
    PROVE  v \in Version /\ (v # 0 => Keys[o][v] \subseteq Key)
  <1>1. Keys[o] \in Seq(SUBSET Key) /\ Len(Keys[o]) \in Nat
    BY KeysAssumption
  <1>2. v # 0 => v \in DOMAIN Keys[o]
    BY <1>1
  <1> QED  BY <1>1, <1>2 DEF Version

\* One record of a call for another.
LEMMA OneCallChanges ==
    ASSUME TypeOK, NEW c \in Which, NEW r \in Call, call' = [call EXCEPT ![c] = r],
           tmp' = tmp \/ (\E f \in File : tmp' = [tmp EXCEPT ![c] = f]), lister' = lister
    PROVE  Others(c) /\ call'[c] = r
  <1>1. call \in [Which -> Call] /\ tmp \in [Which -> File]
    BY DEF TypeOK
  <1>2. call' \in [Which -> Call] /\ call'[c] = r /\ \A e \in Which \ {c} : call'[e] = call[e]
    BY <1>1
  <1>3. tmp' \in [Which -> File] /\ \A e \in Which \ {c} : tmp'[e] = tmp[e]
    BY <1>1
  <1> QED  BY <1>2, <1>3 DEF Others

LEMMA HostPathGoesOn ==
    ASSUME TypeOK, CallInv, NEW c \in Which, HostPath(c)
    PROVE  Others(c) /\ GoesOn(c)
  <1>1. call[c].i \in Place /\ call[c].i + 1 \in 1..(Len(Vols) + 1) /\ tmp[c] = NoFile
    BY VolsType DEF HostPath, Looks, At, Place, CallInv, CallInvOf, Writing
  <1>2. Looking(c, NextVolume(c))
    BY <1>1, LookFromLooks DEF NextVolume
  <1>3. NextVolume(c) \in Call
    BY <1>2 DEF Looking
  <1>4. Others(c) /\ call'[c] = NextVolume(c)
    BY <1>3, OneCallChanges DEF HostPath, clusterVars
  <1> QED  BY <1>1, <1>2, <1>4 DEF GoesOn, HostPath

LEMMA NextSourceGoesOn ==
    ASSUME TypeOK, CallInv, NEW c \in Which, call[c].pc \in {"look", "keys"}, call[c].i \in Place,
           call' = [call EXCEPT ![c] = NextSource(c)], tmp' = tmp, lister' = lister
    PROVE  Others(c) /\ GoesOn(c) /\ call'[c] = NextSource(c)
  <1>1. tmp[c] = NoFile /\ CallInvOf(c) /\ call[c].pc # "idle"
    BY DEF CallInv, CallInvOf, Writing
  <1>2. Looking(c, NextSource(c))
    BY <1>1, NextSourceLooks
  <1>3. NextSource(c) \in Call
    BY <1>2 DEF Looking
  <1>4. Others(c) /\ call'[c] = NextSource(c)
    BY <1>3, OneCallChanges
  <1> QED  BY <1>1, <1>2, <1>4 DEF GoesOn

LEMMA MissingDoes ==
    ASSUME TypeOK, CallInv, NEW c \in Which, Missing(c)
    PROVE  Others(c) /\ vol' = vol
           /\ \/ Stops(c)
              \/ GoesOn(c) /\ call'[c] = NextSource(c) /\ ~Required(TheSource(c))
  <1>1. call[c].pc = "look" /\ call[c].i \in Place /\ lister' = lister
    BY DEF Missing, LooksForSource, Looks, At, clusterVars
  <1>2. CASE Required(TheSource(c))
    BY <1>1, <1>2, FailsStops DEF Missing
  <1>3. CASE ~Required(TheSource(c))
    <2>1. call' = [call EXCEPT ![c] = NextSource(c)] /\ tmp' = tmp /\ vol' = vol
      BY <1>3 DEF Missing
    <2> QED  BY <1>1, <1>3, <2>1, NextSourceGoesOn
  <1> QED  BY <1>2, <1>3

\* What there is to write of a source are keys, and the version read is the lister's.
LEMMA ToWrite ==
    ASSUME TypeOK, CallInv, NEW c \in Which, Reads(c) \/ Looks(c, {"emptyDir"})
              \/ (LooksForSource(c) /\ Exists(TheSource(c).ref))
    PROVE  /\ TheVersion(c) \in Version /\ KeysToWrite(c, TheVersion(c)) \subseteq Key
           /\ TheVolume(c).type = "emptyDir" => KeysToWrite(c, TheVersion(c)) = {} /\ TheVersion(c) = 0
           /\ TheVolume(c).type # "emptyDir" =>
                 /\ TheSource(c) \in Source /\ TheVersion(c) = lister[TheSource(c).ref]
                 /\ TheVersion(c) \in 1..lister[TheSource(c).ref]
           /\ TheDir(c) \in Dir
  <1>0. /\ Looks(c, {"emptyDir"}) \/ (LooksForSource(c) /\ Exists(TheSource(c).ref))
        /\ call[c].pc = "look" /\ call[c].i \in Place /\ CallInvOf(c)
    BY DEF Reads, LooksForSource, Looks, At, CallInv
  <1>1. CASE TheVolume(c).type = "emptyDir"
    <2>1. TheVersion(c) = 0 /\ KeysToWrite(c, TheVersion(c)) = {}
      BY <1>1 DEF TheVersion, KeysToWrite
    <2>2. TheDir(c) \in Dir
      BY <1>0, <1>1, TheDirType
    <2> QED  BY <1>1, <2>1, <2>2, ZeroVersion
  <1>2. CASE TheVolume(c).type # "emptyDir"
    <2>1. LooksForSource(c) /\ Exists(TheSource(c).ref)
      BY <1>0, <1>2 DEF Looks
    <2>2. /\ TheVolume(c).type # "hostPath" /\ call[c].s \in DOMAIN TheVolume(c).sources
      BY <1>0, <1>2, <2>1 DEF LooksForSource, Looks, CallInvOf
    <2>3. /\ TheDir(c) \in Dir /\ TheSource(c) \in Source /\ TheSource(c).ref \in Objects
      BY <1>0, <1>2, <2>2, TheDirType
    <2>4. /\ TheVersion(c) = lister[TheSource(c).ref] /\ lister[TheSource(c).ref] # 0
          /\ lister[TheSource(c).ref] \in Version
          /\ lister[TheSource(c).ref] <= Len(Keys[TheSource(c).ref])
      BY <1>2, <2>1, <2>3 DEF TheVersion, Exists, TypeOK
    <2> DEFINE v == lister[TheSource(c).ref]
    <2>5. v \in Nat /\ v # 0 /\ v <= Len(Keys[TheSource(c).ref]) /\ Len(Keys[TheSource(c).ref]) \in Nat
      BY <2>3, <2>4, ZeroVersion, KeysAssumption
    <2>6. v \in 1..v /\ v \in 0..Len(Keys[TheSource(c).ref])
      BY <2>5
    <2>7. Keys[TheSource(c).ref][v] \subseteq Key
      BY <2>3, <2>5, <2>6, KeysType
    <2>8. KeysToWrite(c, v) \subseteq Key
      BY <2>5, <2>7 DEF KeysToWrite
    <2> QED  BY <1>2, <2>3, <2>4, <2>6, <2>8
  <1> QED  BY <1>1, <1>2

LEMMA SetupPathsDoes ==
    ASSUME TypeOK, CallInv, NEW c \in Which, SetupPaths(c)
    PROVE  /\ Others(c) /\ vol' = vol /\ TheDir(c) \in Dir
           /\ \/ Reads(c) /\ dir' = [dir EXCEPT ![TheDir(c)] = "owned"]
              \/ /\ Stops(c)
                 /\ dir' = [dir EXCEPT ![TheDir(c)] = IF @ = "absent" THEN "made" ELSE @]
  <1>1. /\ Looks(c, {"emptyDir"}) \/ (LooksForSource(c) /\ Exists(TheSource(c).ref))
        /\ lister' = lister /\ call[c] \in Call /\ dir \in [Dir -> {"absent", "made", "owned"}]
        /\ call[c].pc = "look" /\ call[c].i \in Place
    BY DEF SetupPaths, clusterVars, TypeOK, LooksForSource, Looks, At
  <1>2. /\ TheVersion(c) \in Version /\ KeysToWrite(c, TheVersion(c)) \subseteq Key /\ TheDir(c) \in Dir
    BY <1>1, ToWrite
  <1>3. tmp[c] = NoFile
    BY <1>1 DEF CallInv, CallInvOf, Writing
  <1>4. ASSUME dir' = [dir EXCEPT ![TheDir(c)] = "owned"],
               call' = [call EXCEPT ![c].pc = "keys", ![c].version = TheVersion(c),
                                    ![c].left = KeysToWrite(c, TheVersion(c))],
               UNCHANGED <<tmp, vol, faults>>
        PROVE  Others(c) /\ vol' = vol /\ Reads(c)
    <2> DEFINE v == TheVersion(c)
               l == KeysToWrite(c, TheVersion(c))
               r == [call[c] EXCEPT !.pc = "keys", !.version = v, !.left = l]
    <2>1. call' = [call EXCEPT ![c] = r]
      <3>2. call' = [call EXCEPT ![c].pc = "keys", ![c].version = v, ![c].left = l]
        BY <1>4
      <3>4. call \in [Which -> Call]
        BY DEF TypeOK
      <3> HIDE DEF v, l
      <3> QED  BY <3>2, <3>4
    <2>2. /\ r \in Call /\ r.pc = "keys" /\ r.i = call[c].i /\ r.s = call[c].s
          /\ r.version = v /\ r.left = l
      <3>1. v \in Version /\ l \subseteq Key
        BY <1>2
      <3> HIDE DEF v, l
      <3> QED  BY <1>1, <3>1 DEF Call, Pcs
    <2>3. Others(c) /\ call'[c] = r
      <3> HIDE DEF r
      <3> QED  BY <1>1, <1>4, <2>1, <2>2, OneCallChanges
    <2>4. dir'[TheDir(c)] = "owned"
      BY <1>1, <1>2, <1>4
    <2>5. /\ call'[c].pc = "keys" /\ call'[c].i = call[c].i /\ call'[c].s = call[c].s
          /\ call'[c].version = v /\ call'[c].left = l
      <3> HIDE DEF r
      <3> QED  BY <2>2, <2>3
    <2> QED  BY <1>1, <1>3, <1>4, <2>3, <2>4, <2>5 DEF Reads
  <1>5. ASSUME DiskFails(c)  PROVE  Others(c) /\ vol' = vol /\ Stops(c)
    BY <1>1, <1>5, FailsStops DEF DiskFails
  <1> QED  BY <1>2, <1>4, <1>5 DEF SetupPaths

LEMMA SourceDoneGoesOn ==
    ASSUME TypeOK, CallInv, NEW c \in Which, SourceDone(c)
    PROVE  Others(c) /\ GoesOn(c) /\ call'[c] = NextSource(c) /\ TheDir(c) \in Dir
  <1>1. /\ call[c].pc = "keys" /\ Busy(c) /\ tmp' = tmp /\ lister' = lister
        /\ call' = [call EXCEPT ![c] = NextSource(c)] /\ CallInvOf(c)
    BY DEF SourceDone, At, Busy, clusterVars, CallInv
  <1>2. call[c].i \in Place /\ TheDir(c) \in Dir
    BY <1>1, TheDirType DEF CallInvOf
  <1> QED  BY <1>1, <1>2, NextSourceGoesOn

\* A call that is busy has its directory.
LEMMA BusyType ==
    ASSUME CallInv, NEW c \in Which, Busy(c)
    PROVE  TheDir(c) \in Dir /\ TheDir(c)[2] = call[c].i /\ call[c].i \in Place /\ CallInvOf(c)
  <1>1. CallInvOf(c) /\ call[c].pc # "idle"
    BY DEF CallInv, Busy
  <1> QED  BY <1>1, TheDirType DEF CallInvOf

LEMMA TempFileDoes ==
    ASSUME TypeOK, CallInv, NEW c \in Which, NEW k \in Key, TempFile(c, k)
    PROVE  /\ Others(c) /\ vol' = vol
           /\ \/ Stops(c)
              \/ /\ Writes(c) /\ call'[c].pc = "chown"
                 /\ tmp'[c].version = call[c].version /\ ~tmp'[c].whole /\ ~tmp'[c].owned
                 /\ call'[c].left = call[c].left
                 /\ dir[TheDir(c)] # "absent"
  <1>1. /\ call[c].pc = "keys" /\ k \in call[c].left /\ lister' = lister /\ call[c] \in Call
        /\ Busy(c) /\ call \in [Which -> Call] /\ tmp \in [Which -> File]
    BY DEF TempFile, At, Busy, TypeOK, clusterVars
  <1>2. CASE Fails(c)
    <2>1. Others(c) /\ Stops(c) /\ vol' = vol
      BY <1>1, <1>2, FailsStops
    <2> QED  BY <2>1
  <1>3. ASSUME tmp' = [tmp EXCEPT ![c] = [NoFile EXCEPT !.version = call[c].version]],
               call' = [call EXCEPT ![c].pc = AfterTempFile, ![c].key = k],
               UNCHANGED <<vol, faults>>, dir[TheDir(c)] # "absent"
        PROVE  /\ Others(c) /\ vol' = vol /\ Writes(c) /\ call'[c].pc = "chown"
               /\ tmp'[c].version = call[c].version /\ ~tmp'[c].whole /\ ~tmp'[c].owned
               /\ call'[c].left = call[c].left
    <2> DEFINE r == [call[c] EXCEPT !.pc = AfterTempFile, !.key = k]
               f == [NoFile EXCEPT !.version = call[c].version]
    <2>1. call' = [call EXCEPT ![c] = r]
      BY <1>1, <1>3
    <2>2. /\ r \in Call /\ r.pc = "chown" /\ r.i = call[c].i /\ r.s = call[c].s
          /\ r.version = call[c].version /\ r.left = call[c].left /\ r.key = k
      BY <1>1 DEF Call, Pcs, AfterTempFile
    <2>3. /\ tmp' = [tmp EXCEPT ![c] = f]
          /\ f \in File /\ f.version = call[c].version /\ ~f.whole /\ ~f.owned
      BY <1>1, <1>3 DEF NoFile, File, Call
    <2>4. Others(c) /\ call'[c] = r
      <3> HIDE DEF r, f
      <3> QED  BY <1>1, <2>1, <2>2, <2>3, OneCallChanges
    <2>5. tmp'[c] = f
      BY <1>1, <2>3
    <2> HIDE DEF r, f
    <2> QED  BY <1>1, <1>3, <2>2, <2>3, <2>4, <2>5 DEF Writes
  <1>4. CASE DiskFails(c)
    BY <1>2, <1>4 DEF DiskFails
  <1> QED  BY <1>2, <1>3, <1>4 DEF TempFile

LEMMA GotoGoes ==
    ASSUME TypeOK, NEW c \in Which, NEW label \in Pcs, Goto(c, label)
    PROVE  \E r \in Call : /\ call' = [call EXCEPT ![c] = r] /\ r.pc = label
                           /\ r.i = call[c].i /\ r.s = call[c].s /\ r.version = call[c].version
                           /\ r.left = call[c].left /\ r.key = call[c].key
  <1> DEFINE r == [pc |-> label, i |-> call[c].i, s |-> call[c].s, version |-> call[c].version,
                   left |-> call[c].left, key |-> call[c].key]
  <1>1. call[c] \in Call /\ call \in [Which -> Call]
    BY DEF TypeOK
  <1>2. r \in Call /\ [call[c] EXCEPT !.pc = label] = r
    BY <1>1 DEF Call
  <1>3. call' = [call EXCEPT ![c] = [call[c] EXCEPT !.pc = label]]
    BY <1>1 DEF Goto
  <1>4. call' = [call EXCEPT ![c] = r]
    BY <1>2, <1>3
  <1> QED  BY <1>2, <1>4

LEMMA ChownDoes ==
    ASSUME TypeOK, CallInv, NEW c \in Which, Chown(c)
    PROVE  /\ Others(c) /\ vol' = vol
           /\ \/ Stops(c)
              \/ /\ Writes(c) /\ call'[c].pc = "write"
                 /\ tmp[c] # NoFile /\ tmp'[c].version = tmp[c].version /\ tmp'[c].owned
                 /\ call'[c].left = call[c].left
  <1>1. /\ call[c].pc = "chown" /\ lister' = lister /\ Writing(c) /\ Busy(c)
        /\ call[c].key \in call[c].left
    BY DEF Chown, At, Writing, Busy, clusterVars, CallInv, CallInvOf
  <1>2. CASE Fails(c)
    <2>1. Others(c) /\ Stops(c) /\ vol' = vol
      BY <1>1, <1>2, FailsStops
    <2> QED  BY <2>1
  <1>3. ASSUME tmp[c] # NoFile, tmp' = [tmp EXCEPT ![c].owned = TRUE], Goto(c, "write"),
               UNCHANGED <<vol, faults>>
        PROVE  /\ Others(c) /\ vol' = vol /\ Writes(c) /\ call'[c].pc = "write"
               /\ tmp'[c].version = tmp[c].version /\ tmp'[c].owned
               /\ call'[c].left = call[c].left
    <2>1. PICK r \in Call : /\ call' = [call EXCEPT ![c] = r] /\ r.pc = "write"
                            /\ r.i = call[c].i /\ r.s = call[c].s /\ r.version = call[c].version
                            /\ r.left = call[c].left /\ r.key = call[c].key
      BY <1>3, GotoGoes DEF Pcs
    <2>2. tmp[c] \in File /\ tmp \in [Which -> File]
      BY DEF TypeOK
    <2> DEFINE f == [tmp[c] EXCEPT !.owned = TRUE]
    <2>3. f \in File /\ f.version = tmp[c].version /\ f.owned
      BY <2>2 DEF File
    <2>4. tmp' = [tmp EXCEPT ![c] = f]
      BY <1>3, <2>2
    <2> HIDE DEF f
    <2>5. Others(c) /\ call'[c] = r
      BY <1>1, <2>1, <2>3, <2>4, OneCallChanges
    <2>6. tmp'[c] = f
      BY <2>2, <2>4
    <2> QED  BY <1>1, <1>3, <2>1, <2>3, <2>5, <2>6 DEF Writes
  <1>4. CASE DiskFails(c)
    BY <1>2, <1>4 DEF DiskFails
  <1> QED  BY <1>2, <1>3, <1>4 DEF Chown

LEMMA WriteDoes ==
    ASSUME TypeOK, CallInv, NEW c \in Which, Write(c)
    PROVE  /\ Others(c) /\ vol' = vol
           /\ \/ Stops(c)
              \/ /\ Writes(c) /\ call'[c].pc = "rename"
                 /\ tmp'[c].version = call[c].version /\ tmp'[c].whole /\ tmp'[c].owned = tmp[c].owned
                 /\ call'[c].left = call[c].left
  <1>1. /\ call[c].pc = "write" /\ lister' = lister /\ Writing(c) /\ Busy(c)
        /\ call[c].key \in call[c].left /\ call[c].version \in Version
    BY DEF Write, At, Writing, Busy, clusterVars, CallInv, CallInvOf, TypeOK, Call
  <1>2. CASE Fails(c)
    <2>1. Others(c) /\ Stops(c) /\ vol' = vol
      BY <1>1, <1>2, FailsStops
    <2> QED  BY <2>1
  <1>3. ASSUME tmp' = [tmp EXCEPT ![c] = [@ EXCEPT !.version = call[c].version, !.whole = TRUE]],
               Goto(c, "rename"), UNCHANGED <<vol, faults>>
        PROVE  /\ Others(c) /\ vol' = vol /\ Writes(c) /\ call'[c].pc = "rename"
               /\ tmp'[c].version = call[c].version /\ tmp'[c].whole /\ tmp'[c].owned = tmp[c].owned
               /\ call'[c].left = call[c].left
    <2> DEFINE f == [tmp[c] EXCEPT !.version = call[c].version, !.whole = TRUE]
    <2>1. PICK r \in Call : /\ call' = [call EXCEPT ![c] = r] /\ r.pc = "rename"
                            /\ r.i = call[c].i /\ r.s = call[c].s /\ r.version = call[c].version
                            /\ r.left = call[c].left /\ r.key = call[c].key
      BY <1>3, GotoGoes DEF Pcs
    <2>2. tmp[c] \in File /\ tmp \in [Which -> File]
      BY DEF TypeOK
    <2>3. f \in File /\ f.version = call[c].version /\ f.whole /\ f.owned = tmp[c].owned
      BY <1>1, <2>2 DEF File
    <2>4. tmp' = [tmp EXCEPT ![c] = f]
      BY <1>3, <2>2
    <2>5. Others(c) /\ call'[c] = r
      <3> HIDE DEF f
      <3> QED  BY <1>1, <2>1, <2>3, <2>4, OneCallChanges
    <2>6. tmp'[c] = f
      BY <2>2, <2>4
    <2> HIDE DEF f
    <2> QED  BY <1>1, <1>3, <2>1, <2>3, <2>5, <2>6 DEF Writes
  <1>4. CASE DiskFails(c)
    BY <1>2, <1>4 DEF DiskFails
  <1> QED  BY <1>2, <1>3, <1>4 DEF Write

LEMMA RenameDoes ==
    ASSUME TypeOK, CallInv, NEW c \in Which, Rename(c)
    PROVE  /\ Others(c) /\ vol' = vol /\ call[c].pc = "rename" /\ TheDir(c) \in Dir
           /\ \/ Stops(c) /\ file' = file
              \/ /\ Writes(c) /\ call'[c].pc = "keys" /\ tmp[c] # NoFile /\ tmp'[c] = NoFile
                 /\ call'[c].left = call[c].left \ {call[c].key} /\ call[c].key \in Key
                 /\ file' = [file EXCEPT ![TheDir(c)][call[c].key] = tmp[c]]
  <1>1. /\ call[c].pc = "rename" /\ lister' = lister /\ Writing(c) /\ Busy(c)
        /\ call[c].key \in call[c].left /\ call[c].key \in Key /\ TheDir(c) \in Dir
    BY BusyType DEF Rename, At, Writing, Busy, clusterVars, CallInv, CallInvOf, TypeOK, Call
  <1>2. CASE Fails(c) /\ file' = file
    <2>1. Others(c) /\ Stops(c) /\ vol' = vol
      BY <1>1, <1>2, FailsStops
    <2> QED  BY <1>1, <1>2, <2>1
  <1>3. ASSUME tmp[c] # NoFile, file' = [file EXCEPT ![TheDir(c)][call[c].key] = tmp[c]],
               tmp' = [tmp EXCEPT ![c] = NoFile],
               call' = [call EXCEPT ![c].pc = "keys", ![c].left = @ \ {call[c].key}],
               UNCHANGED <<vol, faults>>
        PROVE  /\ Others(c) /\ vol' = vol /\ Writes(c) /\ call'[c].pc = "keys" /\ tmp'[c] = NoFile
               /\ call'[c].left = call[c].left \ {call[c].key}
    <2> DEFINE r == [call[c] EXCEPT !.pc = "keys", !.left = @ \ {call[c].key}]
    <2>1. call[c] \in Call /\ call \in [Which -> Call] /\ tmp \in [Which -> File]
      BY DEF TypeOK
    <2>2. /\ r \in Call /\ r.pc = "keys" /\ r.i = call[c].i /\ r.s = call[c].s
          /\ r.version = call[c].version /\ r.left = call[c].left \ {call[c].key}
      BY <2>1 DEF Call, Pcs
    <2>3. call' = [call EXCEPT ![c] = r]
      BY <1>3, <2>1
    <2>4. Others(c) /\ call'[c] = r
      <3> HIDE DEF r
      <3> QED  BY <1>1, <1>3, <2>2, <2>3, ZeroVersion, OneCallChanges
    <2>5. tmp'[c] = NoFile
      BY <1>3, <2>1
    <2> HIDE DEF r
    <2> QED  BY <1>1, <1>3, <2>2, <2>4, <2>5 DEF Writes
  <1>4. CASE DiskFails(c) /\ file' = file
    BY <1>2, <1>4 DEF DiskFails
  <1> QED  BY <1>1, <1>2, <1>3, <1>4 DEF Rename

LEMMA ReturnsStops ==
    ASSUME TypeOK, CallInv, NEW c \in Which, Returns(c)
    PROVE  Others(c) /\ Stops(c) /\ vol' = vol
  <1>1. tmp[c] = NoFile /\ call' = [call EXCEPT ![c] = Idle] /\ tmp' = tmp /\ lister' = lister /\ vol' = vol
    BY DEF Returns, At, CallInv, CallInvOf, Writing
  <1>2. Others(c) /\ call'[c] = Idle
    BY <1>1, IdleType, OneCallChanges
  <1> QED  BY <1>1, <1>2 DEF Stops

LEMMA BeginsGoesOn ==
    ASSUME TypeOK, CallInv, NEW c \in Which, At(c, "idle"),
           call' = [call EXCEPT ![c] = LookFrom(c, 1)], tmp' = tmp, lister' = lister
    PROVE  Others(c) /\ GoesOn(c) /\ call'[c] = LookFrom(c, 1)
  <1>1. tmp[c] = NoFile
    BY DEF At, CallInv, CallInvOf, Writing
  <1>2. Looking(c, LookFrom(c, 1))
    BY LookFromLooks, VolsType
  <1>3. LookFrom(c, 1) \in Call
    BY <1>2 DEF Looking
  <1>4. Others(c) /\ call'[c] = LookFrom(c, 1)
    BY <1>3, OneCallChanges
  <1> QED  BY <1>1, <1>2, <1>4 DEF GoesOn

-----------------------------------------------------------------------------
(* Types, and where calls are.                                             *)

Moves(c) == Stops(c) \/ GoesOn(c) \/ Reads(c) \/ Writes(c)

LEMMA StepMoves ==
    ASSUME TypeOK, CallInv, NEW c \in Which, VolumesStep(c)
    PROVE  Others(c) /\ Moves(c)
  <1>1. CASE HostPath(c)
    BY <1>1, HostPathGoesOn DEF Moves
  <1>2. CASE Missing(c)
    BY <1>2, MissingDoes DEF Moves
  <1>3. CASE SetupPaths(c)
    BY <1>3, SetupPathsDoes DEF Moves
  <1>4. CASE SourceDone(c)
    BY <1>4, SourceDoneGoesOn DEF Moves
  <1>5. CASE Chown(c)
    BY <1>5, ChownDoes DEF Moves
  <1>6. CASE Write(c)
    BY <1>6, WriteDoes DEF Moves
  <1>7. CASE Rename(c)
    BY <1>7, RenameDoes DEF Moves
  <1>8. CASE Returns(c)
    BY <1>8, ReturnsStops DEF Moves
  <1>9. ASSUME NEW k \in Key, TempFile(c, k)  PROVE Others(c) /\ Moves(c)
    BY <1>9, TempFileDoes DEF Moves
  <1> QED  BY <1>1, <1>2, <1>3, <1>4, <1>5, <1>6, <1>7, <1>8, <1>9 DEF VolumesStep

\* A call that a step does not move.
LEMMA CallStays ==
    ASSUME TypeOK, NEW c \in Which, CallInvOf(c), call'[c] = call[c],
           tmp'[c] = tmp[c] \/ tmp'[c] = NoFile,
           \A o \in Objects : lister'[o] \in Nat /\ lister[o] <= lister'[o]
    PROVE  CallInvOf(c)'
  <1>1. /\ Busy(c)' <=> Busy(c)
        /\ Writing(c)' <=> Writing(c)
        /\ TheVolume(c)' = TheVolume(c) /\ TheSource(c)' = TheSource(c)
        /\ \A v : KeysToWrite(c, v)' = KeysToWrite(c, v)
    BY DEF Busy, Writing, TheVolume, TheSource, KeysToWrite
  <1>2. KeysToWrite(c, call[c].version)' = KeysToWrite(c, call[c].version)
    BY DEF TheVolume, TheSource, KeysToWrite
  <1>3. ASSUME Busy(c), TheVolume(c).type # "emptyDir"
        PROVE  (call[c].version \in 1..lister[TheSource(c).ref])'
    <2>1. TheSource(c).ref \in Objects
      BY <1>3, TheDirType DEF CallInvOf, Busy
    <2>2. /\ call[c].version \in 1..lister[TheSource(c).ref]
          /\ lister[TheSource(c).ref] <= lister'[TheSource(c).ref]
          /\ lister[TheSource(c).ref] \in Nat /\ lister'[TheSource(c).ref] \in Nat
      BY <1>3, <2>1, ZeroVersion DEF CallInvOf, TypeOK
    <2>3. call[c].version \in 1..lister'[TheSource(c).ref]
      BY <2>2
    <2> QED  BY <1>1, <2>3
  <1>4. (~Busy(c) => call[c].left = {})'
    BY <1>1 DEF CallInvOf
  <1>5. (call[c].pc # "idle" /\ call[c].i \in Place =>
          /\ Handles(c, TheVolume(c).type)
          /\ TheVolume(c).type \notin {"hostPath", "emptyDir"} =>
                call[c].s \in DOMAIN TheVolume(c).sources)'
    BY <1>1 DEF CallInvOf
  <1>6. (Busy(c) =>
          /\ call[c].i \in Place
          /\ TheVolume(c).type # "hostPath"
          /\ call[c].left \subseteq KeysToWrite(c, call[c].version)
          /\ IF TheVolume(c).type = "emptyDir" THEN call[c].version = 0
             ELSE call[c].version \in 1..lister[TheSource(c).ref])'
    BY <1>1, <1>2, <1>3 DEF CallInvOf
  <1>7. (Writing(c) => call[c].key \in call[c].left)' /\ (~Writing(c) => tmp[c] = NoFile)'
    BY <1>1 DEF CallInvOf
  <1> QED  BY <1>4, <1>5, <1>6, <1>7 DEF CallInvOf

LEMMA ListerType == ASSUME TypeOK PROVE \A o \in Objects : lister[o] \in Nat
  BY ZeroVersion DEF TypeOK

\* A call that a step does move.
LEMMA CallMoves ==
    ASSUME TypeOK, CallInv, NEW c \in Which, Others(c), Moves(c)
    PROVE  CallInvOf(c)'
  <1>0. CallInvOf(c) /\ call[c] \in Call /\ call'[c] \in Call
    BY DEF CallInv, TypeOK, Others
  <1>1. CASE Stops(c)
    <2>1. call'[c].pc = "idle" /\ call'[c].left = {} /\ tmp'[c] = NoFile
      BY <1>1 DEF Stops, Idle
    <2>2. ~Busy(c)' /\ ~Writing(c)'
      BY <2>1 DEF Busy, Writing
    <2> QED  BY <2>1, <2>2 DEF CallInvOf
  <1>2. CASE GoesOn(c)
    <2>1. call'[c].pc = "look" /\ call'[c].left = {} /\ tmp'[c] = NoFile /\ GoodPlace(c, call'[c])
      BY <1>2 DEF GoesOn, Looking
    <2>2. ~Busy(c)' /\ ~Writing(c)'
      BY <2>1 DEF Busy, Writing
    <2>3. (call[c].pc # "idle" /\ call[c].i \in Place =>
            /\ Handles(c, TheVolume(c).type)
            /\ TheVolume(c).type \notin {"hostPath", "emptyDir"} =>
                  call[c].s \in DOMAIN TheVolume(c).sources)'
      BY <2>1 DEF GoodPlace, TheVolume
    <2> QED  BY <2>1, <2>2, <2>3 DEF CallInvOf
  <1>3. CASE Reads(c) \/ Writes(c)
    <2>1. call'[c].i = call[c].i /\ call'[c].s = call[c].s
      BY <1>3 DEF Reads, Writes
    <2>2. /\ TheVolume(c)' = TheVolume(c) /\ TheSource(c)' = TheSource(c)
          /\ \A v : KeysToWrite(c, v)' = KeysToWrite(c, v)
      BY <2>1 DEF TheVolume, TheSource, KeysToWrite
    <2>3. Busy(c)' /\ call[c].pc # "idle"
      BY <1>3 DEF Reads, Writes, Busy
    <2>4. call[c].i \in Place
      BY <1>0, <1>3 DEF Reads, Writes, CallInvOf
    <2>5. (call[c].pc # "idle" /\ call[c].i \in Place =>
            /\ Handles(c, TheVolume(c).type)
            /\ TheVolume(c).type \notin {"hostPath", "emptyDir"} =>
                  call[c].s \in DOMAIN TheVolume(c).sources)'
      BY <1>0, <2>1, <2>2, <2>3, <2>4 DEF CallInvOf
    <2>6. (Writing(c) => call[c].key \in call[c].left)' /\ (~Writing(c) => tmp[c] = NoFile)'
      BY <1>3 DEF Reads, Writes, Writing
    <2>7. CASE Reads(c)
      <3>1. TheVolume(c).type # "hostPath"
        BY <2>7 DEF Reads, LooksForSource, Looks
      <3>2. call'[c].version = TheVersion(c) /\ call'[c].left = KeysToWrite(c, TheVersion(c))
            /\ lister' = lister
        BY <2>7 DEF Reads, Others
      <3>3. IF TheVolume(c).type = "emptyDir" THEN call'[c].version = 0
            ELSE call'[c].version \in 1..lister[TheSource(c).ref]
        BY <2>7, <3>2, ToWrite
      <3>4. KeysToWrite(c, call[c].version)' = KeysToWrite(c, call'[c].version)
        BY <2>1 DEF KeysToWrite, TheVolume, TheSource
      <3>5. (/\ call[c].i \in Place
             /\ TheVolume(c).type # "hostPath"
             /\ call[c].left \subseteq KeysToWrite(c, call[c].version)
             /\ IF TheVolume(c).type = "emptyDir" THEN call[c].version = 0
                ELSE call[c].version \in 1..lister[TheSource(c).ref])'
        BY <2>1, <2>2, <2>4, <3>1, <3>2, <3>3, <3>4
      <3> QED  BY <2>3, <2>5, <2>6, <3>5 DEF CallInvOf
    <2>8. CASE Writes(c)
      <3>1. /\ call'[c].version = call[c].version /\ call'[c].left \subseteq call[c].left
            /\ lister' = lister /\ Busy(c)
        BY <2>8 DEF Writes, Others
      <3>2. KeysToWrite(c, call[c].version)' = KeysToWrite(c, call[c].version)
        BY <2>1, <3>1 DEF KeysToWrite, TheVolume, TheSource
      <3>3. /\ TheVolume(c).type # "hostPath"
            /\ call[c].left \subseteq KeysToWrite(c, call[c].version)
            /\ IF TheVolume(c).type = "emptyDir" THEN call[c].version = 0
               ELSE call[c].version \in 1..lister[TheSource(c).ref]
        BY <1>0, <3>1 DEF CallInvOf
      <3>5. (/\ call[c].i \in Place
             /\ TheVolume(c).type # "hostPath"
             /\ call[c].left \subseteq KeysToWrite(c, call[c].version)
             /\ IF TheVolume(c).type = "emptyDir" THEN call[c].version = 0
                ELSE call[c].version \in 1..lister[TheSource(c).ref])'
        BY <2>1, <2>2, <2>4, <3>1, <3>2, <3>3
      <3> QED  BY <2>3, <2>5, <2>6, <3>5 DEF CallInvOf
    <2> QED  BY <1>3, <2>7, <2>8
  <1> QED  BY <1>1, <1>2, <1>3 DEF Moves

\* Whatever a step is, each call either stays as it is, moves or dies.
LEMMA CallsKept ==
    ASSUME TypeOK, CallInv, NEW c \in Which, Others(c), Moves(c)
    PROVE  CallInv'
  <1>1. ASSUME NEW e \in Which \ {c}  PROVE CallInvOf(e)'
    <2>1. /\ CallInvOf(e) /\ call'[e] = call[e] /\ tmp'[e] = tmp[e]
          /\ \A o \in Objects : lister'[o] \in Nat /\ lister[o] <= lister'[o]
      BY <1>1, ListerType DEF CallInv, Others
    <2> QED  BY <2>1, CallStays
  <1>2. CallInvOf(c)'
    BY CallMoves
  <1> QED  BY <1>1, <1>2 DEF CallInv

\* What has something to write has the source it is of.
LeftInv ==
    \A c \in Which :
        call[c].left # {} => /\ call[c].i \in Place
                             /\ call[c].s \in DOMAIN Vols[call[c].i].sources

LEMMA LeftFollows == CallInv => LeftInv
  <1> SUFFICES ASSUME CallInv, NEW c \in Which, call[c].left # {}
               PROVE  call[c].i \in Place /\ call[c].s \in DOMAIN Vols[call[c].i].sources
    BY DEF LeftInv
  <1>1. CallInvOf(c) /\ Busy(c) /\ call[c].pc # "idle"
    BY DEF CallInv, CallInvOf, Busy
  <1>2. TheVolume(c).type \notin {"hostPath", "emptyDir"}
    BY <1>1 DEF CallInvOf, KeysToWrite
  <1> QED  BY <1>1, <1>2 DEF CallInvOf, TheVolume

\* What a call writes are keys.
LEMMA KeysAreKeys ==
    ASSUME TypeOK, CallInv, NEW c \in Which, Busy(c)
    PROVE  KeysToWrite(c, call[c].version) \subseteq Key
  <1>1. CASE TheVolume(c).type = "emptyDir"
    BY <1>1 DEF CallInv, CallInvOf, KeysToWrite
  <1>2. CASE TheVolume(c).type # "emptyDir"
    <2>1. /\ TheSource(c).ref \in Objects /\ call[c].version \in 1..lister[TheSource(c).ref]
      BY <1>2, BusyType, TheDirType DEF CallInvOf, Busy
    <2>2. /\ lister[TheSource(c).ref] \in Nat /\ Len(Keys[TheSource(c).ref]) \in Nat
          /\ lister[TheSource(c).ref] <= Len(Keys[TheSource(c).ref])
      BY <2>1, ListerType, KeysAssumption DEF TypeOK
    <2>3. call[c].version \in 0..Len(Keys[TheSource(c).ref]) /\ call[c].version # 0
      BY <2>1, <2>2
    <2>4. Keys[TheSource(c).ref][call[c].version] \subseteq Key
      BY <2>1, <2>3, KeysType
    <2> QED  BY <2>3, <2>4 DEF KeysToWrite
  <1> QED  BY <1>1, <1>2

\* What the steps of volumes() do to the rest of the state.
LEMMA DiskType ==
    ASSUME TypeOK, CallInv, NEW c \in Which, VolumesStep(c)
    PROVE  /\ dir' \in [Dir -> {"absent", "made", "owned"}] /\ file' \in [Dir -> [Key -> File]]
           /\ vol' \in [Place -> {NoDir, Host} \cup [dir : Dir, keys : SUBSET Key]]
           /\ pod' \in PodState /\ faults' \in 0..MaxFaults
  <1>0. /\ dir \in [Dir -> {"absent", "made", "owned"}] /\ file \in [Dir -> [Key -> File]]
        /\ vol \in [Place -> {NoDir, Host} \cup [dir : Dir, keys : SUBSET Key]]
        /\ pod \in PodState /\ faults \in 0..MaxFaults /\ tmp[c] \in File
    BY DEF TypeOK
  <1>1. faults' \in 0..MaxFaults
    <2>1. faults' = faults \/ (faults < MaxFaults /\ faults' = faults + 1)
      BY DEF VolumesStep, HostPath, Missing, SetupPaths, SourceDone, TempFile, Chown, Write, Rename,
             Returns, DiskFails
    <2> QED  BY <1>0, <2>1, FaultsAssumption
  <1>2. pod' \in PodState
    BY <1>0 DEF VolumesStep, HostPath, Missing, SetupPaths, SourceDone, TempFile, Chown, Write, Rename,
           Returns, clusterVars, PodState
  <1>3. dir' \in [Dir -> {"absent", "made", "owned"}]
    <2>1. CASE SetupPaths(c)
      BY <1>0, <2>1, SetupPathsDoes
    <2>2. CASE ~SetupPaths(c)
      BY <1>0, <2>2 DEF VolumesStep, HostPath, Missing, SourceDone, TempFile, Chown, Write, Rename,
           Returns, diskVars
    <2> QED  BY <2>1, <2>2
  <1>4. file' \in [Dir -> [Key -> File]]
    <2>1. CASE Rename(c)
      <3>1. CASE file' = file
        BY <1>0, <3>1
      <3>2. CASE file' # file
        <4>1. /\ call[c].key \in Key /\ TheDir(c) \in Dir
              /\ file' = [file EXCEPT ![TheDir(c)][call[c].key] = tmp[c]]
          BY <2>1, <3>2, RenameDoes
        <4>2. ASSUME NEW d \in Dir, NEW k \in Key
              PROVE  [file EXCEPT ![d][k] = tmp[c]] \in [Dir -> [Key -> File]]
          BY <1>0
        <4> QED  BY <4>1, <4>2
      <3> QED  BY <3>1, <3>2
    <2>2. CASE ~Rename(c)
      BY <1>0, <2>2 DEF VolumesStep, HostPath, Missing, SetupPaths, SourceDone, TempFile, Chown, Write,
           Returns, diskVars
    <2> QED  BY <2>1, <2>2
  <1>5. vol' \in [Place -> {NoDir, Host} \cup [dir : Dir, keys : SUBSET Key]]
    <2>1. CASE SourceDone(c)
      <3>1. CASE vol' = vol
        BY <1>0, <3>1
      <3>2. CASE vol' # vol
        <4> DEFINE v == [dir |-> TheDir(c), keys |-> KeysToWrite(c, call[c].version)]
        <4>1. vol' = [vol EXCEPT ![call[c].i] = v] /\ Busy(c)
          BY <2>1, <3>2 DEF SourceDone, Busy, At
        <4>2. TheDir(c) \in Dir
          BY <4>1, BusyType
        <4>3. KeysToWrite(c, call[c].version) \subseteq Key
          BY <4>1, KeysAreKeys
        <4>4. v \in {NoDir, Host} \cup [dir : Dir, keys : SUBSET Key]
          BY <4>2, <4>3
        <4> HIDE DEF v
        <4> QED  BY <1>0, <4>1, <4>4
      <3> QED  BY <3>1, <3>2
    <2>2. CASE HostPath(c)
      BY <1>0, <2>2 DEF HostPath
    <2>3. CASE ~SourceDone(c) /\ ~HostPath(c)
      <3>1. vol' = vol
        BY <2>3, MissingDoes, SetupPathsDoes, TempFileDoes, ChownDoes, WriteDoes, RenameDoes, ReturnsStops
           DEF VolumesStep
      <3> QED  BY <1>0, <3>1
    <2> QED  BY <2>1, <2>2, <2>3
  <1> QED  BY <1>1, <1>2, <1>3, <1>4, <1>5

LEMMA TypeFromParts ==
    ASSUME CallInv',
           lister' \in [Objects -> Version], \A o \in Objects : lister'[o] <= Len(Keys[o]),
           pod' \in PodState, dir' \in [Dir -> {"absent", "made", "owned"}],
           file' \in [Dir -> [Key -> File]], call' \in [Which -> Call], tmp' \in [Which -> File],
           vol' \in [Place -> {NoDir, Host} \cup [dir : Dir, keys : SUBSET Key]],
           faults' \in 0..MaxFaults
    PROVE  TypeOK'
  <1>1. LeftInv'
    BY LeftFollows, PTL
  <1> QED  BY <1>1 DEF TypeOK, LeftInv

LEMMA TypeInit == Init => TypeOK /\ CallInv
  <1> SUFFICES ASSUME Init  PROVE TypeOK /\ CallInv
    OBVIOUS
  <1>1. \A c \in Which : call[c] = Idle /\ tmp[c] = NoFile
    BY DEF Init
  <1>2. CallInv
    <2> SUFFICES ASSUME NEW c \in Which  PROVE CallInvOf(c)
      BY DEF CallInv
    <2> QED  BY <1>1 DEF CallInvOf, Busy, Writing, Idle
  <1>3. lister \in [Objects -> Version]
    <2>1. ASSUME NEW o \in Objects  PROVE lister[o] \in Version
      <3>1. lister[o] \in {0, 1} /\ lister[o] <= Len(Keys[o]) /\ Len(Keys[o]) \in Nat
        BY KeysAssumption DEF Init
      <3>2. lister[o] \in 0..Len(Keys[o])
        BY <3>1
      <3> QED  BY <3>2, KeysType
    <2> QED  BY <2>1 DEF Init
  <1>4. LeftInv
    BY <1>2, LeftFollows
  <1>5. dir \in [Dir -> {"absent", "made", "owned"}] /\ pod \in PodState /\ faults \in 0..MaxFaults
    BY FaultsAssumption DEF Init, PodState
  <1>6. file \in [Dir -> [Key -> File]] /\ call \in [Which -> Call] /\ tmp \in [Which -> File]
    BY ZeroVersion, IdleType DEF Init
  <1>7. vol \in [Place -> {NoDir, Host} \cup [dir : Dir, keys : SUBSET Key]]
    BY DEF Init
  <1>8. \A o \in Objects : lister[o] <= Len(Keys[o])
    BY DEF Init
  <1> QED  BY <1>2, <1>3, <1>4, <1>5, <1>6, <1>7, <1>8, Zenon DEF TypeOK, LeftInv

\* Panic and Crash.
LEMMA RestartKeeps ==
    ASSUME TypeOK, CallInv, Restart, faults' \in 0..MaxFaults
    PROVE  TypeOK' /\ CallInv'
  <1>1. /\ call' = [c \in Which |-> Idle] /\ tmp' = [c \in Which |-> NoFile]
        /\ UNCHANGED <<lister, dir, file, vol>> /\ pod' \in PodState
    BY DEF Restart, diskVars, TypeOK, PodState
  <1>2. call' \in [Which -> Call] /\ tmp' \in [Which -> File]
    BY <1>1, IdleType, ZeroVersion
  <1>3. CallInv'
    <2> SUFFICES ASSUME NEW c \in Which  PROVE CallInvOf(c)'
      BY DEF CallInv
    <2>1. call'[c] = Idle /\ tmp'[c] = NoFile
      BY <1>1
    <2> QED  BY <2>1 DEF CallInvOf, Busy, Writing, Idle
  <1> QED  BY <1>1, <1>2, <1>3, TypeFromParts DEF TypeOK

LEMMA CallerKeeps ==
    ASSUME TypeOK, CallInv, NEW c \in Which, At(c, "idle"),
           call' = [call EXCEPT ![c] = LookFrom(c, 1)], UNCHANGED <<lister, pod, dir, file, tmp, faults>>,
           vol' = vol \/ vol' = [i \in Place |-> NoDir]
    PROVE  TypeOK' /\ CallInv'
  <1>1. Others(c) /\ Moves(c)
    BY BeginsGoesOn DEF Moves
  <1>2. CallInv' /\ call' \in [Which -> Call]
    BY <1>1, CallsKept DEF Others
  <1>3. vol' \in [Place -> {NoDir, Host} \cup [dir : Dir, keys : SUBSET Key]]
    BY DEF TypeOK
  <1> QED  BY <1>2, <1>3, TypeFromParts DEF TypeOK

LEMMA TypeStep == TypeOK /\ CallInv /\ [Next]_vars => TypeOK' /\ CallInv'
  <1> SUFFICES ASSUME TypeOK, CallInv, [Next]_vars  PROVE TypeOK' /\ CallInv'
    OBVIOUS
  <1>1. ASSUME NEW o \in Objects, ObjectWritten(o)  PROVE TypeOK' /\ CallInv'
    <2>1. /\ lister[o] < Len(Keys[o]) /\ lister' = [lister EXCEPT ![o] = @ + 1]
          /\ UNCHANGED <<pod, dir, file, call, tmp, vol, faults>>
          /\ lister \in [Objects -> Version] /\ lister[o] \in Nat /\ Len(Keys[o]) \in Nat
      BY <1>1, ListerType, KeysAssumption DEF ObjectWritten, diskVars, TypeOK
    <2>2. lister[o] + 1 \in 0..Len(Keys[o]) /\ lister[o] + 1 <= Len(Keys[o])
      BY <2>1
    <2>3. lister' \in [Objects -> Version]
      BY <2>1, <2>2, KeysType
    <2>4. \A p \in Objects : lister'[p] <= Len(Keys[p])
      BY <2>1, <2>2 DEF TypeOK
    <2>5. \A p \in Objects : lister'[p] \in Nat /\ lister[p] <= lister'[p]
      BY <2>1, ListerType
    <2>6. CallInv'
      <3> SUFFICES ASSUME NEW c \in Which  PROVE CallInvOf(c)'
        BY DEF CallInv
      <3>1. CallInvOf(c) /\ call'[c] = call[c] /\ tmp'[c] = tmp[c]
        BY <2>1 DEF CallInv
      <3> QED  BY <2>5, <3>1, CallStays
    <2> QED  BY <2>1, <2>3, <2>4, <2>6, TypeFromParts DEF TypeOK
  <1>2. ASSUME NEW h \in Handlers, HandleEvent(h)  PROVE TypeOK' /\ CallInv'
    BY <1>2, CallerKeeps DEF HandleEvent, Handlers, clusterVars, diskVars
  <1>3. ASSUME NEW c \in Which, VolumesStep(c)  PROVE TypeOK' /\ CallInv'
    <2>1. Others(c) /\ CallInv'
      BY <1>3, StepMoves, CallsKept
    <2>2. /\ lister' \in [Objects -> Version] /\ \A o \in Objects : lister'[o] <= Len(Keys[o])
          /\ call' \in [Which -> Call] /\ tmp' \in [Which -> File]
      BY <2>1 DEF Others, TypeOK
    <2> QED  BY <1>3, <2>1, <2>2, DiskType, TypeFromParts
  <1>4. ASSUME NEW c \in Which, Panic(c)  PROVE TypeOK' /\ CallInv'
    BY <1>4, RestartKeeps DEF Panic, TypeOK
  <1>5. CASE CreatePod
    BY <1>5, CallerKeeps DEF CreatePod, Which, clusterVars, diskVars
  <1>6. CASE Unwatch \/ UNCHANGED vars
    <2>1. UNCHANGED <<lister, dir, file, call, tmp, vol, faults>> /\ pod' \in PodState
      BY <1>6 DEF Unwatch, diskVars, vars, clusterVars, TypeOK, PodState
    <2>2. CallInv'
      <3> SUFFICES ASSUME NEW c \in Which  PROVE CallInvOf(c)'
        BY DEF CallInv
      <3>1. CallInvOf(c) /\ call'[c] = call[c] /\ tmp'[c] = tmp[c]
        BY <2>1 DEF CallInv
      <3>2. \A p \in Objects : lister'[p] \in Nat /\ lister[p] <= lister'[p]
        BY <2>1, ListerType
      <3> QED  BY <3>1, <3>2, CallStays
    <2> QED  BY <2>1, <2>2, TypeFromParts DEF TypeOK
  <1>7. CASE Clean
    <2>1. /\ UNCHANGED <<lister, call, vol, faults>> /\ pod' \in PodState
          /\ tmp' = [c \in Which |-> NoFile]
          /\ dir' \in [Dir -> {"absent", "made", "owned"}] /\ file' \in [Dir -> [Key -> File]]
      BY <1>7, ZeroVersion DEF Clean, PodState
    <2>2. CallInv' /\ tmp' \in [Which -> File]
      <3> SUFFICES ASSUME NEW c \in Which  PROVE CallInvOf(c)'
        BY <2>1, ZeroVersion DEF CallInv
      <3>1. CallInvOf(c) /\ call'[c] = call[c] /\ tmp'[c] = NoFile
        BY <2>1 DEF CallInv
      <3>2. \A p \in Objects : lister'[p] \in Nat /\ lister[p] <= lister'[p]
        BY <2>1, ListerType
      <3> QED  BY <3>1, <3>2, CallStays
    <2> QED  BY <2>1, <2>2, TypeFromParts DEF TypeOK
  <1>8. CASE Crash
    <2>1. faults' \in 0..MaxFaults
      BY <1>8, FaultsAssumption DEF Crash, TypeOK
    <2> QED  BY <1>8, <2>1, RestartKeeps DEF Crash
  <1> QED  BY <1>1, <1>2, <1>3, <1>4, <1>5, <1>6, <1>7, <1>8 DEF Next

-----------------------------------------------------------------------------
(* Who is in which directory, and the files.                               *)

LEMMA OneCallerStep == TypeOK /\ CallInv /\ OneCaller /\ [Next]_vars => OneCaller'
  <1> SUFFICES ASSUME TypeOK, CallInv, OneCaller, [Next]_vars  PROVE OneCaller'
    OBVIOUS
  <1>0. call \in [Which -> Call]
    BY DEF TypeOK
  <1>1. ASSUME NEW o \in Objects, ObjectWritten(o)  PROVE OneCaller'
    BY <1>1 DEF OneCaller, ObjectWritten
  <1>2. ASSUME NEW h \in Handlers, HandleEvent(h)  PROVE OneCaller'
    <2>1. pod' = pod /\ pod = "watched" /\ \A e \in Which \ {h} : call'[e] = call[e]
      BY <1>0, <1>2 DEF HandleEvent, clusterVars
    <2>2. "all" \in Which \ {h}
      BY DEF Handlers, Which
    <2> QED  BY <2>1, <2>2 DEF OneCaller
  <1>3. ASSUME NEW c \in Which, VolumesStep(c)  PROVE OneCaller'
    <2>1. call[c].pc # "idle"
      BY <1>3 DEF VolumesStep, HostPath, Missing, SetupPaths, SourceDone, TempFile, Chown, Write, Rename,
             Returns, At, LooksForSource, Looks
    <2>2. \A e \in Which \ {c} : call'[e] = call[e]
      BY <1>3, StepMoves DEF Others
    <2>3. \A e \in Which : call'[e].pc # "idle" => call[e].pc # "idle"
      BY <2>1, <2>2
    <2>4. CASE pod' = pod
      BY <2>3, <2>4 DEF OneCaller, Handlers, Which
    <2>5. CASE pod' # pod
      <3>1. c = "all" /\ Returns(c) /\ pod' = "watched"
        BY <1>3, <2>5 DEF VolumesStep, HostPath, Missing, SetupPaths, SourceDone, TempFile, Chown, Write,
             Rename, Returns, clusterVars
      <3>2. call'["all"].pc = "idle"
        BY <1>0, <3>1 DEF Returns, Idle
      <3> QED  BY <3>1, <3>2 DEF OneCaller
    <2> QED  BY <2>4, <2>5
  <1>4. ASSUME NEW c \in Which, Panic(c) \/ Crash  PROVE OneCaller'
    <2>1. \A e \in Which : call'[e].pc = "idle"
      BY <1>4 DEF Panic, Crash, Restart, Idle
    <2> QED  BY <2>1 DEF OneCaller, Handlers, Which
  <1>5. CASE CreatePod
    <2>1. pod' = "creating" /\ \A h \in Handlers : call'[h].pc = call[h].pc
      BY <1>0, <1>5 DEF CreatePod, clusterVars, Handlers
    <2> QED  BY <1>5, <2>1 DEF OneCaller, CreatePod
  <1>6. CASE Unwatch
    BY <1>6 DEF OneCaller, Unwatch, At
  <1>7. CASE Clean
    BY <1>7 DEF OneCaller, Clean
  <1>8. CASE UNCHANGED vars
    BY <1>8 DEF OneCaller, vars, clusterVars
  <1> QED  BY <1>1, <1>2, <1>3, <1>4, <1>5, <1>6, <1>7, <1>8 DEF Next, Which

\* A step of volumes() does not bring a pod back that is gone.
LEMMA GoneStays ==
    ASSUME OneCaller, NEW c \in Which, VolumesStep(c)
    PROVE  pod' = "gone" <=> pod = "gone"
  BY DEF VolumesStep, HostPath, Missing, SetupPaths, SourceDone, TempFile, Chown, Write, Rename, Returns,
         clusterVars, OneCaller, At

\* A call with something to write has read a version.
LEMMA LeftHasVersion ==
    ASSUME CallInv, NEW c \in Which, call[c].left # {}
    PROVE  call[c].version # 0 /\ Busy(c) /\ TheVolume(c).type # "emptyDir"
  BY DEF CallInv, CallInvOf, KeysToWrite

LEMMA TmpMoves ==
    ASSUME TypeOK, CallInv, OneCaller, NEW c \in Which, TmpInvOf(c), VolumesStep(c)
    PROVE  TmpInvOf(c)'
  <1>1. ASSUME tmp'[c] = NoFile, call'[c].pc \notin {"chown", "write", "rename"}  PROVE TmpInvOf(c)'
    BY <1>1 DEF TmpInvOf, Writing
  <1>2. CASE Stops(c)
    BY <1>1, <1>2 DEF Stops, Idle
  <1>3. CASE GoesOn(c) \/ Reads(c)
    BY <1>1, <1>3 DEF GoesOn, Reads, Looking
  <1>4. ASSUME NEW k \in Key, TempFile(c, k), Writes(c)  PROVE TmpInvOf(c)'
    <2>1. /\ call'[c].pc = "chown" /\ tmp'[c].version = call[c].version /\ call'[c].version = call[c].version
      BY <1>4, TempFileDoes DEF Writes, Stops, Idle
    <2>2. call[c].left # {}
      BY <1>4 DEF TempFile
    <2>3. call[c].version # 0
      BY <2>2, LeftHasVersion
    <2> QED  BY <2>1, <2>3 DEF TmpInvOf, Writing, NoFile
  <1>5. CASE Chown(c) /\ Writes(c)
    <2>1. /\ call'[c].pc = "write" /\ tmp'[c].version = tmp[c].version /\ call'[c].version = call[c].version
          /\ tmp'[c].owned /\ tmp[c] # NoFile
      BY <1>5, ChownDoes DEF Writes, Stops, Idle
    <2> QED  BY <2>1 DEF TmpInvOf, Writing, NoFile
  <1>6. CASE Write(c) /\ Writes(c)
    <2>1. /\ call'[c].pc = "rename" /\ tmp'[c].version = call[c].version /\ call'[c].version = call[c].version
          /\ tmp'[c].whole /\ tmp'[c].owned = tmp[c].owned /\ call[c].pc = "write"
      <3>1. ~Stops(c) /\ call'[c].version = call[c].version /\ call[c].pc = "write"
        BY <1>6 DEF Writes, Stops, Idle, Write, At
      <3> QED  BY <1>6, <3>1, WriteDoes
    <2>2. pod' # "gone" => tmp[c].owned
      BY <1>6, <2>1, GoneStays DEF TmpInvOf, VolumesStep
    <2> QED  BY <2>1, <2>2 DEF TmpInvOf, Writing, NoFile
  <1>7. CASE Rename(c) /\ Writes(c)
    BY <1>1, <1>7, RenameDoes DEF Writes, Stops, Idle
  <1>8. Moves(c)
    BY StepMoves
  <1>9. Writes(c) => Chown(c) \/ Write(c) \/ Rename(c) \/ (\E k \in Key : TempFile(c, k)) \/ GoesOn(c)
    BY SourceDoneGoesOn DEF Writes, Busy, VolumesStep, HostPath, Missing, SetupPaths, Returns, At,
       LooksForSource, Looks
  <1> QED  BY <1>2, <1>3, <1>4, <1>5, <1>6, <1>7, <1>8, <1>9 DEF Moves

LEMMA TmpStays ==
    ASSUME NEW c \in Which, TmpInvOf(c), call'[c] = call[c], tmp'[c] = tmp[c], pod' = "gone" <=> pod = "gone"
    PROVE  TmpInvOf(c)'
  BY DEF TmpInvOf, Writing

LEMMA TmpIdle ==
    ASSUME NEW c \in Which, tmp'[c] = NoFile, call'[c].pc \in {"idle", "look"} \/ pod' = "gone"
    PROVE  TmpInvOf(c)'
  BY DEF TmpInvOf, Writing

LEMMA TmpStep == TypeOK /\ CallInv /\ OneCaller /\ TmpInv /\ [Next]_vars => TmpInv'
  <1> SUFFICES ASSUME TypeOK, CallInv, OneCaller, TmpInv, [Next]_vars, NEW e \in Which
               PROVE  TmpInvOf(e)'
    BY DEF TmpInv
  <1>0. TmpInvOf(e)
    BY DEF TmpInv
  <1>1. ASSUME UNCHANGED <<call, tmp>>, pod' = "gone" <=> pod = "gone"  PROVE TmpInvOf(e)'
    BY <1>0, <1>1, TmpStays
  <1>2. ASSUME NEW o \in Objects, ObjectWritten(o)  PROVE TmpInvOf(e)'
    BY <1>1, <1>2 DEF ObjectWritten
  <1>3. ASSUME NEW c \in Which, At(c, "idle"), call' = [call EXCEPT ![c] = LookFrom(c, 1)],
               UNCHANGED <<lister, pod, tmp>>
        PROVE  TmpInvOf(e)'
    <2>1. Others(c) /\ GoesOn(c)
      BY <1>3, BeginsGoesOn
    <2>2. CASE e = c
      BY <2>1, <2>2, TmpIdle DEF GoesOn, Looking
    <2>3. CASE e # c
      BY <1>0, <1>3, <2>1, <2>3, TmpStays DEF Others
    <2> QED  BY <2>2, <2>3
  <1>4. ASSUME NEW h \in Handlers, HandleEvent(h)  PROVE TmpInvOf(e)'
    BY <1>3, <1>4 DEF HandleEvent, Handlers, clusterVars
  <1>5. CASE CreatePod
    BY <1>3, <1>5 DEF CreatePod, Which, clusterVars
  <1>6. ASSUME NEW c \in Which, VolumesStep(c)  PROVE TmpInvOf(e)'
    <2>1. CASE e = c
      BY <1>0, <1>6, <2>1, TmpMoves
    <2>2. CASE e # c
      BY <1>0, <1>6, <2>2, StepMoves, GoneStays, TmpStays DEF Others
    <2> QED  BY <2>1, <2>2
  <1>7. ASSUME Restart  PROVE TmpInvOf(e)'
    BY <1>7, TmpIdle DEF Restart, Idle
  <1>8. CASE Clean
    BY <1>8, TmpIdle DEF Clean
  <1>9. CASE Unwatch \/ UNCHANGED vars
    BY <1>1, <1>9 DEF Unwatch, vars, clusterVars
  <1> QED  BY <1>2, <1>4, <1>5, <1>6, <1>7, <1>8, <1>9 DEF Next, Panic, Crash

\* volumes() takes no directory away and no file.
LEMMA DiskKeeps ==
    ASSUME TypeOK, CallInv, NEW c \in Which, VolumesStep(c)
    PROVE  \A d \in Dir : /\ dir[d] = "owned" => dir'[d] = "owned"
                          /\ \A k \in Key : file[d][k] # NoFile => file'[d][k] # NoFile
  <1>0. dir \in [Dir -> {"absent", "made", "owned"}] /\ file \in [Dir -> [Key -> File]]
    BY DEF TypeOK
  <1>1. \A d \in Dir : dir[d] = "owned" => dir'[d] = "owned"
    <2>1. CASE SetupPaths(c)
      BY <1>0, <2>1, SetupPathsDoes
    <2>2. CASE ~SetupPaths(c)
      BY <2>2 DEF VolumesStep, HostPath, Missing, SourceDone, TempFile, Chown, Write, Rename, Returns,
           diskVars
    <2> QED  BY <2>1, <2>2
  <1>2. \A d \in Dir : \A k \in Key : file[d][k] # NoFile => file'[d][k] # NoFile
    <2>1. CASE Rename(c) /\ file' # file
      <3>1. /\ TheDir(c) \in Dir /\ call[c].key \in Key /\ tmp[c] # NoFile
            /\ file' = [file EXCEPT ![TheDir(c)][call[c].key] = tmp[c]]
        BY <2>1, RenameDoes
      <3>2. ASSUME NEW e \in Dir, NEW q \in Key, NEW f, f # NoFile,
                   NEW d \in Dir, NEW k \in Key, file[d][k] # NoFile
            PROVE  [file EXCEPT ![e][q] = f][d][k] # NoFile
        BY <1>0, <3>2
      <3> QED  BY <3>1, <3>2
    <2>2. CASE file' = file
      BY <2>2
    <2>3. file' = file \/ Rename(c)
      BY DEF VolumesStep, HostPath, Missing, SetupPaths, SourceDone, TempFile, Chown, Write, Returns, diskVars
    <2> QED  BY <2>1, <2>2, <2>3
  <1> QED  BY <1>1, <1>2

\* What a renamed file is.
LEMMA RenameWrites ==
    ASSUME TypeOK, CallInv, NEW c \in Which, VolumesStep(c)
    PROVE  \A d \in Dir : \A k \in Key :
              \/ file'[d][k] = file[d][k]
              \/ /\ Rename(c) /\ d = TheDir(c) /\ k = call[c].key
                 /\ tmp[c] # NoFile /\ file'[d][k] = tmp[c] /\ Writing(c) /\ Busy(c)
  <1>0. file \in [Dir -> [Key -> File]]
    BY DEF TypeOK
  <1>1. CASE Rename(c) /\ file' # file
    <2>1. /\ TheDir(c) \in Dir /\ call[c].key \in Key /\ tmp[c] # NoFile /\ Writing(c) /\ Busy(c)
          /\ file' = [file EXCEPT ![TheDir(c)][call[c].key] = tmp[c]]
      BY <1>1, RenameDoes DEF Writing, Busy
    <2>2. ASSUME NEW e \in Dir, NEW q \in Key, NEW f, NEW d \in Dir, NEW k \in Key
          PROVE  \/ [file EXCEPT ![e][q] = f][d][k] = file[d][k]
                 \/ d = e /\ k = q /\ [file EXCEPT ![e][q] = f][d][k] = f
      BY <1>0, <2>2
    <2> QED  BY <1>1, <2>1, <2>2
  <1>2. CASE file' = file
    BY <1>2
  <1>3. file' = file \/ Rename(c)
    BY DEF VolumesStep, HostPath, Missing, SetupPaths, SourceDone, TempFile, Chown, Write, Returns, diskVars
  <1> QED  BY <1>1, <1>2, <1>3

LEMMA WholeStep == TypeOK /\ CallInv /\ OneCaller /\ TmpInv /\ FilesAreWhole /\ [Next]_vars => FilesAreWhole'
  <1> SUFFICES ASSUME TypeOK, CallInv, OneCaller, TmpInv, FilesAreWhole, [Next]_vars, pod' # "gone",
                      NEW d \in Dir, NEW k \in Key, file'[d][k] # NoFile
               PROVE  file'[d][k].whole /\ file'[d][k].owned
    BY DEF FilesAreWhole
  <1>1. CASE file' = file /\ pod # "gone"
    BY <1>1 DEF FilesAreWhole
  <1>2. ASSUME NEW c \in Which, VolumesStep(c)  PROVE file'[d][k].whole /\ file'[d][k].owned
    <2>1. pod # "gone"
      BY <1>2, GoneStays
    <2>2. CASE file'[d][k] = file[d][k]
      BY <2>1, <2>2 DEF FilesAreWhole
    <2>3. CASE Rename(c) /\ file'[d][k] = tmp[c]
      <3>1. tmp[c].whole /\ tmp[c].owned
        BY <2>1, <2>3 DEF TmpInv, TmpInvOf, Rename, At
      <3> QED  BY <2>3, <3>1
    <2> QED  BY <1>2, <2>2, <2>3, RenameWrites
  <1>3. \/ \E c \in Which : VolumesStep(c)
        \/ file' = file /\ pod # "gone"
    <2>1. CASE \E o \in Objects : ObjectWritten(o)
      BY <2>1 DEF ObjectWritten, diskVars
    <2>2. CASE \E h \in Handlers : HandleEvent(h)
      BY <2>2 DEF HandleEvent, diskVars, clusterVars
    <2>3. CASE \E c \in Which : VolumesStep(c)
      BY <2>3
    <2>4. CASE (\E c \in Which : Panic(c)) \/ Crash
      BY <2>4 DEF Panic, Crash, Restart, diskVars
    <2>5. CASE CreatePod \/ Unwatch \/ Clean \/ UNCHANGED vars
      BY <2>5 DEF CreatePod, Unwatch, Clean, vars, diskVars, clusterVars
    <2> QED  BY <2>1, <2>2, <2>3, <2>4, <2>5 DEF Next
  <1> QED  BY <1>1, <1>2, <1>3

\* A call in its directory, after a step of its own.
LEMMA DirMoves ==
    ASSUME TypeOK, CallInv, NEW c \in Which, DirInvOf(c), VolumesStep(c)
    PROVE  DirInvOf(c)'
  <1>1. CASE Stops(c) \/ GoesOn(c)
    BY <1>1 DEF Stops, GoesOn, Looking, Idle, DirInvOf, Busy
  <1>2. CASE Reads(c)
    <2>1. TheDir(c)' = TheDir(c) /\ KeysToWrite(c, call[c].version)' = call'[c].left
      BY <1>2 DEF Reads, TheDir, TheVolume, TheSource, KeysToWrite
    <2>2. dir'[TheDir(c)] = "owned"
      BY <1>2 DEF Reads
    <2> QED  BY <2>1, <2>2 DEF DirInvOf
  <1>3. CASE Writes(c) /\ ~GoesOn(c)
    <2>1. /\ TheDir(c)' = TheDir(c)
          /\ KeysToWrite(c, call[c].version)' = KeysToWrite(c, call[c].version)
          /\ Busy(c) /\ TheDir(c) \in Dir
      BY <1>3, BusyType DEF Writes, TheDir, TheVolume, TheSource, KeysToWrite
    <2>2. dir'[TheDir(c)] = "owned"
      BY <2>1, DiskKeeps DEF DirInvOf
    <2>3. ASSUME NEW k \in KeysToWrite(c, call[c].version) \ call'[c].left, k \in Key
          PROVE  file'[TheDir(c)][k] # NoFile
      <3>1. CASE k \notin call[c].left
        BY <2>1, <2>3, <3>1, DiskKeeps DEF DirInvOf
      <3>2. CASE k \in call[c].left
        <4>1. Rename(c) /\ k = call[c].key
          <5>1. call'[c].left # call[c].left
            BY <2>3, <3>2
          <5>2. ~Stops(c)
            BY <1>3 DEF Stops, Writes, Idle
          <5> QED  BY <1>3, <2>3, <3>2, <5>1, <5>2, TempFileDoes, ChownDoes, WriteDoes, RenameDoes, SourceDoneGoesOn
                   DEF VolumesStep, Writes, Busy, HostPath, Missing, SetupPaths, Returns, At,
                       LooksForSource, Looks
        <4>2. /\ tmp[c] # NoFile /\ file' = [file EXCEPT ![TheDir(c)][call[c].key] = tmp[c]]
          BY <1>3, <4>1, RenameDoes DEF Stops, Writes, Idle
        <4>3. file \in [Dir -> [Key -> File]]
          BY DEF TypeOK
        <4>4. ASSUME NEW e \in Dir, NEW f  PROVE [file EXCEPT ![e][k] = f][e][k] = f
          BY <2>3, <4>3
        <4> QED  BY <2>1, <4>1, <4>2, <4>4
      <3> QED  BY <3>1, <3>2
    <2>4. KeysToWrite(c, call[c].version) \subseteq Key
      BY <2>1, KeysAreKeys
    <2>5. ASSUME NEW k \in KeysToWrite(c, call[c].version)' \ call'[c].left
          PROVE  file'[TheDir(c)'][k] # NoFile
      BY <2>1, <2>3, <2>4, <2>5
    <2> QED  BY <2>1, <2>2, <2>5 DEF DirInvOf
  <1> QED  BY <1>1, <1>2, <1>3, StepMoves DEF Moves

LEMMA DirStays ==
    ASSUME TypeOK, CallInv, NEW c \in Which, DirInvOf(c), call'[c] = call[c],
           \A d \in Dir : /\ dir[d] = "owned" => dir'[d] = "owned"
                          /\ \A k \in Key : file[d][k] # NoFile => file'[d][k] # NoFile
    PROVE  DirInvOf(c)'
  <1>1. /\ TheDir(c)' = TheDir(c) /\ (Busy(c)' <=> Busy(c))
        /\ KeysToWrite(c, call[c].version)' = KeysToWrite(c, call[c].version)
    BY DEF TheDir, TheVolume, TheSource, KeysToWrite, Busy
  <1>2. Busy(c) => TheDir(c) \in Dir /\ KeysToWrite(c, call[c].version) \subseteq Key
    BY BusyType, KeysAreKeys
  <1> QED  BY <1>1, <1>2 DEF DirInvOf

LEMMA DirStep == TypeOK /\ CallInv /\ OneCaller /\ DirInv /\ [Next]_vars => DirInv'
  <1> SUFFICES ASSUME TypeOK, CallInv, OneCaller, DirInv, [Next]_vars, pod' # "gone", NEW e \in Which
               PROVE  DirInvOf(e)'
    BY DEF DirInv
  <1>1. ASSUME UNCHANGED <<call, dir, file>>, pod # "gone"  PROVE DirInvOf(e)'
    <2>1. DirInvOf(e)
      BY <1>1 DEF DirInv
    <2> QED  BY <1>1, <2>1, DirStays
  <1>2. ASSUME NEW o \in Objects, ObjectWritten(o)  PROVE DirInvOf(e)'
    BY <1>1, <1>2 DEF ObjectWritten, diskVars
  <1>3. ASSUME NEW c \in Which, At(c, "idle"), call' = [call EXCEPT ![c] = LookFrom(c, 1)],
               UNCHANGED <<lister, pod, dir, file, tmp>>
        PROVE  DirInvOf(e)'
    <2>1. Others(c) /\ GoesOn(c)
      BY <1>3, BeginsGoesOn
    <2>2. CASE e = c
      BY <2>1, <2>2 DEF GoesOn, Looking, DirInvOf, Busy
    <2>3. CASE e # c
      <3>1. DirInvOf(e) /\ call'[e] = call[e]
        BY <1>3, <2>1, <2>3 DEF DirInv, Others
      <3> QED  BY <1>3, <3>1, DirStays
    <2> QED  BY <2>2, <2>3
  <1>4. ASSUME NEW h \in Handlers, HandleEvent(h)  PROVE DirInvOf(e)'
    BY <1>3, <1>4 DEF HandleEvent, Handlers, clusterVars, diskVars
  <1>5. CASE CreatePod
    BY <1>3, <1>5 DEF CreatePod, Which, clusterVars, diskVars
  <1>6. ASSUME NEW c \in Which, VolumesStep(c)  PROVE DirInvOf(e)'
    <2>1. DirInvOf(e)
      BY <1>6, GoneStays DEF DirInv
    <2>2. CASE e = c
      BY <1>6, <2>1, <2>2, DirMoves
    <2>3. CASE e # c
      <3>1. call'[e] = call[e]
        BY <1>6, <2>3, StepMoves DEF Others
      <3> QED  BY <1>6, <2>1, <3>1, DiskKeeps, DirStays
    <2> QED  BY <2>2, <2>3
  <1>7. ASSUME Restart  PROVE DirInvOf(e)'
    BY <1>7 DEF Restart, Idle, DirInvOf, Busy
  <1>8. ~Clean
    BY DEF Clean
  <1>9. CASE Unwatch \/ UNCHANGED vars
    BY <1>1, <1>9 DEF Unwatch, vars, clusterVars, diskVars
  <1> QED  BY <1>2, <1>4, <1>5, <1>6, <1>7, <1>8, <1>9 DEF Next, Panic, Crash

\* Neither of the two stands for a directory.
LEMMA NoDirIsNone ==
    /\ NoDir # Host /\ NoDir.keys = {} /\ Host.keys = {} /\ Host.dir = <<"host", 0>>
    /\ \A v \in [dir : Dir, keys : SUBSET Key] : v # NoDir /\ v # Host
  <1>1. ASSUME NEW v \in [dir : Dir, keys : SUBSET Key]  PROVE v # NoDir /\ v # Host
    <2>1. v.dir \in Dir
      OBVIOUS
    <2>2. v.dir[1] \in {"emptydirs", "configmaps", "secrets"}
      BY <2>1 DEF Dir
    <2> QED  BY <2>2 DEF NoDir, Host
  <1> QED  BY <1>1 DEF NoDir, Host

LEMMA VolChanges ==
    ASSUME TypeOK, CallInv, NEW c \in Which, VolumesStep(c)
    PROVE  \/ vol' = vol
           \/ c = "all" /\ HostPath(c) /\ vol' = [vol EXCEPT ![call[c].i] = Host]
           \/ /\ c = "all" /\ SourceDone(c)
              /\ vol' = [vol EXCEPT ![call[c].i] =
                            [dir |-> TheDir(c), keys |-> KeysToWrite(c, call[c].version)]]
  <1>1. CASE HostPath(c)
    <2>1. Handles(c, "hostPath")
      BY <1>1 DEF HostPath, Looks, At, CallInv, CallInvOf
    <2>2. c = "all"
      BY <2>1 DEF Handles
    <2> QED  BY <1>1, <2>2 DEF HostPath
  <1>2. CASE SourceDone(c)
    BY <1>2 DEF SourceDone
  <1>3. CASE ~HostPath(c) /\ ~SourceDone(c)
    BY <1>3, MissingDoes, SetupPathsDoes, TempFileDoes, ChownDoes, WriteDoes, RenameDoes, ReturnsStops
       DEF VolumesStep
  <1> QED  BY <1>1, <1>2, <1>3

LEMMA VolStep == TypeOK /\ CallInv /\ OneCaller /\ DirInv /\ VolInv /\ [Next]_vars => VolInv'
  <1> SUFFICES ASSUME TypeOK, CallInv, OneCaller, DirInv, VolInv, [Next]_vars, NEW i \in Place
               PROVE  /\ vol'[i] = Host => Vols[i].type = "hostPath"
                      /\ pod' # "gone" /\ vol'[i] \notin {NoDir, Host} =>
                           /\ vol'[i].dir \in Dir /\ dir'[vol'[i].dir] = "owned"
                           /\ \A k \in vol'[i].keys : file'[vol'[i].dir][k] # NoFile
    BY DEF VolInv
  <1> DEFINE Goal == /\ vol'[i] = Host => Vols[i].type = "hostPath"
                     /\ pod' # "gone" /\ vol'[i] \notin {NoDir, Host} =>
                          /\ vol'[i].dir \in Dir /\ dir'[vol'[i].dir] = "owned"
                          /\ \A k \in vol'[i].keys : file'[vol'[i].dir][k] # NoFile
  <1>0. vol[i] \in {NoDir, Host} \cup [dir : Dir, keys : SUBSET Key]
    BY DEF TypeOK
  <1>1. ASSUME vol'[i] = vol[i], pod' # "gone" => pod # "gone",
               pod' # "gone" =>
               \A d \in Dir : /\ dir[d] = "owned" => dir'[d] = "owned"
                              /\ \A k \in Key : file[d][k] # NoFile => file'[d][k] # NoFile
        PROVE  Goal
    <2>1. vol[i] = Host => Vols[i].type = "hostPath"
      BY DEF VolInv
    <2>2. ASSUME pod' # "gone", vol[i] \notin {NoDir, Host}
          PROVE  /\ vol[i].dir \in Dir /\ dir'[vol[i].dir] = "owned"
                 /\ \A k \in vol[i].keys : file'[vol[i].dir][k] # NoFile
      <3>1. /\ vol[i].dir \in Dir /\ dir[vol[i].dir] = "owned" /\ vol[i].keys \subseteq Key
            /\ \A k \in vol[i].keys : file[vol[i].dir][k] # NoFile
        BY <1>0, <1>1, <2>2 DEF VolInv
      <3> QED  BY <1>1, <2>2, <3>1
    <2> QED  BY <1>1, <2>1, <2>2
  <1>2. ASSUME UNCHANGED <<vol, dir, file>>, pod' # "gone" => pod # "gone"  PROVE Goal
    BY <1>1, <1>2
  <1>3. ASSUME NEW c \in Which, VolumesStep(c)  PROVE Goal
    <2>1. (pod' # "gone" => pod # "gone") /\ vol \in [Place -> {NoDir, Host} \cup [dir : Dir, keys : SUBSET Key]]
      BY <1>3, GoneStays DEF TypeOK
    <2>2. CASE vol'[i] = vol[i]
      BY <1>1, <1>3, <2>1, <2>2, DiskKeeps
    <2>3. CASE vol'[i] # vol[i] /\ HostPath(c) /\ vol' = [vol EXCEPT ![call[c].i] = Host]
      <3>1. i = call[c].i /\ vol'[i] = Host
        BY <2>1, <2>3
      <3>2. Vols[i].type = "hostPath"
        BY <2>3, <3>1 DEF HostPath, Looks, TheVolume
      <3> QED  BY <3>1, <3>2
    <2>4. CASE /\ vol'[i] # vol[i] /\ SourceDone(c)
               /\ vol' = [vol EXCEPT ![call[c].i] =
                             [dir |-> TheDir(c), keys |-> KeysToWrite(c, call[c].version)]]
      <3>1. i = call[c].i /\ vol'[i] = [dir |-> TheDir(c), keys |-> KeysToWrite(c, call[c].version)]
        BY <2>1, <2>4
      <3>2. Busy(c) /\ call[c].left = {} /\ UNCHANGED <<dir, file>>
        BY <2>4 DEF SourceDone, Busy, At, diskVars
      <3>3. TheDir(c) \in Dir /\ KeysToWrite(c, call[c].version) \subseteq Key
        BY <3>2, BusyType, KeysAreKeys
      <3>4. vol'[i] # Host
        BY <3>1, <3>3, NoDirIsNone
      <3>5. pod' # "gone" => /\ dir[TheDir(c)] = "owned"
                             /\ \A k \in KeysToWrite(c, call[c].version) : file[TheDir(c)][k] # NoFile
        BY <2>1, <3>2 DEF DirInv, DirInvOf
      <3> QED  BY <3>1, <3>2, <3>3, <3>4, <3>5
    <2> QED  BY <1>3, <2>2, <2>3, <2>4, VolChanges
  <1>4. CASE CreatePod
    <2>1. vol'[i] = NoDir
      BY <1>4 DEF CreatePod
    <2> QED  BY <2>1, NoDirIsNone
  <1>5. CASE Clean
    <2>1. vol'[i] = vol[i] /\ pod' = "gone"
      BY <1>5 DEF Clean
    <2> QED  BY <2>1 DEF VolInv
  <1>6. ASSUME NEW o \in Objects, ObjectWritten(o)  PROVE Goal
    BY <1>2, <1>6 DEF ObjectWritten, diskVars
  <1>7. ASSUME NEW h \in Handlers, HandleEvent(h)  PROVE Goal
    BY <1>2, <1>7 DEF HandleEvent, clusterVars, diskVars
  <1>8. ASSUME Restart  PROVE Goal
    BY <1>2, <1>8 DEF Restart, diskVars
  <1>9. CASE Unwatch \/ UNCHANGED vars
    BY <1>2, <1>9 DEF Unwatch, vars, clusterVars, diskVars
  <1> QED  BY <1>3, <1>4, <1>5, <1>6, <1>7, <1>8, <1>9 DEF Next, Panic, Crash

-----------------------------------------------------------------------------
(* No required source is passed over.                                      *)

\* What a type invariant says of the numbers of a call.
LEMMA PlaceType ==
    ASSUME TypeOK, NEW c \in Which
    PROVE  call[c].i \in Nat /\ call[c].i <= Len(Vols) + 1 /\ call[c].s \in Nat /\ call[c].s >= 1
           /\ call[c].version \in Nat
  <1>1. call[c] \in Call /\ Len(Vols) \in Nat
    BY VolsType DEF TypeOK
  <1>2. call[c].i \in 1..(Len(Vols) + 1) /\ call[c].s \in Nat \ {0} /\ call[c].version \in Version
    BY <1>1 DEF Call
  <1>3. call[c].i \in Nat /\ call[c].i <= Len(Vols) + 1
    BY <1>1, <1>2
  <1>4. call[c].s \in Nat /\ call[c].s >= 1
    BY <1>2
  <1>5. call[c].version \in Nat
    BY <1>2, ZeroVersion
  <1> QED  BY <1>3, <1>4, <1>5

LEMMA NothingPassed ==
    ASSUME NEW i \in 1..(Len(Vols) + 1), NEW j \in Place, NEW s \in DOMAIN Vols[j].sources,
           j < NextPlace("all", i)
    PROVE  j < i
  <1>1. Handles("all", Vols[j].type)
    BY DEF Handles
  <1>2. Vols[j].sources # <<>>
    OBVIOUS
  <1>3. i <= j => j \in Ahead("all", i)
    BY <1>1, <1>2 DEF Ahead
  <1>4. ~(i <= j)
    BY <1>3, NextPlaceType
  <1> QED  BY <1>4, VolsType DEF Place

LEMMA BehindGrows ==
    ASSUME TypeOK, CallInv, call["all"].pc # "idle", call["all"].i \in Place, pod' = pod, pod = "creating",
           call'["all"] = NextSource("all"),
           NEW j \in Place, NEW s \in DOMAIN Vols[j].sources, Behind(j, s)'
    PROVE  Behind(j, s) \/ (j = call["all"].i /\ s = call["all"].s)
  <1> DEFINE i == call["all"].i
             S == call["all"].s
  <1>1. "all" \in Which /\ CallInvOf("all")
    BY DEF Which, CallInv
  <1>2. i \in Nat /\ S \in Nat /\ s \in Nat /\ s >= 1 /\ j \in Nat /\ i + 1 \in 1..(Len(Vols) + 1)
    BY <1>1, PlaceType, VolsType DEF Place
  <1>3. j < NextSource("all").i \/ (j = NextSource("all").i /\ s < NextSource("all").s)
    BY DEF Behind
  <1>4. \/ /\ NextSource("all").i = i /\ NextSource("all").s = S + 1
        \/ /\ NextSource("all").i = NextPlace("all", i + 1) /\ NextSource("all").s = 1
           /\ \A t \in DOMAIN TheVolume("all").sources : t <= S
    BY <1>1, NextSourceLooks
  <1>5. CASE NextSource("all").i = i /\ NextSource("all").s = S + 1
    <2>1. j < i \/ (j = i /\ s < S) \/ (j = i /\ s = S)
      BY <1>2, <1>3, <1>5
    <2> QED  BY <2>1 DEF Behind
  <1>6. CASE /\ NextSource("all").i = NextPlace("all", i + 1) /\ NextSource("all").s = 1
             /\ \A t \in DOMAIN TheVolume("all").sources : t <= S
    <2>1. j < NextPlace("all", i + 1)
      BY <1>2, <1>3, <1>6
    <2>2. j < i + 1
      BY <1>2, <2>1, NothingPassed
    <2>3. j = i => s <= S
      BY <1>6 DEF TheVolume
    <2>4. j < i \/ (j = i /\ s < S) \/ (j = i /\ s = S)
      BY <1>2, <2>2, <2>3
    <2> QED  BY <2>4 DEF Behind
  <1> QED  BY <1>4, <1>5, <1>6

\* As long as CreatePod's call stays at its source nothing more is behind it.
LEMMA BehindStays ==
    ASSUME call'["all"].i = call["all"].i, call'["all"].s = call["all"].s,
           call'["all"].pc # "idle" => call["all"].pc # "idle",
           pod' \in {"watched", "forgotten"} => pod \in {"watched", "forgotten"},
           NEW j \in Place, NEW s, Behind(j, s)'
    PROVE  Behind(j, s)
  BY DEF Behind

LEMMA RequiredStep == TypeOK /\ CallInv /\ OneCaller /\ RequiredInv /\ [Next]_vars => RequiredInv'
  <1> SUFFICES ASSUME TypeOK, CallInv, OneCaller, RequiredInv, [Next]_vars, NEW j \in Place,
                      NEW s \in DOMAIN Vols[j].sources, Required(Vols[j].sources[s]), Behind(j, s)'
               PROVE  vol'[j] # NoDir
    BY DEF RequiredInv
  <1>0. "all" \in Which /\ vol \in [Place -> {NoDir, Host} \cup [dir : Dir, keys : SUBSET Key]]
        /\ call \in [Which -> Call]
    BY DEF Which, TypeOK
  <1>1. Behind(j, s) => vol[j] # NoDir
    BY DEF RequiredInv
  <1>2. ASSUME UNCHANGED vol, call'["all"] = call["all"],
               pod' \in {"watched", "forgotten"} => pod \in {"watched", "forgotten"}
        PROVE  vol'[j] # NoDir
    BY <1>1, <1>2, BehindStays
  <1>3. ASSUME NEW o \in Objects, ObjectWritten(o)  PROVE vol'[j] # NoDir
    BY <1>2, <1>3 DEF ObjectWritten
  <1>4. ASSUME NEW h \in Handlers, HandleEvent(h)  PROVE vol'[j] # NoDir
    BY <1>0, <1>2, <1>4 DEF HandleEvent, Handlers, clusterVars
  <1>5. CASE CreatePod
    <2>1. Others("all") /\ call'["all"] = LookFrom("all", 1)
      BY <1>0, <1>5, BeginsGoesOn DEF CreatePod, clusterVars
    <2>2. call'["all"].i = NextPlace("all", 1) /\ call'["all"].s = 1
      BY <1>0, <2>1, LookFromLooks, VolsType
    <2>3. s \in Nat /\ s >= 1 /\ j \in Nat /\ j >= 1 /\ 1 \in 1..(Len(Vols) + 1)
      BY VolsType DEF Place
    <2>4. j < NextPlace("all", 1)
      BY <1>5, <2>2, <2>3 DEF Behind, CreatePod, clusterVars
    <2>5. j < 1
      BY <2>3, <2>4, NothingPassed
    <2> QED  BY <2>3, <2>5
  <1>6. CASE VolumesStep("all")
    <2>0. call["all"].pc # "idle" /\ pod = "creating"
      BY <1>6 DEF OneCaller, VolumesStep, HostPath, Missing, SetupPaths, SourceDone, TempFile, Chown, Write,
           Rename, Returns, At, LooksForSource, Looks
    <2>1. CASE HostPath("all")
      <3>1. call'["all"] = NextVolume("all") /\ pod' = pod /\ call["all"].i \in Place
            /\ vol' = [vol EXCEPT ![call["all"].i] = Host] /\ TheVolume("all").type = "hostPath"
        BY <1>0, <2>1 DEF HostPath, Looks, clusterVars
      <3>2. TheVolume("all").sources = <<>>
        BY <3>1, VolsAssumption DEF TheVolume
      <3>3. NextSource("all") = NextVolume("all")
        BY <1>0, <3>2, PlaceType DEF NextSource
      <3>4. Behind(j, s) \/ j = call["all"].i
        BY <2>0, <3>1, <3>3, BehindGrows
      <3>5. CASE j = call["all"].i
        BY <3>2, <3>5 DEF TheVolume
      <3>6. CASE j # call["all"].i
        BY <1>0, <1>1, <3>1, <3>4, <3>6
      <3> QED  BY <3>5, <3>6
    <2>2. CASE Missing("all")
      <3>1. pod' = pod /\ call["all"].i \in Place /\ vol' = vol
        BY <1>0, <2>2, MissingDoes DEF Missing, LooksForSource, Looks, clusterVars
      <3>2. CASE Stops("all")
        BY <2>0, <3>1, <3>2 DEF Behind, Stops, Idle
      <3>3. CASE call'["all"] = NextSource("all") /\ ~Required(TheSource("all"))
        <4>1. Behind(j, s) \/ (j = call["all"].i /\ s = call["all"].s)
          BY <2>0, <3>1, <3>3, BehindGrows
        <4>2. ~(j = call["all"].i /\ s = call["all"].s)
          BY <3>3 DEF TheSource, TheVolume
        <4> QED  BY <1>1, <3>1, <4>1, <4>2
      <3> QED  BY <1>0, <2>2, <3>2, <3>3, MissingDoes
    <2>3. CASE SourceDone("all")
      <3>1. /\ call'["all"] = NextSource("all") /\ pod' = pod /\ Busy("all")
            /\ vol' = [vol EXCEPT ![call["all"].i] =
                          [dir |-> TheDir("all"), keys |-> KeysToWrite("all", call["all"].version)]]
        BY <1>0, <2>3, SourceDoneGoesOn DEF SourceDone, clusterVars, Busy, At
      <3>2. call["all"].i \in Place /\ TheDir("all") \in Dir
            /\ KeysToWrite("all", call["all"].version) \subseteq Key
        BY <1>0, <3>1, BusyType, KeysAreKeys
      <3>3. CASE j = call["all"].i
        <4>1. vol'[j] = [dir |-> TheDir("all"), keys |-> KeysToWrite("all", call["all"].version)]
          BY <1>0, <3>1, <3>2, <3>3
        <4> QED  BY <3>2, <4>1, NoDirIsNone
      <3>4. CASE j # call["all"].i
        <4>1. Behind(j, s)
          BY <2>0, <3>1, <3>2, <3>4, BehindGrows
        <4> QED  BY <1>0, <1>1, <3>1, <3>4, <4>1
      <3> QED  BY <3>3, <3>4
    <2>4. CASE Returns("all")
      <3>1. vol' = vol /\ call["all"].i > Len(Vols)
        BY <2>4 DEF Returns
      <3>2. j < call["all"].i
        BY <1>0, <3>1, PlaceType, VolsType DEF Place
      <3> QED  BY <1>1, <2>0, <3>1, <3>2 DEF Behind
    <2>5. ASSUME \/ SetupPaths("all") \/ Chown("all") \/ Write("all") \/ Rename("all")
                 \/ \E k \in Key : TempFile("all", k)
          PROVE  vol'[j] # NoDir
      <3>1. pod' = pod
        BY <2>5 DEF SetupPaths, Chown, Write, Rename, TempFile, clusterVars
      <3>2. vol' = vol /\ (Stops("all") \/ Reads("all") \/ Writes("all"))
        BY <1>0, <2>5, SetupPathsDoes, ChownDoes, WriteDoes, RenameDoes, TempFileDoes
      <3>3. CASE Stops("all")
        BY <2>0, <3>1, <3>3 DEF Behind, Stops, Idle
      <3>4. CASE Reads("all") \/ Writes("all")
        <4>1. call'["all"].i = call["all"].i /\ call'["all"].s = call["all"].s
          BY <3>4 DEF Reads, Writes
        <4> QED  BY <1>1, <2>0, <3>1, <3>2, <4>1, BehindStays
      <3> QED  BY <3>2, <3>3, <3>4
    <2> QED  BY <1>6, <2>1, <2>2, <2>3, <2>4, <2>5 DEF VolumesStep
  <1>7. ASSUME NEW c \in Which \ {"all"}, VolumesStep(c)  PROVE vol'[j] # NoDir
    <2>1. call'["all"] = call["all"] /\ vol' = vol
      BY <1>0, <1>7, StepMoves, VolChanges DEF Others
    <2>2. pod' = pod
      BY <1>7 DEF VolumesStep, HostPath, Missing, SetupPaths, SourceDone, TempFile, Chown, Write, Rename,
           Returns, clusterVars
    <2> QED  BY <1>2, <2>1, <2>2
  <1>8. ASSUME Restart  PROVE vol'[j] # NoDir
    <2>1. call'["all"].pc = "idle" /\ vol' = vol
          /\ (pod' \in {"watched", "forgotten"} => pod \in {"watched", "forgotten"})
      BY <1>0, <1>8 DEF Restart, Idle
    <2> QED  BY <1>1, <2>1 DEF Behind
  <1>9. CASE Unwatch
    BY <1>9 DEF Unwatch, At, Behind
  <1>10. CASE Clean \/ UNCHANGED vars
    BY <1>2, <1>10 DEF Clean, vars, clusterVars
  <1> QED  BY <1>3, <1>4, <1>5, <1>6, <1>7, <1>8, <1>9, <1>10 DEF Next, Panic, Crash

-----------------------------------------------------------------------------
(* Versions.                                                               *)

LEMMA FileType ==
    ASSUME TypeOK, NEW d \in Dir, NEW k \in Key
    PROVE  file[d][k] \in File /\ file[d][k].version \in Nat
  <1>1. file[d][k] \in File
    BY DEF TypeOK
  <1> QED  BY <1>1, ZeroVersion DEF File

\* Two calls that are busy are not at the same ConfigMap or Secret volume.
LEMMA OneWriter ==
    ASSUME CallInv, OneCaller, NEW c \in Which, NEW e \in Which, Busy(c), Busy(e),
           call[c].i = call[e].i, TheVolume(c).type \in {"secret", "configMap"}
    PROVE  c = e
  <1>1. /\ Handles(c, TheVolume(c).type) /\ Handles(e, TheVolume(c).type)
        /\ call[c].pc # "idle" /\ call[e].pc # "idle"
    BY DEF CallInv, CallInvOf, Busy, TheVolume
  <1>2. \E h \in Handlers : c \in {"all", h} /\ e \in {"all", h}
    BY <1>1 DEF Handles, Handlers, Which
  <1>3. c = "all" \/ e = "all" => pod = "creating" /\ \A h \in Handlers : call[h].pc = "idle"
    BY <1>1 DEF OneCaller
  <1> QED  BY <1>1, <1>2, <1>3

\* The source of a ConfigMap or Secret volume is the only one it has.
LEMMA OnlySource ==
    ASSUME CallInv, NEW c \in Which, call[c].pc # "idle", call[c].i \in Place,
           TheVolume(c).type \in {"secret", "configMap"}
    PROVE  TheSource(c) = Vols[call[c].i].sources[1] /\ TheSource(c).ref \in Objects
  <1>1. call[c].s \in DOMAIN Vols[call[c].i].sources
    BY DEF CallInv, CallInvOf, TheVolume
  <1>2. DOMAIN Vols[call[c].i].sources = 1..1
    <2>1. Len(Vols[call[c].i].sources) = 1
      BY VolsAssumption DEF TheVolume
    <2>2. DOMAIN Vols[call[c].i].sources = 1..Len(Vols[call[c].i].sources)
      BY VolsType
    <2> QED  BY <2>1, <2>2
  <1>3. call[c].s = 1
    BY <1>1, <1>2
  <1>4. Vols[call[c].i].sources[1] \in Source
    BY <1>1, <1>3, VolsType
  <1> QED  BY <1>3, <1>4 DEF TheSource, TheVolume, Source

VersionInvAt(i, d, k) ==
    Vols[i].type \in {"secret", "configMap"} /\ d[2] = i =>
        /\ file[d][k].version <= lister[Vols[i].sources[1].ref]
        /\ \A c \in Which : Busy(c) /\ call[c].i = i =>
              file[d][k].version <= call[c].version

LEMMA RefType ==
    ASSUME TypeOK, NEW i \in Place, Vols[i].type \in {"secret", "configMap"}
    PROVE  Vols[i].sources[1].ref \in Objects /\ lister[Vols[i].sources[1].ref] \in Nat
  <1>1. Len(Vols[i].sources) = 1 /\ DOMAIN Vols[i].sources = 1..Len(Vols[i].sources)
    BY VolsAssumption, VolsType
  <1>2. 1 \in DOMAIN Vols[i].sources
    BY <1>1
  <1>3. Vols[i].sources[1] \in Source
    BY <1>2, VolsType
  <1> QED  BY <1>3, ListerType DEF Source

\* A step that writes no file and reads no object.
LEMMA VersionStays ==
    ASSUME TypeOK, NEW i \in Place, NEW d \in Dir, NEW k \in Key, VersionInvAt(i, d, k),
           file'[d][k] = file[d][k],
           \A o \in Objects : lister'[o] \in Nat /\ lister[o] <= lister'[o],
           \A c \in Which : \/ ~Busy(c)'
                            \/ Busy(c) /\ call'[c].i = call[c].i /\ call'[c].version = call[c].version
    PROVE  VersionInvAt(i, d, k)'
  <1> SUFFICES ASSUME Vols[i].type \in {"secret", "configMap"}, d[2] = i
               PROVE  /\ file'[d][k].version <= lister'[Vols[i].sources[1].ref]
                      /\ \A c \in Which : Busy(c)' /\ call'[c].i = i =>
                            file'[d][k].version <= call'[c].version
    BY DEF VersionInvAt
  <1>1. /\ file[d][k].version <= lister[Vols[i].sources[1].ref]
        /\ \A c \in Which : Busy(c) /\ call[c].i = i => file[d][k].version <= call[c].version
    BY DEF VersionInvAt
  <1>2. /\ lister[Vols[i].sources[1].ref] \in Nat /\ lister'[Vols[i].sources[1].ref] \in Nat
        /\ lister[Vols[i].sources[1].ref] <= lister'[Vols[i].sources[1].ref]
    BY RefType
  <1>3. file'[d][k].version <= lister'[Vols[i].sources[1].ref]
    BY <1>1, <1>2, FileType
  <1> QED  BY <1>1, <1>3

\* A call that has read its object has read nothing older than what is there.
LEMMA VersionRead ==
    ASSUME TypeOK, CallInv, NEW c \in Which, Others(c), Reads(c), file' = file,
           NEW i \in Place, NEW d \in Dir, NEW k \in Key, VersionInvAt(i, d, k)
    PROVE  VersionInvAt(i, d, k)'
  <1> SUFFICES ASSUME Vols[i].type \in {"secret", "configMap"}, d[2] = i
               PROVE  /\ file'[d][k].version <= lister'[Vols[i].sources[1].ref]
                      /\ \A e \in Which : Busy(e)' /\ call'[e].i = i =>
                            file'[d][k].version <= call'[e].version
    BY DEF VersionInvAt
  <1>1. /\ file[d][k].version <= lister[Vols[i].sources[1].ref]
        /\ \A e \in Which : Busy(e) /\ call[e].i = i => file[d][k].version <= call[e].version
    BY DEF VersionInvAt
  <1>2. file' = file /\ lister' = lister /\ \A e \in Which \ {c} : call'[e] = call[e]
    BY DEF Others
  <1>3. ASSUME NEW e \in Which, Busy(e)', call'[e].i = i  PROVE file'[d][k].version <= call'[e].version
    <2>1. CASE e # c
      BY <1>1, <1>2, <1>3, <2>1 DEF Busy
    <2>2. CASE e = c
      <3>1. /\ call'[c].version = TheVersion(c) /\ call[c].i = i /\ call[c].pc = "look"
            /\ TheVolume(c).type \in {"secret", "configMap"}
        BY <1>3, <2>2 DEF Reads, TheVolume
      <3>2. TheSource(c) = Vols[i].sources[1]
        BY <3>1, OnlySource
      <3>3. TheVersion(c) = lister[Vols[i].sources[1].ref]
        BY <3>1, <3>2 DEF TheVersion
      <3> QED  BY <1>1, <1>2, <2>2, <3>1, <3>3
    <2> QED  BY <2>1, <2>2
  <1> QED  BY <1>1, <1>2, <1>3

\* A file that is renamed is of the version its call has read.
LEMMA VersionWritten ==
    ASSUME TypeOK, CallInv, OneCaller, TmpInv, NEW c \in Which, Others(c), Rename(c), Writes(c),
           NEW i \in Place, NEW d \in Dir, NEW k \in Key, VersionInvAt(i, d, k),
           d = TheDir(c), tmp[c] # NoFile, file'[d][k] = tmp[c]
    PROVE  VersionInvAt(i, d, k)'
  <1> SUFFICES ASSUME Vols[i].type \in {"secret", "configMap"}, d[2] = i
               PROVE  /\ file'[d][k].version <= lister'[Vols[i].sources[1].ref]
                      /\ \A e \in Which : Busy(e)' /\ call'[e].i = i =>
                            file'[d][k].version <= call'[e].version
    BY DEF VersionInvAt
  <1>1. /\ call[c].i = i /\ Busy(c) /\ call[c].pc # "idle" /\ TheVolume(c) = Vols[i] /\ CallInvOf(c)
    BY BusyType DEF Writes, Busy, TheVolume
  <1>2. tmp[c].version = call[c].version
    BY DEF TmpInv, TmpInvOf
  <1>3. TheSource(c) = Vols[i].sources[1]
    BY <1>1, OnlySource
  <1>4. call[c].version \in 1..lister[Vols[i].sources[1].ref]
    BY <1>1, <1>3 DEF CallInvOf
  <1>5. /\ lister' = lister /\ call'[c].version = call[c].version /\ call'[c].i = call[c].i
        /\ \A e \in Which \ {c} : call'[e] = call[e]
    BY DEF Others, Writes
  <1>6. file'[d][k].version <= lister'[Vols[i].sources[1].ref]
    BY <1>2, <1>4, <1>5, RefType
  <1>7. ASSUME NEW e \in Which, Busy(e)', call'[e].i = i  PROVE file'[d][k].version <= call'[e].version
    <2>1. e = c
      <3>1. CASE e # c
        <4>1. Busy(e) /\ call[e].i = i
          BY <1>5, <1>7, <3>1 DEF Busy
        <4> QED  BY <1>1, <4>1, OneWriter
      <3> QED  BY <3>1
    <2>2. call[c].version \in Nat
      BY PlaceType
    <2> QED  BY <1>2, <1>5, <2>1, <2>2
  <1> QED  BY <1>6, <1>7

LEMMA VersionStep ==
    TypeOK /\ CallInv /\ OneCaller /\ TmpInv /\ VersionInv /\ [Next]_vars => VersionInv'
  <1> SUFFICES ASSUME TypeOK, CallInv, OneCaller, TmpInv, VersionInv, [Next]_vars, pod' # "gone",
                      NEW i \in Place, NEW d \in Dir, NEW k \in Key
               PROVE  VersionInvAt(i, d, k)'
    BY DEF VersionInv, VersionInvAt
  <1>0. pod # "gone" => VersionInvAt(i, d, k)
    BY DEF VersionInv, VersionInvAt
  <1>1. \A o \in Objects : lister[o] \in Nat
    BY ListerType
  <1>2. ASSUME UNCHANGED <<lister, file>>, pod # "gone",
               \A c \in Which : ~Busy(c)' \/ call'[c] = call[c]
        PROVE  VersionInvAt(i, d, k)'
    <2>1. \A c \in Which : \/ ~Busy(c)'
                           \/ Busy(c) /\ call'[c].i = call[c].i /\ call'[c].version = call[c].version
      BY <1>2 DEF Busy
    <2> QED  BY <1>0, <1>1, <1>2, <2>1, VersionStays
  <1>3. ASSUME NEW o \in Objects, ObjectWritten(o)  PROVE VersionInvAt(i, d, k)'
    <2>1. /\ lister' = [lister EXCEPT ![o] = @ + 1] /\ UNCHANGED <<pod, file, call>>
          /\ lister \in [Objects -> Version]
      BY <1>3 DEF ObjectWritten, diskVars, TypeOK
    <2>2. \A p \in Objects : lister'[p] \in Nat /\ lister[p] <= lister'[p]
      BY <1>1, <2>1
    <2>3. \A c \in Which : Busy(c)' = Busy(c) /\ call'[c] = call[c]
      BY <2>1 DEF Busy
    <2> QED  BY <1>0, <2>1, <2>2, <2>3, VersionStays
  <1>4. ASSUME NEW c \in Which, At(c, "idle"), call' = [call EXCEPT ![c] = LookFrom(c, 1)],
               UNCHANGED <<lister, pod, dir, file, tmp>>
        PROVE  VersionInvAt(i, d, k)'
    <2>1. Others(c) /\ GoesOn(c)
      BY <1>4, BeginsGoesOn
    <2>2. ~Busy(c)'
      BY <2>1 DEF GoesOn, Looking, Busy
    <2> QED  BY <1>2, <1>4, <2>1, <2>2 DEF Others
  <1>5. ASSUME NEW h \in Handlers, HandleEvent(h)  PROVE VersionInvAt(i, d, k)'
    BY <1>4, <1>5 DEF HandleEvent, Handlers, clusterVars, diskVars
  <1>6. CASE CreatePod
    BY <1>4, <1>6 DEF CreatePod, Which, clusterVars, diskVars
  <1>7. ASSUME NEW c \in Which, VolumesStep(c)  PROVE VersionInvAt(i, d, k)'
    <2>0. VersionInvAt(i, d, k) /\ Others(c) /\ Moves(c)
      BY <1>0, <1>7, GoneStays, StepMoves
    <2>1. \A e \in Which \ {c} : call'[e] = call[e]
      BY <2>0 DEF Others
    <2>2. \A o \in Objects : lister'[o] \in Nat /\ lister[o] <= lister'[o]
      BY <1>1, <2>0 DEF Others
    <2>3. CASE file'[d][k] = file[d][k] /\ ~Reads(c)
      <3>1. \/ ~Busy(c)'
            \/ Busy(c) /\ call'[c].i = call[c].i /\ call'[c].version = call[c].version
        BY <2>0, <2>3 DEF Moves, Stops, GoesOn, Looking, Writes, Busy, Idle
      <3>2. \A e \in Which : \/ ~Busy(e)'
                             \/ Busy(e) /\ call'[e].i = call[e].i /\ call'[e].version = call[e].version
        BY <2>1, <3>1 DEF Busy
      <3> QED  BY <2>0, <2>2, <2>3, <3>2, VersionStays
    <2>4. CASE Reads(c)
      <3>1. file' = file
        BY <1>7, <2>4 DEF Reads, VolumesStep, HostPath, Missing, SetupPaths, SourceDone, TempFile, Chown,
             Write, Rename, Returns, diskVars, At
      <3> QED  BY <2>0, <2>4, <3>1, VersionRead
    <2>5. CASE file'[d][k] # file[d][k]
      <3>1. Rename(c) /\ d = TheDir(c) /\ tmp[c] # NoFile /\ file'[d][k] = tmp[c]
        BY <1>7, <2>5, RenameWrites
      <3>2. Writes(c)
        BY <2>5, <3>1, RenameDoes
      <3> QED  BY <2>0, <3>1, <3>2, VersionWritten
    <2> QED  BY <2>3, <2>4, <2>5
  <1>8. ASSUME Restart  PROVE VersionInvAt(i, d, k)'
    <2>1. \A c \in Which : ~Busy(c)'
      BY <1>8 DEF Restart, Busy, Idle
    <2>2. UNCHANGED <<lister, file>> /\ pod # "gone"
      BY <1>8 DEF Restart, diskVars
    <2> QED  BY <1>2, <2>1, <2>2
  <1>9. CASE Unwatch \/ UNCHANGED vars
    BY <1>2, <1>9 DEF Unwatch, vars, clusterVars, diskVars
  <1>10. ~Clean
    BY DEF Clean
  <1> QED  BY <1>3, <1>5, <1>6, <1>7, <1>8, <1>9, <1>10 DEF Next, Panic, Crash

-----------------------------------------------------------------------------
(* The theorems.                                                           *)

IInv ==
    /\ TypeOK /\ CallInv /\ OneCaller /\ TmpInv /\ FilesAreWhole
    /\ DirInv /\ VolInv /\ RequiredInv /\ VersionInv

LEMMA InvInit == Init => IInv
  <1> SUFFICES ASSUME Init  PROVE IInv
    OBVIOUS
  <1>1. TypeOK /\ CallInv
    BY TypeInit
  <1>2. /\ pod = "creating" /\ \A c \in Which : call[c].pc = "idle" /\ tmp[c] = NoFile
        /\ \A d \in Dir : \A k \in Key : file[d][k] = NoFile
        /\ \A i \in Place : vol[i] = NoDir
    BY DEF Init, Idle
  <1>3. OneCaller
    BY <1>2 DEF OneCaller, Handlers
  <1>4. TmpInv
    BY <1>2 DEF TmpInv, TmpInvOf, Writing
  <1>5. FilesAreWhole
    BY <1>2 DEF FilesAreWhole
  <1>6. DirInv
    BY <1>2 DEF DirInv, DirInvOf, Busy
  <1>7. VolInv
    BY <1>2, NoDirIsNone DEF VolInv
  <1>8. RequiredInv
    BY <1>2 DEF RequiredInv, Behind, Which
  <1>9. VersionInv
    <2> SUFFICES ASSUME NEW i \in Place, NEW d \in Dir, NEW k \in Key,
                        Vols[i].type \in {"secret", "configMap"}
                 PROVE  /\ file[d][k].version <= lister[Vols[i].sources[1].ref]
                        /\ \A c \in Which : ~Busy(c)
      BY DEF VersionInv
    <2>1. file[d][k].version = 0
      BY <1>2 DEF NoFile
    <2>2. lister[Vols[i].sources[1].ref] \in Nat
      BY <1>1, RefType
    <2> QED  BY <1>2, <2>1, <2>2 DEF Busy
  <1> QED  BY <1>1, <1>3, <1>4, <1>5, <1>6, <1>7, <1>8, <1>9 DEF IInv

LEMMA InvStep == IInv /\ [Next]_vars => IInv'
  BY TypeStep, OneCallerStep, TmpStep, WholeStep, DirStep, VolStep, RequiredStep, VersionStep DEF IInv

LEMMA Invariant == Spec => []IInv
  BY InvInit, InvStep, PTL DEF Spec

\* volumes() and all it works with keep their types, and a call that has something
\* to write is at a volume that has it.
THEOREM TypeIsOK == Spec => []TypeOK
  <1>1. IInv => TypeOK
    BY DEF IInv
  <1> QED  BY <1>1, Invariant, PTL

\* writeFile: what is under the name of a key is a whole file that belongs to the
\* owner of the pod, whatever updates, failures and crashes do meanwhile.
THEOREM FilesWhole == Spec => []FilesAreWhole
  <1>1. IInv => FilesAreWhole
    BY DEF IInv
  <1> QED  BY <1>1, Invariant, PTL

\* No container mounts a hostPath for reading only: CreatePod would bind the empty path.
NoReadOnlyHostPath == \A m \in Mounts : m.readOnly => Vols[m.volume].type # "hostPath"

LEMMA InvMountsReady ==
    ASSUME NoReadOnlyHostPath, IInv
    PROVE  MountsReady
  <1> SUFFICES ASSUME pod \in {"watched", "forgotten"}
               PROVE  /\ \A d \in BindPaths \cup BindReadOnlyPaths : d \in Dir /\ dir[d] = "owned"
                      /\ \A i \in Place : \A k \in vol[i].keys : file[vol[i].dir][k] # NoFile
                      /\ \A i \in Place : \A s \in DOMAIN Vols[i].sources :
                            Required(Vols[i].sources[s]) => vol[i] # NoDir
    <2>1. DOMAIN Vols = Place
      BY VolsAssumption DEF Place
    <2> QED  BY <2>1 DEF MountsReady, Required
  <1>1. TypeOK /\ VolInv /\ RequiredInv /\ pod # "gone"
    BY DEF IInv
  <1>2. ASSUME NEW m \in Mounts, vol[m.volume] # NoDir, m.readOnly \/ vol[m.volume] # Host
        PROVE  vol[m.volume].dir \in Dir /\ dir[vol[m.volume].dir] = "owned"
    <2>1. m.volume \in Place
      BY MountsAssumption
    <2>2. vol[m.volume] # Host
      BY <1>1, <1>2, <2>1 DEF VolInv, NoReadOnlyHostPath
    <2> QED  BY <1>1, <1>2, <2>1, <2>2 DEF VolInv
  <1>3. ASSUME NEW i \in Place, NEW k \in vol[i].keys  PROVE file[vol[i].dir][k] # NoFile
    <2>1. vol[i] \notin {NoDir, Host}
      BY <1>3, NoDirIsNone
    <2> QED  BY <1>1, <1>3, <2>1 DEF VolInv
  <1>4. ASSUME NEW i \in Place, NEW s \in DOMAIN Vols[i].sources, Required(Vols[i].sources[s])
        PROVE  vol[i] # NoDir
    BY <1>1, <1>4 DEF RequiredInv, Behind
  <1>5. \A d \in BindPaths \cup BindReadOnlyPaths : d \in Dir /\ dir[d] = "owned"
    BY <1>2 DEF BindPaths, BindReadOnlyPaths, Mounted
  <1> QED  BY <1>3, <1>4, <1>5

\* CreatePod binds directories that are there and belong to the owner of the pod, with
\* all the files it has read, and has passed over no object that is required.
THEOREM MountsAreReady == ASSUME NoReadOnlyHostPath PROVE Spec => []MountsReady
  <1>1. IInv => MountsReady
    BY InvMountsReady
  <1> QED  BY <1>1, Invariant, PTL

LEMMA StepIsNotOlder ==
    ASSUME IInv, [Next]_vars, NEW d \in Dir, NEW k \in Key, file'[d][k].version < file[d][k].version
    PROVE  pod' = "gone" \/ Vols[d[2]].type = "projected"
  <1>0. TypeOK /\ CallInv /\ OneCaller /\ TmpInv /\ VersionInv
    BY DEF IInv
  <1>1. file'[d][k] # file[d][k]
    <2>1. file[d][k].version \in Nat
      BY <1>0, FileType
    <2> QED  BY <2>1
  <1>2. CASE Clean
    BY <1>2 DEF Clean
  <1>3. ASSUME NEW c \in Which, VolumesStep(c), pod' # "gone"  PROVE Vols[d[2]].type = "projected"
    <2>1. /\ d = TheDir(c) /\ tmp[c] # NoFile /\ file'[d][k] = tmp[c] /\ Writing(c) /\ Busy(c)
      BY <1>0, <1>1, <1>3, RenameWrites
    <2>2. d[2] = call[c].i /\ call[c].i \in Place /\ CallInvOf(c)
      BY <1>0, <2>1, BusyType
    <2>3. TheVolume(c).type \notin {"hostPath", "emptyDir"} /\ tmp[c].version = call[c].version
      BY <1>0, <2>1, <2>2, LeftHasVersion DEF CallInvOf, TmpInv, TmpInvOf
    <2>4. TheVolume(c).type \notin {"secret", "configMap"}
      <3>1. CASE TheVolume(c).type \in {"secret", "configMap"}
        <4>1. file[d][k].version <= call[c].version
          BY <1>0, <1>3, <2>1, <2>2, <3>1, GoneStays DEF VersionInv, TheVolume
        <4>2. file[d][k].version \in Nat /\ call[c].version \in Nat
          BY <1>0, FileType, PlaceType
        <4>3. call[c].version < file[d][k].version
          BY <2>1, <2>3
        <4> QED  BY <4>1, <4>2, <4>3
      <3> QED  BY <3>1
    <2>5. TheVolume(c) = Vols[d[2]]
      BY <2>2 DEF TheVolume
    <2> QED  BY <2>2, <2>3, <2>4, <2>5, VolsType
  <1>4. CASE file' = file
    BY <1>1, <1>4
  <1>5. Clean \/ (\E c \in Which : VolumesStep(c)) \/ file' = file
    <2>1. CASE \E o \in Objects : ObjectWritten(o)
      BY <2>1 DEF ObjectWritten, diskVars
    <2>2. CASE \E h \in Handlers : HandleEvent(h)
      BY <2>2 DEF HandleEvent, diskVars
    <2>3. CASE \E c \in Which : VolumesStep(c)
      BY <2>3
    <2>4. CASE (\E c \in Which : Panic(c)) \/ Crash
      BY <2>4 DEF Panic, Crash, Restart, diskVars
    <2>5. CASE CreatePod \/ Unwatch \/ Clean \/ UNCHANGED vars
      BY <2>5 DEF CreatePod, Unwatch, vars, diskVars
    <2> QED  BY <2>1, <2>2, <2>3, <2>4, <2>5 DEF Next
  <1> QED  BY <1>2, <1>3, <1>4, <1>5

\* UpdateConfigMap and UpdateSecret: of a ConfigMap or Secret volume no file is put
\* back to an older version of its object, although a call reads the lister long
\* before it renames and three goroutines call volumes().
THEOREM NothingOlder == Spec => NoOlderContents
  <1>1. IInv /\ [Next]_vars =>
            [\A d \in Dir, k \in Key :
                file'[d][k].version < file[d][k].version
                   => pod' = "gone" \/ Vols[d[2]].type = "projected"]_vars
    BY StepIsNotOlder
  <1> QED  BY <1>1, Invariant, PTL DEF Spec, NoOlderContents
=============================================================================
