------------------------------ MODULE Volumes ------------------------------
(***************************************************************************)
(* internal/provider/volumes.go: the directories and files behind the      *)
(* volumes of one pod.  volumes() is called by three goroutines: by        *)
(* CreatePod for all volumes, by the informer of the ConfigMaps and by the *)
(* informer of the Secrets when something the pod mounts has changed.      *)
(* DeletePod removes the directories, whoever is writing there.            *)
(*                                                                         *)
(* Reading an object and making its directory is a step, and so is each of *)
(* the four parts of writeFile.  The contents of an object are the number  *)
(* of its version; Keys[o][v] are the keys that version v of object o has, *)
(* none if the object was deleted.                                         *)
(***************************************************************************)
EXTENDS Integers, Sequences, FiniteSetsExt

CONSTANTS
    Vols,        \* pod.Spec.Volumes: a sequence of [type, sources]
    Mounts,      \* the container's VolumeMounts: a set of [volume, readOnly]
    ConfigMaps,  \* the ConfigMaps in the namespace of the pod
    Secrets,     \* and the Secrets
    Keys,        \* bound: the versions of each object, a sequence of sets of keys
    MaxFaults    \* bound: how many accesses to the disk fail, and crashes

\* The goroutines that call volumes(), named by what they ask for.
Which == {"all", "configMap", "secret"}
Handlers == Which \ {"all"}
ObjectsOf(h) == IF h = "configMap" THEN ConfigMaps ELSE Secrets

Objects == ConfigMaps \cup Secrets
Version == UNION {0..Len(Keys[o]) : o \in Objects}
Key == UNION {UNION {Keys[o][v] : v \in DOMAIN Keys[o]} : o \in Objects}
AnyKey == CHOOSE k \in Key : TRUE

Place == 1..Len(Vols)
Source == [kind : {"configMap", "secret", "token"}, ref : Objects,
           optional : {"no", "yes", "unset"}, items : SUBSET Key]

\* The kinds of volumes there are, and what each is made of.  A volume of any other
\* kind fails every call that comes to it, as a projected one does that requires an
\* object which never comes; and listers answer from memory, with no error of theirs.
ASSUME VolsAssumption ==
    /\ Vols \in Seq([type : {"hostPath", "emptyDir", "secret", "configMap", "projected"},
                     sources : Seq(Source)])
    /\ \A i \in Place :
          /\ Vols[i].type \in {"secret", "configMap"} =>
                Len(Vols[i].sources) = 1 /\ Vols[i].sources[1].kind = Vols[i].type
          /\ Vols[i].type \in {"hostPath", "emptyDir"} => Vols[i].sources = <<>>
          /\ \A s \in DOMAIN Vols[i].sources :
                IF Vols[i].sources[s].kind = "configMap" THEN Vols[i].sources[s].ref \in ConfigMaps
                ELSE Vols[i].sources[s].ref \in Secrets
ASSUME KeysAssumption == Key # {} /\ Keys \in [Objects -> Seq(SUBSET Key)]
ASSUME MountsAssumption == Mounts \subseteq [volume : Place, readOnly : BOOLEAN]
ASSUME FaultsAssumption == MaxFaults \in Nat

Kinds(i) == {Vols[i].sources[s].kind : s \in DOMAIN Vols[i].sources}
Dir == {<<"emptydirs", i>> : i \in {j \in Place : Vols[j].type = "emptyDir"}}
       \cup {<<"configmaps", i>> : i \in {j \in Place : "configMap" \in Kinds(j)}}
       \cup {<<"secrets", i>> : i \in {j \in Place : Kinds(j) \ {"configMap"} # {}}}

VARIABLES
    lister,   \* the version the lister has of each object, 0 before the first
    pod,      \* how far the life of the pod is
    dir,      \* the directories
    file,     \* the files under their final names, by directory and key
    call,     \* where each call of volumes() is
    tmp,      \* its temporary file
    vol,      \* what CreatePod's call returns: a directory for each volume
    faults    \* failures so far

clusterVars == <<lister, pod>>
diskVars == <<dir, file>>
vars == <<clusterVars, diskVars, call, tmp, vol, faults>>

\* A pod that runs is watched, unless systemk was restarted meanwhile.
PodState == {"creating", "watched", "forgotten", "deleting", "gone"}

NoFile == [version |-> 0, whole |-> FALSE, owned |-> FALSE]
File == [version : Version, whole : BOOLEAN, owned : BOOLEAN]

Pcs == {"idle", "look", "keys", "chown", "write", "rename"}
Call == [pc : Pcs, i : 1..(Len(Vols) + 1), s : Nat \ {0}, version : Version,
         left : SUBSET Key, key : Key]
Idle == [pc |-> "idle", i |-> 1, s |-> 1, version |-> 0, left |-> {}, key |-> AnyKey]

\* The volume has no entry in the map, or it has the empty path of a hostPath.
NoDir == [dir |-> <<"none", 0>>, keys |-> {}]
Host == [dir |-> <<"host", 0>>, keys |-> {}]

TypeOK ==
    /\ lister \in [Objects -> Version] /\ \A o \in Objects : lister[o] <= Len(Keys[o])
    /\ pod \in PodState
    /\ dir \in [Dir -> {"absent", "made", "owned"}]
    /\ file \in [Dir -> [Key -> File]]
    /\ call \in [Which -> Call]
    /\ tmp \in [Which -> File]
    /\ vol \in [Place -> {NoDir, Host} \cup [dir : Dir, keys : SUBSET Key]]
    /\ faults \in 0..MaxFaults
    \* A call that has something to write is at a source that has it.
    /\ \A c \in Which :
          call[c].left # {} => /\ call[c].i \in Place
                               /\ call[c].s \in DOMAIN Vols[call[c].i].sources

Init ==
    /\ lister \in [Objects -> {0, 1}] /\ \A o \in Objects : lister[o] <= Len(Keys[o])
    /\ pod = "creating"
    /\ dir = [d \in Dir |-> "absent"]
    /\ file = [d \in Dir |-> [k \in Key |-> NoFile]]
    /\ call = [c \in Which |-> Idle]
    /\ tmp = [c \in Which |-> NoFile]
    /\ vol = [i \in Place |-> NoDir]
    /\ faults = 0

-----------------------------------------------------------------------------
(* The API server and the informers.                                       *)

\* Watch registers the pod for the objects of its Secret and ConfigMap volumes,
\* but not for what its projected volumes are made of.
Watches(o) ==
    \E i \in Place : /\ Vols[i].type \in {"secret", "configMap"}
                            /\ Vols[i].sources[1].ref = o

Exists(o) == lister[o] # 0 /\ Keys[o][lister[o]] # {}

\* An object is written or deleted, and the lister has it.
ObjectWritten(o) ==
    /\ lister[o] < Len(Keys[o])
    /\ lister' = [lister EXCEPT ![o] = @ + 1]
    /\ UNCHANGED <<pod, diskVars, call, tmp, vol, faults>>

-----------------------------------------------------------------------------
(* volumes()                                                               *)

At(c, label) == call[c].pc = label
Goto(c, label) == call' = [call EXCEPT ![c].pc = label]

TheVolume(c) == Vols[call[c].i]
TheSource(c) == TheVolume(c).sources[call[c].s]

\* A directory whose number counts from 0, as the loop of the code does.
DirFromZero(c) ==
    <<IF TheVolume(c).type = "emptyDir" THEN "emptydirs"
      ELSE IF TheSource(c).kind = "configMap" THEN "configmaps" ELSE "secrets",
      call[c].i - 1>>

\* setupPaths: the directory of a volume is named by its kind and its place.
TheDir(c) ==
    <<IF TheVolume(c).type = "emptyDir" THEN "emptydirs"
      ELSE IF TheSource(c).kind = "configMap" THEN "configmaps" ELSE "secrets",
      call[c].i>>

\* volumes() returns an error: CreatePod is called again later, an update is
\* only logged.  The temporary file stays.
Fails(c) ==
    /\ call' = [call EXCEPT ![c] = Idle]
    /\ tmp' = [tmp EXCEPT ![c] = NoFile]
    /\ UNCHANGED vol

DiskFails(c) == faults < MaxFaults /\ faults' = faults + 1 /\ Fails(c)

\* A volumes() that looks at every volume, whoever calls it.
HandlesAll(which, type) == type \in {"hostPath", "emptyDir"} => which = "all"

\* An informer of ConfigMaps that updates Secrets only.
HandlesOnce(which, type) ==
    CASE type = "secret" -> which \in {"all", "secret"}
      [] type = "projected" -> TRUE
      [] OTHER -> which = "all"

\* Which volumes a call is about; a projected one is always looked at.
Handles(which, type) ==
    CASE type \in {"hostPath", "emptyDir"} -> which = "all"
      [] type = "secret" -> which \in {"all", "secret"}
      [] type = "configMap" -> which \in {"all", "configMap"}
      [] OTHER -> TRUE

\* The volumes a call of c has ahead of it from place i on, and the next of them.  A
\* projected volume of no sources is as good as none.
Ahead(c, i) ==
    {j \in Place : /\ j >= i /\ Handles(c, Vols[j].type)
                   /\ Vols[j].type = "projected" => Vols[j].sources # <<>>}
NextPlace(c, i) == Min(Ahead(c, i) \cup {Len(Vols) + 1})

\* The call of c looks at the next volume it is about, from place i on.
LookFrom(c, i) ==
    [pc |-> "look", i |-> NextPlace(c, i), s |-> 1, version |-> 0, left |-> {},
     key |-> call[c].key]

NextVolume(c) == LookFrom(c, call[c].i + 1)

\* The next source of a projected volume, or the next volume.
NextSource(c) ==
    IF call[c].s < Len(TheVolume(c).sources)
    THEN [call[c] EXCEPT !.pc = "look", !.s = @ + 1, !.version = 0, !.left = {}]
    ELSE NextVolume(c)

Looks(c, types) == At(c, "look") /\ call[c].i \in Place /\ TheVolume(c).type \in types

\* A hostPath is not looked at; an empty path stands for it.
HostPath(c) ==
    /\ Looks(c, {"hostPath"})
    /\ call' = [call EXCEPT ![c] = NextVolume(c)]
    /\ vol' = [vol EXCEPT ![call[c].i] = Host]
    /\ UNCHANGED <<clusterVars, diskVars, tmp, faults>>

LooksForSource(c) == Looks(c, {"secret", "configMap", "projected"})

\* Only optional: false makes an object required; an absent field does not, and
\* the Secret of a service account never is.
Required(source) == source.kind # "token" /\ source.optional = "no"

\* The object is not there: an error, or the source is passed over.
Missing(c) ==
    /\ LooksForSource(c)
    /\ ~Exists(TheSource(c).ref)
    /\ IF Required(TheSource(c))
       THEN Fails(c)
       ELSE call' = [call EXCEPT ![c] = NextSource(c)] /\ UNCHANGED <<tmp, vol>>
    /\ UNCHANGED <<clusterVars, diskVars, faults>>

\* The version of the source's object; an emptyDir has none.
TheVersion(c) == IF TheVolume(c).type = "emptyDir" THEN 0 ELSE lister[TheSource(c).ref]

\* The keys of the source that get a file: of a projected ConfigMap only those
\* its items name.
KeysToWrite(c, version) ==
    IF version = 0 THEN {}
    ELSE IF TheVolume(c).type = "projected" /\ TheSource(c).kind = "configMap"
    THEN Keys[TheSource(c).ref][version] \cap TheSource(c).items
    ELSE Keys[TheSource(c).ref][version]

\* The object is there, or the volume needs none: setupPaths makes the directory.
SetupPaths(c) ==
    /\ Looks(c, {"emptyDir"}) \/ (LooksForSource(c) /\ Exists(TheSource(c).ref))
    /\ \/ /\ dir' = [dir EXCEPT ![TheDir(c)] = "owned"]
          /\ call' = [call EXCEPT ![c].pc = "keys", ![c].version = TheVersion(c),
                                  ![c].left = KeysToWrite(c, TheVersion(c))]
          /\ UNCHANGED <<tmp, vol, faults>>
       \/ /\ DiskFails(c)
          /\ dir' = [dir EXCEPT ![TheDir(c)] = IF @ = "absent" THEN "made" ELSE @]
    /\ UNCHANGED <<clusterVars, file>>

\* The loop over the items of a projected Secret reads them from the ConfigMap
\* the source does not have.
Panics(c) ==
    /\ At(c, "keys")
    /\ TheVolume(c).type = "projected"
    /\ TheSource(c).kind = "secret"

\* All keys of the source have their file: vol[v.Name] = dir.
SourceDone(c) ==
    /\ At(c, "keys") /\ ~Panics(c)
    /\ call[c].left = {}
    /\ call' = [call EXCEPT ![c] = NextSource(c)]
    /\ IF c = "all"
       THEN vol' = [vol EXCEPT ![call[c].i] =
                       [dir |-> TheDir(c), keys |-> KeysToWrite(c, call[c].version)]]
       ELSE UNCHANGED vol
    /\ UNCHANGED <<clusterVars, diskVars, tmp, faults>>

\* A writeFile that renames before it has written.
RenameFirst == "rename"

\* writeFile goes from TempFile to chown, to write, to rename.
AfterTempFile == "chown"

\* ioutil.TempFile: an empty file of root's, in a directory that may be gone.
TempFile(c, k) ==
    /\ At(c, "keys") /\ ~Panics(c)
    /\ k \in call[c].left
    /\ \/ /\ dir[TheDir(c)] # "absent"
          /\ tmp' = [tmp EXCEPT ![c] = [NoFile EXCEPT !.version = call[c].version]]
          /\ call' = [call EXCEPT ![c].pc = AfterTempFile, ![c].key = k]
          /\ UNCHANGED <<vol, faults>>
       \/ dir[TheDir(c)] = "absent" /\ Fails(c) /\ UNCHANGED faults
       \/ DiskFails(c)
    /\ UNCHANGED <<clusterVars, diskVars>>

Chown(c) ==
    /\ At(c, "chown")
    /\ \/ /\ tmp[c] # NoFile
          /\ tmp' = [tmp EXCEPT ![c].owned = TRUE]
          /\ Goto(c, "write")
          /\ UNCHANGED <<vol, faults>>
       \/ tmp[c] = NoFile /\ Fails(c) /\ UNCHANGED faults
       \/ DiskFails(c)
    /\ UNCHANGED <<clusterVars, diskVars>>

\* ioutil.WriteFile creates the file again if it was removed, for root then.
Write(c) ==
    /\ At(c, "write")
    /\ \/ /\ dir[TheDir(c)] # "absent"
          /\ tmp' = [tmp EXCEPT ![c] = [@ EXCEPT !.version = call[c].version, !.whole = TRUE]]
          /\ Goto(c, "rename")
          /\ UNCHANGED <<vol, faults>>
       \/ dir[TheDir(c)] = "absent" /\ Fails(c) /\ UNCHANGED faults
       \/ DiskFails(c)
    /\ UNCHANGED <<clusterVars, diskVars>>

\* An error of rename that is only logged.
RenameOrGoOn(c) ==
    /\ At(c, "rename")
    /\ \/ /\ tmp[c] # NoFile
          /\ file' = [file EXCEPT ![TheDir(c)][call[c].key] = tmp[c]]
          /\ UNCHANGED faults
       \/ faults < MaxFaults /\ faults' = faults + 1 /\ UNCHANGED file
    /\ tmp' = [tmp EXCEPT ![c] = NoFile]
    /\ call' = [call EXCEPT ![c].pc = "keys", ![c].left = @ \ {call[c].key}]
    /\ UNCHANGED <<clusterVars, dir, vol>>

Rename(c) ==
    /\ At(c, "rename")
    /\ \/ /\ tmp[c] # NoFile
          /\ file' = [file EXCEPT ![TheDir(c)][call[c].key] = tmp[c]]
          /\ tmp' = [tmp EXCEPT ![c] = NoFile]
          /\ call' = [call EXCEPT ![c].pc = "keys", ![c].left = @ \ {call[c].key}]
          /\ UNCHANGED <<vol, faults>>
       \/ tmp[c] = NoFile /\ Fails(c) /\ UNCHANGED <<file, faults>>
       \/ DiskFails(c) /\ UNCHANGED file
    /\ UNCHANGED <<clusterVars, dir>>

Returns(c) ==
    /\ At(c, "look")
    /\ call[c].i > Len(Vols)
    /\ call' = [call EXCEPT ![c] = Idle]
    /\ pod' = IF c = "all" THEN "watched" ELSE pod
    /\ UNCHANGED <<lister, diskVars, tmp, vol, faults>>

VolumesStep(c) ==
    \/ HostPath(c) \/ Missing(c) \/ SetupPaths(c)
    \/ SourceDone(c) \/ Chown(c) \/ Write(c) \/ Rename(c) \/ Returns(c)
    \/ \E k \in Key : TempFile(c, k)

-----------------------------------------------------------------------------
(* Who calls volumes().                                                    *)

\* CreatePod, and CreatePod again after it failed.  Once it has the volumes the
\* rest of it goes through, up to Watch (module PodWatcher has the rest fail).
CreatePod ==
    /\ pod = "creating"
    /\ At("all", "idle")
    /\ call' = [call EXCEPT !["all"] = LookFrom("all", 1)]
    /\ vol' = [i \in Place |-> NoDir]
    /\ UNCHANGED <<clusterVars, diskVars, tmp, faults>>

\* handleEvent fetches the pods to tell and calls UpdateConfigMap or UpdateSecret;
\* the pod may be deleted before volumes() does anything.  An event comes when an
\* object was written and at every resync, so that one may come at any time.
HandleEvent(h) ==
    /\ At(h, "idle")
    /\ pod = "watched"
    /\ \E o \in ObjectsOf(h) : Watches(o) /\ Exists(o)
    /\ call' = [call EXCEPT ![h] = LookFrom(h, 1)]
    /\ UNCHANGED <<clusterVars, diskVars, tmp, vol, faults>>

\* DeletePod up to Unwatch; it does not wait for updates.
Unwatch ==
    /\ pod \in {"creating", "watched", "forgotten"}
    /\ At("all", "idle")
    /\ pod' = "deleting"
    /\ UNCHANGED <<lister, diskVars, call, tmp, vol, faults>>

\* cleanPodEphemeralVolumes takes temporary files away as well.
Clean ==
    /\ pod = "deleting"
    /\ pod' = "gone"
    /\ dir' = [d \in Dir |-> "absent"]
    /\ file' = [d \in Dir |-> [k \in Key |-> NoFile]]
    /\ tmp' = [c \in Which |-> NoFile]
    /\ UNCHANGED <<lister, call, vol, faults>>

\* The death of the process.  A pod that was created is not watched again.
Restart ==
    /\ call' = [c \in Which |-> Idle]
    /\ tmp' = [c \in Which |-> NoFile]
    /\ pod' = IF pod = "watched" THEN "forgotten" ELSE pod
    /\ UNCHANGED <<lister, diskVars, vol>>

Crash == faults < MaxFaults /\ faults' = faults + 1 /\ Restart

\* The nil dereference ends the process.
Panic(c) == Panics(c) /\ Restart /\ UNCHANGED faults

Next ==
    \/ \E o \in Objects : ObjectWritten(o)
    \/ \E h \in Handlers : HandleEvent(h)
    \/ \E c \in Which : VolumesStep(c) \/ Panic(c)
    \/ CreatePod \/ Unwatch \/ Clean \/ Crash

Spec == Init /\ [][Next]_vars

\* Every call goes on, CreatePod is called again, and the informers resync for ever.
Fairness ==
    /\ WF_vars(CreatePod)
    /\ \A c \in Which : WF_vars(VolumesStep(c) \/ Panic(c))
    /\ \A h \in Handlers : WF_vars(HandleEvent(h))

FairSpec == Spec /\ Fairness

-----------------------------------------------------------------------------
(* CreatePod: the mounts of a container.                                   *)

\* The mounts whose volume is in the map; others are skipped.
Mounted == {m \in Mounts : vol[m.volume] # NoDir}

BindPaths ==
    {vol[m.volume].dir : m \in {n \in Mounted : ~n.readOnly /\ vol[n.volume] # Host}}

BindReadOnlyPaths == {vol[m.volume].dir : m \in {n \in Mounted : n.readOnly}}

-----------------------------------------------------------------------------
(* Properties                                                              *)

\* What a container finds under the name of a key is a whole file with the
\* owner of the pod (README: "made of the same user/group"), however updates,
\* failures and crashes fall in between.
FilesAreWhole ==
    pod # "gone" =>
        \A d \in Dir, k \in Key :
            file[d][k] # NoFile => file[d][k].whole /\ file[d][k].owned

\* When CreatePod has its volumes, each directory it is to bind is there with
\* its owner and with a file for every key that was read, and no object that is
\* required was passed over: after failures, retries and restarts too.
MountsReady ==
    pod \in {"watched", "forgotten"} =>
        /\ \A d \in BindPaths \cup BindReadOnlyPaths : d \in Dir /\ dir[d] = "owned"
        /\ \A i \in DOMAIN Vols : \A k \in vol[i].keys : file[vol[i].dir][k] # NoFile
        /\ \A i \in DOMAIN Vols : \A s \in DOMAIN Vols[i].sources :
              Vols[i].sources[s].kind # "token" /\ Vols[i].sources[s].optional = "no"
                 => vol[i] # NoDir

\* The two informers and CreatePod never put older contents over newer ones,
\* although each reads the lister long before it renames: but for projected
\* volumes one goroutine only writes to a directory at a time.
NoOlderContents ==
    [][\A d \in Dir, k \in Key :
          file'[d][k].version < file[d][k].version
             => pod' = "gone" \/ Vols[d[2]].type = "projected"]_vars

\* Once objects are no longer written, every ConfigMap and Secret volume of a
\* watched pod holds the keys of the object as they are now.
UpdatesArrive ==
    <>[](pod = "watched" =>
           \A i \in DOMAIN Vols : Vols[i].type \in {"secret", "configMap"} =>
              LET o == Vols[i].sources[1].ref
              IN  Exists(o) /\ vol[i] # NoDir =>
                    \A k \in Keys[o][lister[o]] :
                        file[vol[i].dir][k].version = lister[o])
=============================================================================
