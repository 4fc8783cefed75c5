-------------------------- MODULE PodWatcherProofs --------------------------
(***************************************************************************)
(* Proofs about PodWatcher: what is in the watcher belongs to pods that    *)
(* run, no older contents replace newer ones on disk, and the watcher      *)
(* implements WatchRegistry as long as no two pods mount the same resource.*)
(***************************************************************************)
EXTENDS PodWatcher, TLAPS

\* The shape of the watcher's maps and of what its entries are checked against.
WatcherType ==
    /\ configs \in [Maps -> SUBSET Copy]
    /\ keysByPod \in [Pods -> SUBSET Maps]
    /\ life \in [Pods -> 0..MaxLife]
    /\ pc \in [Pods -> Pcs]
    /\ recreated \subseteq Pods
    /\ \A p \in Pods : life[p] = 0 => pc[p] = "gone"

\* The reverse index knows every entry, and every entry is of a resource the
\* pod refers to.
Indexed ==
    /\ \A m \in Maps : \A c \in configs[m] : m \in keysByPod[c[1]]
    /\ \A p \in Pods : keysByPod[p] \subseteq Refs[p]

WatchInv == WatcherType /\ Indexed /\ WatchesOnlyPodsThatRun

\* Only these three actions touch the two maps.
LEMMA OthersLeaveTheWatcher ==
    Next => \/ Restart
            \/ \E p \in Pods : Watch(p) \/ Unwatch(p)
            \/ UNCHANGED <<configs, keysByPod, restarts>>
  BY DEF Next, ResourceWritten, Resync, HandleEvent, PodAssigned, PodDeleted, CreateAgain,
     CreateFails, Worker, CreateReads, CreateWrites, CleanVolumes, Updater, UpdateReads,
     UpdateWrites, watcherVars, clusterVars

\* A worker that is past volumes() has a pod, whose copy is in Copy.
LEMMA CurrentCopy ==
    ASSUME WatcherType, NEW p \in Pods, pc[p] # "gone"
    PROVE  Current(p) \in Copy
  BY BoundAssumption DEF WatcherType, Current, Copy

\* A step that leaves the entries alone and moves one pod from a place where it
\* may be in the watcher to another, or from one where it may not.
LEMMA EntriesStay ==
    ASSUME WatchInv, configs' = configs, NEW p \in Pods,
           \A q \in Pods : q # p => /\ pc'[q] = pc[q] /\ life'[q] = life[q]
                                    /\ q \in recreated => q \in recreated',
           \/ pc[p] \in {"gone", "clean"}
           \/ /\ life'[p] = life[p]
              /\ \/ pc'[p] = pc[p] /\ (p \in recreated => p \in recreated')
                 \/ pc'[p] \in {"running", "unwatch"}
                 \/ p \in recreated' /\ pc'[p] \in {"volumes", "write", "watch"}
                 \/ p \notin recreated /\ pc[p] \in {"volumes", "write", "watch"}
    PROVE  WatchesOnlyPodsThatRun'
  <1> SUFFICES ASSUME NEW m \in Maps, NEW c \in configs[m]
               PROVE  /\ c = Current(c[1])'
                      /\ \/ pc'[c[1]] \in {"running", "unwatch"}
                         \/ /\ c[1] \in recreated'
                            /\ pc'[c[1]] \in {"volumes", "write", "watch"}
    BY DEF WatchesOnlyPodsThatRun
  <1>1. c \in Copy /\ c[1] \in Pods
    BY DEF WatchInv, WatcherType, Copy
  <1>2. /\ c = Current(c[1])
        /\ \/ pc[c[1]] \in {"running", "unwatch"}
           \/ c[1] \in recreated /\ pc[c[1]] \in {"volumes", "write", "watch"}
    BY DEF WatchInv, WatchesOnlyPodsThatRun
  <1>3. CASE c[1] # p
    BY <1>1, <1>2, <1>3 DEF Current
  <1>4. CASE c[1] = p
    BY <1>1, <1>2, <1>4 DEF Current
  <1> QED  BY <1>3, <1>4

\* The pod has no entry.
NoEntry(p) == \A m \in Maps : \A c \in configs[m] : c[1] # p

\* Unwatch(p) leaves no entry of p, and takes away whole lists.
LEMMA UnwatchForgets ==
    ASSUME WatchInv, NEW p \in Pods, Unwatch(p)
    PROVE  /\ NoEntry(p)'
           /\ \A m \in Maps : configs'[m] = IF m \in keysByPod[p] THEN {} ELSE configs[m]
  <1>1. \A m \in Maps : Kept(p, configs[m]) = {}
    BY DEF Kept
  <1>2. \A m \in Maps : configs'[m] = IF m \in keysByPod[p] THEN {} ELSE configs[m]
    BY <1>1 DEF Unwatch
  <1>3. \A m \in Maps : \A c \in configs[m] : c[1] = p => m \in keysByPod[p]
    BY DEF WatchInv, Indexed
  <1> QED  BY <1>2, <1>3 DEF NoEntry

LEMMA TypeStep == WatcherType /\ [Next]_vars => WatcherType'
  <1> SUFFICES ASSUME WatcherType, [Next]_vars
               PROVE  WatcherType'
    OBVIOUS
  <1> USE RefsAssumption, BoundAssumption DEF Pcs
  <1>1. ASSUME NEW p \in Pods, PodAssigned(p)
        PROVE  WatcherType'
    BY <1>1 DEF WatcherType, PodAssigned, Goto, watcherVars, workerVars
  <1>2. ASSUME NEW p \in Pods, PodDeleted(p) \/ CreateFails(p) \/ CreateReads(p) \/ CreateWrites(p)
        PROVE  WatcherType'
    BY <1>2 DEF WatcherType, PodDeleted, CreateFails, CreateReads, CreateWrites, Goto,
       watcherVars, workerVars
  <1>3. ASSUME NEW p \in Pods, CreateAgain(p) \/ CleanVolumes(p)
        PROVE  WatcherType'
    BY <1>3 DEF WatcherType, CreateAgain, CleanVolumes, Goto, watcherVars
  <1>4. ASSUME NEW p \in Pods, Watch(p)
        PROVE  WatcherType'
    <2>1. Current(p) \in Copy
      BY <1>4, CurrentCopy DEF Watch
    <2>2. configs' \in [Maps -> SUBSET Copy]
      BY <1>4, <2>1 DEF WatcherType, Watch
    <2>3. keysByPod' \in [Pods -> SUBSET Maps]
      BY <1>4 DEF WatcherType, Watch, WithKeys
    <2> QED  BY <1>4, <2>2, <2>3 DEF WatcherType, Watch, Goto, workerVars
  <1>5. ASSUME NEW p \in Pods, Unwatch(p)
        PROVE  WatcherType'
    <2>1. configs' \in [Maps -> SUBSET Copy]
      BY <1>5 DEF WatcherType, Unwatch, Kept
    <2> QED  BY <1>5, <2>1 DEF WatcherType, Unwatch, Goto, workerVars
  <1>6. CASE Restart
    <2>1. PICK up \in [Pods -> BOOLEAN] : pc' = [p \in Pods |-> AfterRestart(pc[p], up[p])]
      BY <1>6 DEF Restart
    <2>2. \A p \in Pods : AfterRestart(pc[p], up[p]) \in Pcs
      BY DEF WatcherType, AfterRestart, Pcs
    <2>3. \A p \in Pods : pc[p] = "gone" => AfterRestart(pc[p], up[p]) = "gone"
      BY DEF AfterRestart
    <2> QED  BY <1>6, <2>1, <2>2, <2>3 DEF WatcherType, Restart
  <1>7. CASE UNCHANGED <<watcherVars, workerVars, pc>>
    BY <1>7 DEF WatcherType, watcherVars, workerVars
  <1> QED  BY <1>1, <1>2, <1>3, <1>4, <1>5, <1>6, <1>7
           DEF Next, Worker, Updater, ResourceWritten, Resync, HandleEvent, UpdateReads,
               UpdateWrites, vars

LEMMA IndexStep == WatchInv /\ [Next]_vars => Indexed'
  <1> SUFFICES ASSUME WatchInv, [Next]_vars
               PROVE  Indexed'
    OBVIOUS
  <1> USE RefsAssumption
  <1>1. CASE UNCHANGED <<configs, keysByPod>>
    BY <1>1 DEF WatchInv, Indexed
  <1>2. ASSUME NEW p \in Pods, Watch(p)
        PROVE  Indexed'
    <2>1. \A m \in Maps : \A c \in configs'[m] :
             c \in configs[m] \/ (c[1] = p /\ m \in Refs[p])
      BY <1>2 DEF Watch, Current
    <2>2. \A q \in Pods : keysByPod'[q] = IF q = p THEN keysByPod[p] \cup Refs[p]
                                          ELSE keysByPod[q]
      BY <1>2 DEF Watch, WithKeys, WatchInv, WatcherType
    <2>3. \A m \in Maps : \A c \in configs[m] : c[1] \in Pods
      BY DEF WatchInv, WatcherType, Copy
    <2> QED  BY <2>1, <2>2, <2>3 DEF WatchInv, Indexed
  <1>3. ASSUME NEW p \in Pods, Unwatch(p)
        PROVE  Indexed'
    <2>1. \A q \in Pods : keysByPod'[q] = IF q = p THEN {} ELSE keysByPod[q]
      BY <1>3 DEF Unwatch, WatchInv, WatcherType
    <2>2. \A m \in Maps : \A c \in configs'[m] : c \in configs[m] /\ c[1] # p /\ c[1] \in Pods
      BY <1>3, UnwatchForgets DEF NoEntry, WatchInv, WatcherType, Copy
    <2> QED  BY <2>1, <2>2 DEF WatchInv, Indexed
  <1>4. CASE Restart
    BY <1>4 DEF Restart, Indexed
  <1> QED  BY <1>1, <1>2, <1>3, <1>4, OthersLeaveTheWatcher DEF vars, watcherVars

LEMMA EntriesStep == WatchInv /\ [Next]_vars => WatchesOnlyPodsThatRun'
  <1> SUFFICES ASSUME WatchInv, [Next]_vars
               PROVE  WatchesOnlyPodsThatRun'
    OBVIOUS
  <1>0. /\ life \in [Pods -> 0..MaxLife] /\ pc \in [Pods -> Pcs]
        /\ \A m \in Maps : \A c \in configs[m] : c[1] \in Pods
    BY DEF WatchInv, WatcherType, Copy
  <1>1. ASSUME NEW p \in Pods, PodAssigned(p)
        PROVE  WatchesOnlyPodsThatRun'
    BY <1>0, <1>1, EntriesStay DEF PodAssigned, Goto, watcherVars
  <1>2. ASSUME NEW p \in Pods, PodDeleted(p) \/ CreateFails(p) \/ CreateReads(p) \/ CreateWrites(p)
        PROVE  WatchesOnlyPodsThatRun'
    <2>1. UNCHANGED <<configs, life, recreated>>
      BY <1>2 DEF PodDeleted, CreateFails, CreateReads, CreateWrites, watcherVars, workerVars
    <2>2. /\ pc[p] \in {"volumes", "write", "watch"} \/ pc'[p] = "unwatch"
          /\ pc'[p] \in {"unwatch", "volumes", "write", "watch"}
          /\ \A q \in Pods : q # p => pc'[q] = pc[q]
      BY <1>0, <1>2 DEF PodDeleted, CreateFails, CreateReads, CreateWrites, Goto
    <2> QED  BY <2>1, <2>2, EntriesStay
  <1>3. ASSUME NEW p \in Pods, CreateAgain(p) \/ CleanVolumes(p)
        PROVE  WatchesOnlyPodsThatRun'
    BY <1>0, <1>3, EntriesStay DEF CreateAgain, CleanVolumes, Goto, watcherVars
  <1>4. ASSUME NEW p \in Pods, Watch(p)
        PROVE  WatchesOnlyPodsThatRun'
    <2>1. \A m \in Maps : \A c \in configs'[m] : c \in configs[m] \/ c = Current(p)
      BY <1>4 DEF Watch
    <2>2. UNCHANGED <<life, recreated>> /\ pc' = [pc EXCEPT ![p] = "running"]
      BY <1>4 DEF Watch, Goto, workerVars
    <2>3. pc'[p] = "running" /\ \A q \in Pods : q # p => pc'[q] = pc[q]
      BY <1>0, <2>2
    <2> QED  BY <1>0, <2>1, <2>2, <2>3 DEF WatchInv, WatchesOnlyPodsThatRun, Current
  <1>5. ASSUME NEW p \in Pods, Unwatch(p)
        PROVE  WatchesOnlyPodsThatRun'
    <2>1. \A m \in Maps : \A c \in configs'[m] : c \in configs[m] /\ c[1] # p /\ c[1] \in Pods
      BY <1>0, <1>5, UnwatchForgets DEF NoEntry
    <2>2. UNCHANGED <<life, recreated>> /\ \A q \in Pods : q # p => pc'[q] = pc[q]
      BY <1>0, <1>5 DEF Unwatch, Goto, workerVars
    <2> QED  BY <2>1, <2>2 DEF WatchInv, WatchesOnlyPodsThatRun, Current
  <1>6. CASE Restart
    BY <1>6 DEF Restart, WatchesOnlyPodsThatRun
  <1>7. CASE UNCHANGED <<configs, life, recreated, pc>>
    BY <1>7 DEF WatchInv, WatchesOnlyPodsThatRun, Current
  <1> QED  BY <1>1, <1>2, <1>3, <1>4, <1>5, <1>6, <1>7
           DEF Next, Worker, Updater, ResourceWritten, Resync, HandleEvent, UpdateReads,
               UpdateWrites, vars, watcherVars, workerVars

LEMMA WatchInvInvariant == Spec => []WatchInv
  <1>1. Init => WatchInv
    BY RefsAssumption, BoundAssumption
    DEF Init, WatchInv, WatcherType, Indexed, WatchesOnlyPodsThatRun, Pcs
  <1>2. WatchInv /\ [Next]_vars => WatchInv'
    BY TypeStep, IndexStep, EntriesStep DEF WatchInv
  <1> QED  BY <1>1, <1>2, PTL DEF Spec

\* However pods come, fail, are created again and go, and whenever systemk is
\* restarted: the watcher holds nothing of a pod outside its time there.
THEOREM OnlyRunningPodsAreWatched == Spec => []WatchesOnlyPodsThatRun
  <1>1. WatchInv => WatchesOnlyPodsThatRun
    BY DEF WatchInv
  <1> QED  BY <1>1, WatchInvInvariant, PTL

-----------------------------------------------------------------------------
(* The rest of the types, and the order in which contents reach the disk.  *)

\* The shape of what the lister holds, of what is under way and of the volumes.
DataType ==
    /\ content \in Contents
    /\ pending \subseteq Maps
    /\ todo \subseteq Copy
    /\ fetched \in [Pods -> Contents]
    /\ update \in [Copy -> Contents]
    /\ disk \in [Copy -> Contents]
    /\ restarts \in 0..MaxRestarts

LEMMA TypeHasTwoParts == TypeOK <=> WatcherType /\ DataType
  BY DEF TypeOK, WatcherType, DataType

\* What volumes() reads, and what it leaves in a volume.
LEMMA ReadAndWritten ==
    /\ DataType => \A p \in Pods : FromLister(p) \in Contents
    /\ \A volume, read \in Contents : Written(volume, read) \in Contents
    /\ Nothing \in Contents
  BY BoundAssumption DEF DataType, Contents, FromLister, Written, Nothing, Version

LEMMA DataStep == WatcherType /\ DataType /\ [Next]_vars => DataType'
  <1> SUFFICES ASSUME WatcherType, DataType, [Next]_vars
               PROVE  DataType'
    OBVIOUS
  <1> USE ReadAndWritten
  <1>1. ASSUME NEW m \in Maps, ResourceWritten(m)
        PROVE  DataType'
    <2>1. content[m] \in Version /\ content[m] + 1 \in Version
      BY <1>1, BoundAssumption DEF ResourceWritten, DataType, Contents, Version
    <2>2. content' \in Contents
      BY <1>1, <2>1 DEF ResourceWritten, DataType, Contents
    <2> QED  BY <1>1, <2>2 DEF ResourceWritten, DataType, handlerVars, workerVars
  <1>2. ASSUME NEW m \in Maps, Resync(m) \/ HandleEvent(m)
        PROVE  DataType'
    BY <1>2 DEF Resync, HandleEvent, DataType, WatcherType, handlerVars, workerVars
  <1>3. ASSUME NEW p \in Pods, CreateReads(p)
        PROVE  DataType'
    <2>1. fetched' \in [Pods -> Contents]
      BY <1>3 DEF CreateReads, DataType
    <2> QED  BY <1>3, <2>1 DEF CreateReads, DataType, clusterVars, handlerVars
  <1>4. ASSUME NEW p \in Pods, CreateWrites(p)
        PROVE  DataType'
    <2>1. Current(p) \in Copy
      BY <1>4, CurrentCopy DEF CreateWrites
    <2>2. disk[Current(p)] \in Contents /\ fetched[p] \in Contents
      BY <2>1 DEF DataType
    <2>3. disk' \in [Copy -> Contents] /\ fetched' \in [Pods -> Contents]
      BY <1>4, <2>1, <2>2 DEF CreateWrites, DataType
    <2> QED  BY <1>4, <2>3 DEF CreateWrites, DataType, clusterVars, handlerVars
  <1>5. ASSUME NEW p \in Pods, CleanVolumes(p)
        PROVE  DataType'
    <2>1. disk' \in [Copy -> Contents]
      BY <1>5 DEF CleanVolumes, DataType
    <2> QED  BY <1>5, <2>1 DEF CleanVolumes, DataType, clusterVars, handlerVars
  <1>6. ASSUME NEW c \in Copy, UpdateReads(c)
        PROVE  DataType'
    <2>1. c[1] \in Pods
      BY DEF Copy
    <2>2. update' \in [Copy -> Contents]
      BY <1>6, <2>1 DEF UpdateReads, DataType
    <2> QED  BY <1>6, <2>2 DEF UpdateReads, DataType, clusterVars, workerVars
  <1>7. ASSUME NEW c \in Copy, UpdateWrites(c)
        PROVE  DataType'
    <2>1. disk' \in [Copy -> Contents] /\ update' \in [Copy -> Contents]
      BY <1>7 DEF UpdateWrites, DataType
    <2> QED  BY <1>7, <2>1 DEF UpdateWrites, DataType, clusterVars, workerVars
  <1>8. CASE Restart
    BY <1>8, BoundAssumption DEF Restart, DataType
  <1>9. CASE UNCHANGED <<clusterVars, handlerVars, fetched, disk>>
    BY <1>9 DEF DataType, clusterVars, handlerVars
  <1> QED  BY <1>1, <1>2, <1>3, <1>4, <1>5, <1>6, <1>7, <1>8, <1>9
           DEF Next, Worker, Updater, PodAssigned, PodDeleted, CreateAgain, CreateFails,
               Watch, Unwatch, vars, workerVars

\* No entry of read would put an older version into the volume.
Newer(read, volume) == \A m \in Maps : read[m] = 0 \/ volume[m] <= read[m]

\* Nothing on disk is ahead of the cluster.
DiskInv == \A c \in Copy, m \in Maps : disk[c][m] <= content[m]

\* Only a copy the handler has still to tell is being updated, and a pod whose
\* first CreatePod is not over is not among them: Watch comes last.
TodoInv ==
    /\ \A c \in todo :
          /\ c[2] <= life[c[1]]
          /\ c = Current(c[1]) =>
                \/ c[1] \in recreated
                \/ pc[c[1]] \in {"running", "unwatch", "clean", "gone"}
    /\ \A c \in Copy : c \notin todo => update[c] = Nothing
    /\ \A p \in recreated : pc[p] # "gone"

\* The copies that two goroutines may write at a time.
Contended(c) == c = Current(c[1]) /\ c[1] \in recreated

\* What a worker or the handler is about to write is not older than the volume.
OrderInv ==
    /\ \A p \in Pods :
          pc[p] = "write" /\ p \notin recreated => Newer(fetched[p], disk[Current(p)])
    /\ \A c \in Copy : ~Contended(c) => Newer(update[c], disk[c])


\* How a volume, what is read and what is written compare, resource by resource.
LEMMA WrittenIsNewer ==
    ASSUME NEW volume \in Contents, NEW read \in Contents, Newer(read, volume)
    PROVE  \A m \in Maps : volume[m] <= Written(volume, read)[m]
  BY DEF Contents, Version, Newer, Written

LEMMA ReadIsNewest ==
    ASSUME DataType, DiskInv, NEW c \in Copy, NEW p \in Pods
    PROVE  Newer(FromLister(p), disk[c])
  BY DEF DataType, Contents, Version, DiskInv, Newer, FromLister

LEMMA EmptyIsOldest ==
    ASSUME NEW read \in Contents
    PROVE  Newer(read, Nothing) /\ Newer(Nothing, read)
  BY DEF Contents, Version, Newer, Nothing

\* What is on its way to the disk is not ahead of the cluster either.
ReadInv ==
    /\ \A p \in Pods, m \in Maps : fetched[p][m] <= content[m]
    /\ \A c \in Copy, m \in Maps : update[c][m] <= content[m]

LEMMA DiskStep == WatchInv /\ DataType /\ DiskInv /\ ReadInv /\ [Next]_vars => DiskInv' /\ ReadInv'
  <1> SUFFICES ASSUME WatchInv, DataType, DiskInv, ReadInv, [Next]_vars
               PROVE  DiskInv' /\ ReadInv'
    OBVIOUS
  <1>t. /\ \A m \in Maps : content[m] \in Nat
        /\ \A p \in Pods, m \in Maps : fetched[p][m] \in Nat
        /\ \A c \in Copy, m \in Maps : update[c][m] \in Nat /\ disk[c][m] \in Nat
    BY BoundAssumption DEF DataType, Contents, Version
  <1>f. \A p \in Pods, m \in Maps : FromLister(p)[m] <= content[m]
    BY <1>t DEF FromLister
  <1>1. ASSUME NEW m \in Maps, ResourceWritten(m)
        PROVE  DiskInv' /\ ReadInv'
    <2>1. \A n \in Maps : content[n] <= content'[n] /\ content'[n] \in Nat
      BY <1>1, <1>t DEF ResourceWritten, DataType, Contents
    <2>2. UNCHANGED <<fetched, update, disk>>
      BY <1>1 DEF ResourceWritten, handlerVars, workerVars
    <2> QED  BY <1>t, <2>1, <2>2 DEF DiskInv, ReadInv
  <1>2. ASSUME NEW p \in Pods, CreateReads(p)
        PROVE  DiskInv' /\ ReadInv'
    <2>1. \A q \in Pods : fetched'[q] = IF q = p THEN FromLister(p) ELSE fetched[q]
      BY <1>2 DEF CreateReads, DataType
    <2>2. UNCHANGED <<content, update, disk>>
      BY <1>2 DEF CreateReads, clusterVars, handlerVars
    <2> QED  BY <1>f, <2>1, <2>2 DEF DiskInv, ReadInv
  <1>3. ASSUME NEW p \in Pods, CreateWrites(p)
        PROVE  DiskInv' /\ ReadInv'
    <2>1. \A q \in Pods : fetched'[q] = IF q = p THEN Nothing ELSE fetched[q]
      BY <1>3 DEF CreateWrites, DataType
    <2>2. \A c \in Copy : disk'[c] = IF c = Current(p) THEN Written(disk[c], fetched[p]) ELSE disk[c]
      BY <1>3 DEF CreateWrites, DataType
    <2>3. \A c \in Copy, m \in Maps : Written(disk[c], fetched[p])[m] <= content[m]
      BY DEF Written, DiskInv, ReadInv
    <2>4. UNCHANGED <<content, update>>
      BY <1>3 DEF CreateWrites, clusterVars, handlerVars
    <2>5. ReadInv'
      BY <1>t, <2>1, <2>4 DEF ReadInv, Nothing
    <2> QED  BY <2>2, <2>3, <2>4, <2>5 DEF DiskInv
  <1>4. ASSUME NEW p \in Pods, CleanVolumes(p)
        PROVE  DiskInv' /\ ReadInv'
    <2>1. \A c \in Copy : disk'[c] = IF c = Current(p) THEN Nothing ELSE disk[c]
      BY <1>4 DEF CleanVolumes, DataType
    <2>2. UNCHANGED <<content, fetched, update>>
      BY <1>4 DEF CleanVolumes, clusterVars, handlerVars
    <2> QED  BY <1>t, <2>1, <2>2 DEF DiskInv, ReadInv, Nothing
  <1>5. ASSUME NEW c \in Copy, UpdateReads(c)
        PROVE  DiskInv' /\ ReadInv'
    <2>1. \A d \in Copy : update'[d] = IF d = c THEN FromLister(c[1]) ELSE update[d]
      BY <1>5 DEF UpdateReads, DataType
    <2>2. UNCHANGED <<content, fetched, disk>> /\ c[1] \in Pods
      BY <1>5 DEF UpdateReads, clusterVars, workerVars, Copy
    <2> QED  BY <1>f, <2>1, <2>2 DEF DiskInv, ReadInv
  <1>6. ASSUME NEW c \in Copy, UpdateWrites(c)
        PROVE  DiskInv' /\ ReadInv'
    <2>1. \A d \in Copy : update'[d] = IF d = c THEN Nothing ELSE update[d]
      BY <1>6 DEF UpdateWrites, DataType
    <2>2. \A d \in Copy : disk'[d] = IF d = c THEN Written(disk[c], update[c]) ELSE disk[d]
      BY <1>6 DEF UpdateWrites, DataType
    <2>3. \A m \in Maps : Written(disk[c], update[c])[m] <= content[m]
      BY DEF Written, DiskInv, ReadInv
    <2>4. UNCHANGED <<content, fetched>>
      BY <1>6 DEF UpdateWrites, clusterVars, workerVars
    <2>5. ReadInv'
      BY <1>t, <2>1, <2>4 DEF ReadInv, Nothing
    <2> QED  BY <2>2, <2>3, <2>4, <2>5 DEF DiskInv
  <1>7. CASE Restart
    BY <1>7, <1>t DEF Restart, DiskInv, ReadInv, Nothing
  <1>8. CASE UNCHANGED <<content, fetched, update, disk>>
    BY <1>8 DEF DiskInv, ReadInv
  <1> QED  BY <1>1, <1>2, <1>3, <1>4, <1>5, <1>6, <1>7, <1>8
           DEF Next, Worker, Updater, Resync, HandleEvent, PodAssigned, PodDeleted, CreateAgain,
               CreateFails, Watch, Unwatch, vars, clusterVars, handlerVars, workerVars

LEMMA TodoStep == WatchInv /\ DataType /\ TodoInv /\ [Next]_vars => TodoInv'
  <1> SUFFICES ASSUME WatchInv, DataType, TodoInv, [Next]_vars
               PROVE  TodoInv'
    OBVIOUS
  <1>t. /\ life \in [Pods -> 0..MaxLife] /\ pc \in [Pods -> Pcs] /\ recreated \subseteq Pods
        /\ todo \subseteq Copy /\ update \in [Copy -> Contents]
        /\ \A c \in Copy : c[1] \in Pods /\ c[2] \in 1..MaxLife /\ c = <<c[1], c[2]>>
    BY DEF WatchInv, WatcherType, DataType, Copy
  <1>1. ASSUME NEW p \in Pods, PodAssigned(p)
        PROVE  TodoInv'
    <2>1. UNCHANGED <<todo, update, recreated>>
      BY <1>1 DEF PodAssigned, handlerVars
    <2>2. \A q \in Pods : /\ life'[q] = IF q = p THEN life[p] + 1 ELSE life[q]
                          /\ pc'[q] = IF q = p THEN "volumes" ELSE pc[q]
      BY <1>1, <1>t DEF PodAssigned, Goto
    <2>3. \A c \in todo : c[1] \in Pods /\ c[2] \in Nat /\ c[2] <= life[c[1]] /\ life[c[1]] \in Nat
      BY <1>t, BoundAssumption DEF TodoInv
    <2>4. \A c \in todo : c[2] <= life'[c[1]]
      BY <2>2, <2>3
    <2>5. \A c \in todo : c[1] = p => c # <<p, life[p] + 1>>
      BY <2>3
    <2>6. \A c \in todo : c[1] = p => c # Current(p)'
      BY <2>2, <2>5 DEF Current
    <2>7. \A c \in todo : c[1] # p => (c = Current(c[1])' <=> c = Current(c[1]))
      BY <2>2, <2>3 DEF Current
    <2>8. \A c \in todo : c = Current(c[1])' =>
             c[1] \in recreated \/ pc'[c[1]] \in {"running", "unwatch", "clean", "gone"}
      BY <2>2, <2>3, <2>6, <2>7 DEF TodoInv
    <2>9. \A q \in recreated : pc'[q] # "gone"
      BY <1>t, <2>2 DEF TodoInv
    <2> QED  BY <2>1, <2>4, <2>8, <2>9 DEF TodoInv
  <1>2. ASSUME NEW p \in Pods, life' = life, todo' = todo, update' = update, recreated' = recreated,
               \A q \in Pods : q # p => pc'[q] = pc[q], pc'[p] # "gone",
               \/ pc[p] \in {"volumes", "write", "watch"}
               \/ pc'[p] \in {"running", "unwatch", "clean"}
        PROVE  TodoInv'
    <2>1. \A c \in todo : c = Current(c[1])' <=> c = Current(c[1])
      BY <1>2 DEF Current
    <2>2. \A c \in todo : c = Current(c[1]) =>
             c[1] \in recreated \/ pc'[c[1]] \in {"running", "unwatch", "clean", "gone"}
      BY <1>2, <1>t DEF TodoInv
    <2>3. \A q \in recreated : pc'[q] # "gone"
      BY <1>2, <1>t DEF TodoInv
    <2> QED  BY <1>2, <2>1, <2>2, <2>3 DEF TodoInv
  <1>3. ASSUME NEW p \in Pods,
               PodDeleted(p) \/ CreateFails(p) \/ CreateReads(p) \/ CreateWrites(p)
        PROVE  TodoInv'
    <2>1. UNCHANGED <<life, todo, update, recreated>>
      BY <1>3 DEF PodDeleted, CreateFails, CreateReads, CreateWrites, handlerVars, workerVars
    <2>2. /\ \A q \in Pods : q # p => pc'[q] = pc[q]
          /\ pc'[p] \in {"unwatch", "volumes", "write", "watch"}
          /\ pc[p] \in {"volumes", "write", "watch"} \/ pc'[p] = "unwatch"
      BY <1>3, <1>t DEF PodDeleted, CreateFails, CreateReads, CreateWrites, Goto
    <2> QED  BY <1>2, <2>1, <2>2
  <1>4. ASSUME NEW p \in Pods, Watch(p) \/ Unwatch(p)
        PROVE  TodoInv'
    <2>1. UNCHANGED <<life, todo, update, recreated>>
      BY <1>4 DEF Watch, Unwatch, handlerVars, workerVars
    <2>2. (\A q \in Pods : q # p => pc'[q] = pc[q]) /\ pc'[p] \in {"running", "clean"}
      BY <1>4, <1>t DEF Watch, Unwatch, Goto
    <2> QED  BY <1>2, <2>1, <2>2
  <1>5. ASSUME NEW p \in Pods, CreateAgain(p)
        PROVE  TodoInv'
    <2>1. UNCHANGED <<life, todo, update>> /\ recreated' = recreated \cup {p}
      BY <1>5 DEF CreateAgain, handlerVars
    <2>2. \A q \in Pods : pc'[q] = IF q = p THEN "volumes" ELSE pc[q]
      BY <1>5, <1>t DEF CreateAgain, Goto
    <2>3. \A c \in todo : c = Current(c[1])' <=> c = Current(c[1])
      BY <2>1 DEF Current
    <2> QED  BY <1>t, <2>1, <2>2, <2>3 DEF TodoInv
  <1>6. ASSUME NEW p \in Pods, CleanVolumes(p)
        PROVE  TodoInv'
    <2>1. UNCHANGED <<life, todo, update>> /\ recreated' = recreated \ {p}
      BY <1>6 DEF CleanVolumes, handlerVars
    <2>2. \A q \in Pods : pc'[q] = IF q = p THEN "gone" ELSE pc[q]
      BY <1>6, <1>t DEF CleanVolumes, Goto
    <2>3. \A c \in todo : c = Current(c[1])' <=> c = Current(c[1])
      BY <2>1 DEF Current
    <2> QED  BY <1>t, <2>1, <2>2, <2>3 DEF TodoInv
  <1>7. ASSUME NEW m \in Maps, HandleEvent(m)
        PROVE  TodoInv'
    <2>1. todo' = configs[m] /\ UNCHANGED <<update, life, recreated, pc>>
      BY <1>7 DEF HandleEvent, workerVars
    <2>2. \A c \in Copy : update[c] = Nothing
      BY <1>7 DEF HandleEvent, TodoInv
    <2>3. \A c \in configs[m] :
             /\ c \in Copy /\ c = Current(c[1])
             /\ \/ pc[c[1]] \in {"running", "unwatch"}
                \/ c[1] \in recreated
      BY DEF WatchInv, WatcherType, WatchesOnlyPodsThatRun
    <2>4. \A c \in configs[m] : c[2] <= life[c[1]]
      BY <1>t, <2>3, BoundAssumption DEF Current
    <2> QED  BY <2>1, <2>2, <2>3, <2>4 DEF TodoInv, Current
  <1>8. ASSUME NEW c \in Copy, UpdateReads(c)
        PROVE  TodoInv'
    <2>1. UNCHANGED <<life, todo, recreated, pc>> /\ c \in todo
      BY <1>8 DEF UpdateReads, workerVars
    <2>2. \A d \in Copy : d # c => update'[d] = update[d]
      BY <1>8, <1>t DEF UpdateReads
    <2> QED  BY <2>1, <2>2 DEF TodoInv, Current
  <1>9. ASSUME NEW c \in Copy, UpdateWrites(c)
        PROVE  TodoInv'
    <2>1. UNCHANGED <<life, recreated, pc>> /\ todo' = todo \ {c}
      BY <1>9 DEF UpdateWrites, workerVars
    <2>2. \A d \in Copy : update'[d] = IF d = c THEN Nothing ELSE update[d]
      BY <1>9, <1>t DEF UpdateWrites
    <2> QED  BY <2>1, <2>2 DEF TodoInv, Current
  <1>10. CASE Restart
    BY <1>10 DEF Restart, TodoInv
  <1>11. CASE UNCHANGED <<life, todo, update, recreated, pc>>
    BY <1>11 DEF TodoInv, Current
  <1> QED  BY <1>1, <1>3, <1>4, <1>5, <1>6, <1>7, <1>8, <1>9, <1>10, <1>11
           DEF Next, Worker, Updater, ResourceWritten, Resync, vars, handlerVars, workerVars

\* What is being updated is not contended by the first CreatePod of its pod.
LEMMA FirstCreateIsAlone ==
    ASSUME WatchInv, TodoInv, NEW p \in Pods, p \notin recreated,
           pc[p] \in {"volumes", "write", "watch"}
    PROVE  Current(p) \in Copy /\ Current(p) \notin todo /\ update[Current(p)] = Nothing
  <1>1. Current(p) \in Copy /\ Current(p)[1] = p
    BY CurrentCopy DEF WatchInv, Current
  <1>2. Current(p) \notin todo
    BY <1>1 DEF TodoInv
  <1> QED  BY <1>1, <1>2 DEF TodoInv

\* The inductive invariant.
IInv == WatchInv /\ DataType /\ DiskInv /\ ReadInv /\ TodoInv /\ OrderInv

LEMMA OrderStep == IInv /\ [Next]_vars => OrderInv'
  <1> SUFFICES ASSUME WatchInv, DataType, DiskInv, ReadInv, TodoInv, OrderInv, [Next]_vars
               PROVE  OrderInv'
    BY DEF IInv
  <1>t. /\ life \in [Pods -> 0..MaxLife] /\ pc \in [Pods -> Pcs] /\ recreated \subseteq Pods
        /\ fetched \in [Pods -> Contents] /\ update \in [Copy -> Contents]
        /\ disk \in [Copy -> Contents] /\ Nothing \in Contents
        /\ \A c \in Copy : c[1] \in Pods /\ c = <<c[1], c[2]>>
    BY ReadAndWritten DEF WatchInv, WatcherType, DataType, Copy
  \* A step that leaves the reads and the disk alone and has no first CreatePod
  \* come to its write.
  <1>1. ASSUME fetched' = fetched, update' = update, disk' = disk,
               \A p \in Pods : pc'[p] = "write" => pc[p] = "write" /\ life'[p] = life[p]
                                                  /\ (p \in recreated => p \in recreated'),
               \A c \in Copy : Contended(c) => Contended(c)' \/ Newer(update[c], disk[c])
        PROVE  OrderInv'
    <2>1. \A p \in Pods : pc'[p] = "write" /\ p \notin recreated' =>
                             Newer(fetched[p], disk[Current(p)'])
      BY <1>1 DEF OrderInv, Current
    <2>2. \A c \in Copy : ~Contended(c)' => Newer(update[c], disk[c])
      BY <1>1 DEF OrderInv
    <2> QED  BY <1>1, <2>1, <2>2 DEF OrderInv
  <1>2. ASSUME NEW p \in Pods, PodAssigned(p)
        PROVE  OrderInv'
    <2>1. UNCHANGED <<fetched, update, disk, recreated>>
      BY <1>2 DEF PodAssigned, handlerVars
    <2>2. \A q \in Pods : /\ life'[q] = IF q = p THEN life[p] + 1 ELSE life[q]
                          /\ pc'[q] = IF q = p THEN "volumes" ELSE pc[q]
      BY <1>2, <1>t DEF PodAssigned, Goto
    <2>3. p \notin recreated
      BY <1>2 DEF PodAssigned, TodoInv
    <2>4. \A c \in Copy : Contended(c) => Contended(c)'
      BY <1>t, <2>1, <2>2, <2>3 DEF Contended, Current
    <2> QED  BY <1>1, <2>1, <2>2, <2>4
  <1>3. ASSUME NEW p \in Pods, PodDeleted(p) \/ CreateFails(p) \/ Watch(p) \/ Unwatch(p)
        PROVE  OrderInv'
    <2>1. UNCHANGED <<fetched, update, disk, recreated, life>>
      BY <1>3 DEF PodDeleted, CreateFails, Watch, Unwatch, handlerVars, workerVars
    <2>2. \A q \in Pods : pc'[q] = "write" => pc[q] = "write"
      BY <1>3, <1>t DEF PodDeleted, CreateFails, Watch, Unwatch, Goto
    <2> QED  BY <1>1, <2>1, <2>2 DEF Contended, Current
  <1>4. ASSUME NEW p \in Pods, CreateAgain(p)
        PROVE  OrderInv'
    <2>1. UNCHANGED <<fetched, update, disk, life>> /\ recreated' = recreated \cup {p}
      BY <1>4 DEF CreateAgain, handlerVars
    <2>2. \A q \in Pods : pc'[q] = "write" => pc[q] = "write"
      BY <1>4, <1>t DEF CreateAgain, Goto
    <2> QED  BY <1>1, <2>1, <2>2 DEF Contended, Current
  <1>5. ASSUME NEW p \in Pods, CreateReads(p)
        PROVE  OrderInv'
    <2>1. UNCHANGED <<update, disk, life, recreated>>
      BY <1>5 DEF CreateReads, handlerVars
    <2>2. \A q \in Pods : /\ fetched'[q] = IF q = p THEN FromLister(p) ELSE fetched[q]
                          /\ pc'[q] = IF q = p THEN "write" ELSE pc[q]
      BY <1>5, <1>t DEF CreateReads, Goto
    <2>3. Current(p) \in Copy
      BY <1>5, CurrentCopy DEF CreateReads, WatchInv
    <2>4. Newer(FromLister(p), disk[Current(p)])
      BY <2>3, ReadIsNewest
    <2>5. \A q \in Pods : pc'[q] = "write" /\ q \notin recreated =>
                             Newer(fetched'[q], disk[Current(q)])
      BY <2>2, <2>4 DEF OrderInv
    <2> QED  BY <2>1, <2>5 DEF OrderInv, Contended, Current
  <1>6. ASSUME NEW p \in Pods, CreateWrites(p)
        PROVE  OrderInv'
    <2>1. UNCHANGED <<update, life, recreated>> /\ pc[p] = "write"
      BY <1>6 DEF CreateWrites, handlerVars
    <2>2. \A q \in Pods : q # p => fetched'[q] = fetched[q]
      BY <1>6, <1>t DEF CreateWrites
    <2>3. \A q \in Pods : pc'[q] = IF q = p THEN "watch" ELSE pc[q]
      BY <1>6, <1>t DEF CreateWrites, Goto
    <2>4. \A c \in Copy : c # Current(p) => disk'[c] = disk[c]
      BY <1>6, <1>t DEF CreateWrites
    <2>5. Current(p) \in Copy /\ disk'[Current(p)] \in Contents
      BY <1>6, <1>t, CurrentCopy, ReadAndWritten DEF CreateWrites, WatchInv
    <2>6. ASSUME NEW q \in Pods, pc'[q] = "write", q \notin recreated
          PROVE  Newer(fetched'[q], disk'[Current(q)])
      <3>1. q # p /\ pc[q] = "write" /\ fetched'[q] = fetched[q]
        BY <2>2, <2>3, <2>6
      <3>2. Current(q) \in Copy /\ Current(q) # Current(p)
        BY <3>1, CurrentCopy DEF WatchInv, Current
      <3>3. disk'[Current(q)] = disk[Current(q)]
        BY <2>4, <3>2
      <3> QED  BY <2>6, <3>1, <3>3 DEF OrderInv
    <2>7. ASSUME NEW c \in Copy, ~Contended(c)
          PROVE  Newer(update[c], disk'[c])
      <3>1. CASE c # Current(p)
        BY <2>4, <2>7, <3>1 DEF OrderInv
      <3>2. CASE c = Current(p)
        <4>1. p \notin recreated
          BY <2>7, <3>2 DEF Contended, Current
        <4>2. update[c] = Nothing
          BY <2>1, <3>2, <4>1, FirstCreateIsAlone
        <4> QED  BY <2>5, <3>2, <4>2, EmptyIsOldest DEF Newer, Nothing
      <3> QED  BY <3>1, <3>2
    <2>8. \A q \in Pods : Current(q)' = Current(q)
      BY <2>1 DEF Current
    <2>9. \A c \in Copy : Contended(c)' <=> Contended(c)
      BY <1>t, <2>1, <2>8 DEF Contended
    <2> QED  BY <2>1, <2>6, <2>7, <2>8, <2>9 DEF OrderInv
  <1>7. ASSUME NEW p \in Pods, CleanVolumes(p)
        PROVE  OrderInv'
    <2>1. UNCHANGED <<fetched, update, life>> /\ recreated' = recreated \ {p}
      BY <1>7 DEF CleanVolumes, handlerVars
    <2>2. \A q \in Pods : pc'[q] = IF q = p THEN "gone" ELSE pc[q]
      BY <1>7, <1>t DEF CleanVolumes, Goto
    <2>3. \A c \in Copy : disk'[c] = IF c = Current(p) THEN Nothing ELSE disk[c]
      BY <1>7, <1>t DEF CleanVolumes
    <2>4. \A q \in Pods : Current(q)' = Current(q)
      BY <2>1 DEF Current
    <2>5. ASSUME NEW q \in Pods, pc'[q] = "write", q \notin recreated'
          PROVE  Newer(fetched[q], disk'[Current(q)])
      <3>1. q # p /\ pc[q] = "write" /\ q \notin recreated
        BY <2>1, <2>2, <2>5
      <3>2. Current(q) \in Copy /\ Current(q) # Current(p)
        BY <3>1, CurrentCopy DEF WatchInv, Current
      <3>3. disk'[Current(q)] = disk[Current(q)]
        BY <2>3, <3>2
      <3> QED  BY <3>1, <3>3 DEF OrderInv
    <2>6. ASSUME NEW c \in Copy, ~Contended(c)'
          PROVE  Newer(update[c], disk'[c])
      <3>1. CASE c # Current(p)
        <4>1. ~Contended(c)
          BY <1>t, <2>1, <2>4, <2>6, <3>1 DEF Contended
        <4> QED  BY <2>3, <3>1, <4>1 DEF OrderInv
      <3>2. CASE c = Current(p)
        BY <1>t, <2>3, <3>2, EmptyIsOldest
      <3> QED  BY <3>1, <3>2
    <2> QED  BY <2>1, <2>4, <2>5, <2>6 DEF OrderInv
  <1>8. ASSUME NEW c \in Copy, UpdateReads(c)
        PROVE  OrderInv'
    <2>1. UNCHANGED <<fetched, disk, life, recreated, pc>> /\ c[1] \in Pods
      BY <1>8, <1>t DEF UpdateReads, workerVars
    <2>2. \A d \in Copy : update'[d] = IF d = c THEN FromLister(c[1]) ELSE update[d]
      BY <1>8, <1>t DEF UpdateReads
    <2>3. Newer(FromLister(c[1]), disk[c])
      BY <2>1, ReadIsNewest
    <2> QED  BY <2>1, <2>2, <2>3 DEF OrderInv, Contended, Current
  <1>9. ASSUME NEW c \in Copy, UpdateWrites(c)
        PROVE  OrderInv'
    <2>1. UNCHANGED <<fetched, life, recreated, pc>> /\ c \in todo /\ c[1] \in Pods
      BY <1>9, <1>t DEF UpdateWrites, workerVars
    <2>2. \A d \in Copy : d # c => disk'[d] = disk[d] /\ update'[d] = update[d]
      BY <1>9, <1>t DEF UpdateWrites
    <2>3. update'[c] = Nothing /\ disk'[c] \in Contents
      BY <1>9, <1>t, ReadAndWritten DEF UpdateWrites
    <2>4. ASSUME NEW p \in Pods, pc[p] = "write", p \notin recreated
          PROVE  Newer(fetched[p], disk'[Current(p)])
      <3>1. Current(p) \in Copy /\ Current(p) \notin todo
        BY <2>4, FirstCreateIsAlone
      <3> QED  BY <2>1, <2>2, <2>4, <3>1 DEF OrderInv
    <2>5. Newer(update'[c], disk'[c])
      BY <2>3 DEF Newer, Nothing
    <2>6. \A d \in Copy : ~Contended(d) => Newer(update'[d], disk'[d])
      BY <2>2, <2>5 DEF OrderInv
    <2> QED  BY <2>1, <2>4, <2>6 DEF OrderInv, Contended, Current
  <1>10. CASE Restart
    <2>1. UNCHANGED <<disk, life>> /\ update' = [c \in Copy |-> Nothing]
      BY <1>10 DEF Restart
    <2>2. \A p \in Pods : pc'[p] # "write"
      BY <1>10 DEF Restart, AfterRestart
    <2> QED  BY <2>1, <2>2 DEF OrderInv, Newer, Nothing
  <1>11. CASE UNCHANGED <<fetched, update, disk, life, recreated, pc>>
    BY <1>11 DEF OrderInv, Contended, Current
  <1> QED  BY <1>2, <1>3, <1>4, <1>5, <1>6, <1>7, <1>8, <1>9, <1>10, <1>11
           DEF Next, Worker, Updater, ResourceWritten, Resync, HandleEvent, vars,
               handlerVars, workerVars

LEMMA IInvInvariant == Spec => []IInv
  <1>1. Init => IInv
    <2>1. Init => WatchInv
      BY RefsAssumption, BoundAssumption
      DEF Init, WatchInv, WatcherType, Indexed, WatchesOnlyPodsThatRun, Pcs
    <2>2. Init => DataType
      BY ReadAndWritten, BoundAssumption DEF Init, DataType
    <2>3. Init => DiskInv /\ ReadInv /\ TodoInv /\ OrderInv
      BY DEF Init, DiskInv, ReadInv, TodoInv, OrderInv, Newer, Nothing
    <2> QED  BY <2>1, <2>2, <2>3 DEF IInv
  <1>2. IInv /\ [Next]_vars => IInv'
    BY TypeStep, IndexStep, EntriesStep, DataStep, DiskStep, TodoStep, OrderStep DEF IInv, WatchInv
  <1> QED  BY <1>1, <1>2, PTL DEF Spec

\* Every variable of the watcher and of what it drives keeps its type.
THEOREM TypesAreOK == Spec => []TypeOK
  <1>1. IInv => TypeOK
    BY TypeHasTwoParts DEF IInv, WatchInv
  <1> QED  BY <1>1, IInvInvariant, PTL

\* The first CreatePod of a pod and the informer's updates never put an older
\* version of a resource over a newer one, whatever is written to the cluster in
\* between, however often the pod's CreatePod fails, and whatever is left under
\* way when a pod is deleted.
THEOREM NothingStaleIsWritten == Spec => NoStaleOverwrite
  <1>1. ASSUME IInv, [Next]_vars, NEW c \in Copy, NEW m \in Maps, disk'[c][m] < disk[c][m]
        PROVE  disk'[c] = Nothing \/ c[1] \in recreated
    <2>r. DataType /\ c[1] \in Pods
      BY <1>1 DEF IInv, Copy
    <2>s. /\ \A d \in Copy : disk[d] \in Contents /\ update[d] \in Contents
          /\ \A p \in Pods : fetched[p] \in Contents
          /\ disk \in [Copy -> Contents]
      BY <2>r DEF DataType
    <2>t. disk[c][m] \in Nat
      BY <2>s, BoundAssumption DEF Contents, Version
    <2>1. ASSUME NEW p \in Pods, CreateWrites(p)
          PROVE  c[1] \in recreated
      <3>1. c = Current(p) /\ disk'[c] = Written(disk[c], fetched[p])
        BY <1>1, <2>s, <2>t, <2>1 DEF CreateWrites
      <3>2. ~Newer(fetched[p], disk[c])
        BY <1>1, <2>s, <2>t, <3>1, WrittenIsNewer, ReadAndWritten DEF Contents, Version
      <3> QED  BY <1>1, <2>1, <3>1, <3>2 DEF IInv, OrderInv, CreateWrites, Current
    <2>2. ASSUME NEW p \in Pods, CleanVolumes(p)
          PROVE  disk'[c] = Nothing
      BY <1>1, <2>s, <2>t, <2>2 DEF CleanVolumes
    <2>3. ASSUME NEW d \in Copy, UpdateWrites(d)
          PROVE  c[1] \in recreated
      <3>1. c = d /\ disk'[c] = Written(disk[c], update[c])
        BY <1>1, <2>s, <2>t, <2>3 DEF UpdateWrites
      <3>2. ~Newer(update[c], disk[c])
        BY <1>1, <2>s, <2>t, <3>1, WrittenIsNewer, ReadAndWritten DEF Contents, Version
      <3> QED  BY <1>1, <3>2 DEF IInv, OrderInv, Contended
    <2>4. disk' # disk
      BY <1>1, <2>t
    <2> QED  BY <1>1, <2>1, <2>2, <2>3, <2>4
             DEF Next, Worker, Updater, ResourceWritten, Resync, HandleEvent, PodAssigned,
                 PodDeleted, CreateAgain, CreateFails, CreateReads, Watch, Unwatch,
                 UpdateReads, Restart, vars, clusterVars, handlerVars, workerVars
  <1>2. IInv /\ [Next]_vars =>
           [\A c \in Copy, m \in Maps :
               disk'[c][m] < disk[c][m] => disk'[c] = Nothing \/ c[1] \in recreated]_vars
    BY <1>1
  <1> QED  BY <1>2, IInvInvariant, PTL DEF Spec, NoStaleOverwrite

-----------------------------------------------------------------------------
(* The watcher implements WatchRegistry when no resource is in two pods.   *)

NothingShared == \A p, q \in Pods : p # q => Refs[p] \cap Refs[q] = {}

LEMMA WatchImplements ==
    ASSUME WatchInv, NEW p \in Pods, Watch(p)
    PROVE  Registry!Watch(p)
  <1>1. Tracked' = Tracked \cup ({p} \X Refs[p])
    <2>1. Refs[p] \subseteq Maps
      BY RefsAssumption
    <2>2. \A m \in Maps : configs'[m] = IF m \in Refs[p] THEN configs[m] \cup {Current(p)}
                                        ELSE configs[m]
      BY DEF Watch
    <2>3. Current(p)[1] = p
      BY DEF Current
    <2>4. \A q \in Pods, m \in Maps :
             (\E c \in configs'[m] : c[1] = q)
                <=> (\E c \in configs[m] : c[1] = q) \/ (q = p /\ m \in Refs[p])
      BY <2>2, <2>3
    <2> QED  BY <2>1, <2>4 DEF Tracked
  <1>2. restarts' = restarts
    BY DEF Watch, clusterVars
  <1> QED  BY <1>1, <1>2 DEF Registry!Watch

LEMMA UnwatchImplements ==
    ASSUME NothingShared, WatchInv, NEW p \in Pods, Unwatch(p)
    PROVE  Registry!Unwatch(p)
  <1>1. \A m \in Maps : \A c \in configs[m] : c[1] \in Pods /\ m \in Refs[c[1]]
    BY DEF WatchInv, WatcherType, Indexed, Copy
  <1>2. keysByPod[p] \subseteq Refs[p]
    BY DEF WatchInv, Indexed
  <1>3. \A m \in Maps : \A c \in configs[m] : m \in keysByPod[p] => c[1] = p
    BY <1>1, <1>2 DEF NothingShared
  <1>4. \A m \in Maps : \A c \in configs[m] : c[1] = p => m \in keysByPod[p]
    BY DEF WatchInv, Indexed
  <1>5. Tracked' = Tracked \ ({p} \X Maps)
    BY <1>3, <1>4, UnwatchForgets DEF Tracked
  <1>6. restarts' = restarts
    BY DEF Unwatch, clusterVars
  <1> QED  BY <1>5, <1>6 DEF Registry!Unwatch

\* Watch and Unwatch are what WatchRegistry promises, and nothing but them and a
\* restart changes who is told of what, if no two pods mount the same resource.
\* (With a shared one Unwatch takes away the watch of the other pod as well.)
THEOREM WatcherRefinesRegistry ==
    ASSUME NothingShared
    PROVE  Spec => ImplementsRegistry
  <1>1. Init => Registry!Init
    BY DEF Init, Registry!Init, Tracked
  <1>2. WatchInv /\ [Next]_vars => [Registry!Next]_(Registry!vars)
    <2> SUFFICES ASSUME WatchInv, [Next]_vars
                 PROVE  [Registry!Next]_(Registry!vars)
      OBVIOUS
    <2>1. CASE Restart
      BY <2>1 DEF Restart, Registry!Next, Registry!Forget, Tracked
    <2>2. ASSUME NEW p \in Pods, Watch(p) \/ Unwatch(p)
          PROVE  Registry!Next
      BY <2>2, WatchImplements, UnwatchImplements DEF Registry!Next
    <2>3. CASE UNCHANGED <<configs, keysByPod, restarts>>
      BY <2>3 DEF Registry!vars, Tracked
    <2> QED  BY <2>1, <2>2, <2>3, OthersLeaveTheWatcher DEF vars, watcherVars, clusterVars
  <1> QED  BY <1>1, <1>2, WatchInvInvariant, PTL DEF Spec, ImplementsRegistry, Registry!Spec
=============================================================================
