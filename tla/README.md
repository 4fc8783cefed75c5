# A TLA+ model of systemk

systemk is a Virtual Kubelet provider that runs the containers of Kubernetes
pods as systemd units. This directory holds TLA+ modules translated from its
source, TLC configurations that check them on small instances, and TLAPS proofs
of the most important results for every instance. Source paths below are
relative to the root of the repository; `PROJECT.json` maps each definition to
the lines it models.

## 1. Inventory

### The system and what surrounds it

```
  API server --- Virtual Kubelet (library: one work queue, n workers, status poll,
                      |            informers for pods, ConfigMaps, Secrets)
          CreatePod, UpdatePod, DeletePod, GetPod, logs        | events
                      v                                        v
        provider (pod.go, unit.go, volumes.go, ...)  <-- resource watcher (watch.go)
              |                 |                |
      unit manager          ospkg manager     volumes on disk
      (unit/manager.go)     (apt, pacman, ...)
              | D-Bus + /var/run/systemk/*.service
              v
           systemd (keeps running when systemk dies)
```

| component | source | state | operations |
|---|---|---|---|
| pod life cycle | `internal/provider/pod.go`, `unit.go` | none of its own: everything is read back from systemd and from the unit files | GetPod (with the removal of broken units), CreatePod, UpdatePod (empty), DeletePod, GetPods |
| unit manager | `internal/unit/manager.go` | a mutex, a D-Bus connection, the unit directory | Load, Unload, TriggerStart, TriggerStop, Reload, States, Property, Mask |
| pod status | `internal/provider/unit.go` | none | containerState, toPhase, conditions, time stamps |
| resource watcher | `internal/kubernetes/watch.go` | per resource the watching pods, per pod its resources; a lock | Watch, Unwatch, handleEvent |
| unit names | `internal/provider/pod.go:392-435` | none | podToUnitName, unitPrefix, Namespace, Pod, Container |
| volumes | `internal/provider/volumes.go` | directories and files under the run directory | volumes, setupPaths, writeFile, UpdateConfigMap, UpdateSecret, cleanup |
| unit files | `internal/unit/file.go` | the parsed options | New, Insert, Overwrite, Delete, Contents, String |
| user and group | `internal/provider/security_context.go`, loop of CreatePod | none | uidGidFromSecurityContext, root override |
| command, environment | `command.go`, `env.go` | none | commandAndArgs, defaultEnvironment |
| logs | `internal/provider/log.go` | per request a journal reader, two channels and, with follow, a goroutine | GetContainerLogsHandler |
| node object | `internal/provider/node.go`, `internal/system/system.go` | none | ConfigureNode, computeNodeAddresses, ID |
| packages | `internal/ospkg/*`, CreatePod's loop | the machine's packages and services, a policy file per installation | Install, Unitfile, Clean, Mask |
| options, set-up | `opts.go`, `provider.go`, `cmd/flag.go`, `main.go` | the options | installFlags, SetDefaultOpts, the environment, New |
| controllers, servers | `cmd/root.go`, `cmd/http.go` | goroutines, listeners, the context | runRootCommand, setupKubeletServer |
| logging adapters, version, test support | see `PROJECT.json` | none | none that change state |

### How they interact, and what is hard

* Virtual Kubelet never has two workers on one pod, but has several workers on
  several pods, and it calls GetPod (status poll, HTTP API) at any time
  beside them. **GetPod writes**: a unit without an `X-Kubernetes` section is
  stopped and removed, with the decision taken before the manager's mutex is.
* The mutex covers Load and Unload, not the reading of unit files, and not the
  start, stop and reload calls. Load truncates a file and then fills it.
* Start and stop only queue jobs. DeletePod resets and unloads units that are
  still stopping; init containers come before main ones only because of `After=`
  in the unit files.
* Reload is global: the reload of one pod's deletion changes what GetPod
  sees of another pod.
* Errors are logged and skipped (Load, Start, Stop, Unload), or abandon CreatePod
  half-way (Install and others), or read as "not found" (ListUnits).
* systemk keeps nothing across a restart but what systemd and the unit
  directory hold; the resource watcher restarts empty.
* handleEvent takes the list of pods under the lock and uses it after the lock
  is released, while CreatePod, Unwatch and the clean-up of volumes go on.
* The status of a pod is put together from several D-Bus calls, and one that fails
  counts as the answer 0.
* A unit name is all that tells pods apart, and it is matched by prefix.
* Three goroutines write the volumes of a pod: CreatePod, the informer of the
  ConfigMaps and the informer of the Secrets. A file is written under a temporary
  name, chowned and renamed; any of these may fail, the process may die between
  them, and DeletePod removes the directories meanwhile.
* Workers install packages at the same time, with nothing but dpkg's own lock
  between them. Whether systemk masks the service of a package hangs on who finds
  it missing, and whether that service is started on two packages and two files.
* Start-up waits in turn for a package, two caches and the node controller, and a
  signal may come at any of these waits. The answers of WaitForCacheSync are not
  looked at, and the pod controller runs beside what is still to be set up.
* A request that follows a log has two goroutines, each of which may end first,
  and the reader of the journal is closed by one while the other may use it.

`PROJECT.json` lists every hazard at its line, with the properties that cover it
or the reason why none does yet.

### What makes each component correct

* Life cycle: nothing of a pod outlives it; a deletion that was asked for ends; all
  containers get started, in order; a live unit is not overwritten; GetPod removes
  only broken units and does not bring the process down.
* Status: Succeeded and Failed are not said of containers that have not ended, and
  tell how they ended.
* Watcher: it holds exactly the pods between Watch and Unwatch; volumes
  get the last contents, never older ones; nothing is written for a pod that is gone.
* Names: different containers have different units; GetPod sees the units of its pod
  only; names can be taken apart again.
* Unit files: what the pod asks for wins over the package, which wins over defaults; a
  root that is to be overridden never gets through; a repeated CreatePod writes the same.
* Volumes: a container sees whole files with its own owner; a pod is created only with
  all its required objects in place; updates arrive, and old contents never replace new ones.
* Packages: a service that comes with a package is neither started nor left unmasked, and
  those of packages the administrator installed are left alone.
* Options and addresses: the command line wins over the environment and the
  defaults; the advertised address is the one asked for, or none, and pods are told the same.
* Start-up and end: nothing is created over empty caches; a signal ends the process.
* Logs: a follower reads an open reader as long as somebody listens, and ends afterwards.

## 2. Modules

| module | models | state and actions |
|---|---|---|
| `UnitManager` | the effect of each manager call, and systemd as the manager uses it | `file`, `linked`, `state` per unit; `WriteUnitBegin`, `WriteUnitEnd`, `EnableUnit` (the parts of Load), `RemoveUnit` (Unload), `TriggerStart`, `TriggerStop`, `Reload`; `StartJobRuns`, `ProcessExits`, `StopJobEnds`, `Collected` are systemd |
| `PodLifecycle` | who makes these calls: GetPod, CreatePod, DeletePod, Virtual Kubelet's dispatch, crashes and panics | `api`, and for each goroutine `pc`, `subject`, `idx` (the loop over containers), `view` (what GetPod knows of each unit); extends `UnitManager` |
| `PodStatus` | containerState and toPhase while systemd goes on | `sub`, `stamp`, `code` (systemd), `listed`, `snap`, `read`, `report` (the reader); part of `PodReports` |
| `PodWatcher` | the resource watcher, the ends of CreatePod and DeletePod that use it, and the volumes it keeps fresh | `configs`, `keysByPod`, `todo`, `update`, `fetched`, `disk` |
| `WatchRegistry` | what the watcher promises: the abstract specification | `tracked`, `boots` |
| `UnitNames` | names of units as sequences of labels, and the pods GetPods asks for | `loaded`: the units systemd lists; part of `PodReports` |
| `PodReports` | GetPod of one pod while units of it and of others come and go: composes `UnitNames` (which units) and `PodStatus` (what is made of them) | both; `LoadUnit`, `UnloadUnit`, `GetPod`, `ReportUnit` |
| `ContainerUnit` | the unit files CreatePod writes: the package's file or a synthesized one, user and group, command line, environment | `context`, `override`, `spec` (the input), `uid`, `gid`, `previous` (what the loop carries from container to container), `written`; `Begin`, `Container`, `ContainerFails`, `Finish`, `Again` |
| `Volumes` | volumes() of one pod, called by CreatePod and the two informers, file by file, with all kinds of volume | `lister`, `pod`, `dir`, `file`, per caller `call` (its place in the loops) and `tmp`, and `vol` (what CreatePod gets) |
| `Packages` | Install of the three package managers, Mask, and what dpkg does with them | per caller `pc`, `at`, `policy`; `lock`, `installed`, `running`, `masked` (the machine); part of `Systemk` |
| `LogFollow` | the handler of a request for logs and its follower | `client`, `handler`, `follower`, `pos`, `reader`, `until`, `errChan`; part of `Systemk` |
| `Startup` | from `main` to the end of the process: options, addresses, caches, server, controllers, signal | `main` (the main goroutine), `opts`, `addresses`, `synced`, `server`, `podCtl`, `nodeCtl`, `ready`, `over`; part of `Systemk` |
| `Systemk` | the process: composes `Startup`, `Packages` and `LogFollow`, with its death and restarts | the variables of the three, and `lives` |
| `MC...` | constants for TLC | |
| `PodLifecycleProofs`, `PodOrderProofs` | theorems about `PodLifecycle`: invariants; action properties | |
| `PodWatcherProofs`, `ContainerUnitProofs`, `VolumesProofs`, `PodReportsProofs`, `SystemkProofs` | theorems about the module of the name | |
| `DataLemmas` | lemmas on sequences and sums that those proofs need | |

In `PodLifecycle` the D-Bus calls, the file writes and the mutex acquisition of CreatePod and
DeletePod are steps, because other goroutines get in between there and the process may die
there. Two groups are one step each. LinkUnitFiles and EnableUnitFiles: a unit that is linked and
not yet enabled is wanted by nothing, so that systemd does not keep it in memory, and nobody starts
it before it has been loaded again. And removeUnit: every other user of the file that matters
holds the mutex as well or reads the file once. Loops over containers are steps over `idx`. The mutex
is held exactly while some worker is at `pc = "write"` (the file is truncated) or `pc = "enable"`
(it is filled).

In `UnitManager` a unit is the pair of its pod and its position in init containers
followed by main containers. `"unloaded"` is a unit ListUnits does not return.
A unit in automatic restart counts as running. All
errors of CreatePod before Load (bad user, bad unit file, volumes) behave as an
error of Install: CreatePod returns and is called again.

In `PodStatus` each of the properties GetServiceProperty is asked for may be unreadable, which
ServiceProperty makes "" and propertyNumberToInt 0: `CodeIsGuessed` and `StampIsGuessed`. Substates
containerState treats alike are one.

In `PodWatcher` one kind of resource stands for ConfigMaps and Secrets: the two
halves of the code are copies of each other. A volume holds one version number per
resource. The code fetches and writes resource by resource, the model fetches all
and then writes all, so that each write follows its read by at least as many
steps as in the code. A restart may find the units of a pod up that had only Watch before
it, or that CreatePod was called again for: such a pod is not created again, and not watched.

`ContainerUnit` is one worker's CreatePod with the data `PodLifecycle` leaves out: the
options of a unit file, which `PodLifecycle` knows only as empty or complete. A unit
file is a function from options to sequences of values; the options of a fixed value
(protection, journal, metadata) and the mounts are left out. A named user of the
security context (`windowsOptions`) is represented by its number, as `user.Lookup` yields it.

In `Volumes` the contents of an object are the number of its version, and each version
has a set of keys, none when the object is deleted. Reading an object and making its
directory is one step, and writeFile is four: TempFile, chown, write, rename. `PodWatcher` has
the same files for several pods, coarser, and with what Watch and Unwatch do.

`Systemk` has three modules meet where the code has them meet: New waits for a package
(`ProviderIsNew`), the pod controller starts the workers (`Install`), the server takes
requests (`Client`), and the end of the process stops all of them wherever they are (`Lives`).
The packages stay as they are across a restart, with a dpkg that was running or died
along with systemk. What a worker does with a pod besides installing packages is in
`PodLifecycle`, and takes no part in start-up.

External code is modelled from its use: Virtual Kubelet (dispatch by pod, periodic
resync), the informers (events in order, resyncs for ever),
dpkg (one at a time; it asks the policy file before it starts a service), go-systemd's Follow, systemd (jobs, `After=`,
`RemainAfterExit=true`, reset of failed units, units dropped when nothing wants
them) and the API server.

## 3. Runs

Passing runs, all to the end of the state space:

| run | instance | what it shows |
|---|---|---|
| `PodFaults` | one pod (1 init + 1 main), one poller, two failures other than of StopUnit and DisableUnitFiles | types; `FilesOnlyOfKnownPods`: no unit file outlives its pod, although DeletePod skips all errors and a GetPod may be under way; `DeletedIsGone`: no unit of a pod that is gone is linked, runs or will run |
| `PodOrder` | one pod (2 init + 1 main), two failures (crashes, installations, DisableUnitFiles), fairness | `MainWaitsForInit`; `NoRewriteOfLiveUnit`; `CreationCompletes`: without a failure every container is started |
| `PodDeletion` | two pods of one container, one failure of any kind but of ListUnits, fairness | `DeletionCompletes`; `FilesOnlyOfKnownPods` across workers that share the mutex and Reload |
| `Reports` | pods `web` and `db.web` in two namespaces, two containers each, names chosen to be confused; one unit of others beside those of the pod; exit codes 0 and 15, any property unreadable | types; `SucceededMeansEnded`; `FinishedPhase`; `GetPodSeesItsUnits`; `NamesParse`; `NamesDistinct` |
| `WatcherShared` | two pods with a common ConfigMap of two versions, two lives each, a restart | types; `WatchesOnlyPodsThatRun`; `NoStaleOverwrite` |
| `WatcherOwn` | two pods with a ConfigMap of two versions each, no restart, fairness | `ImplementsRegistry` (refinement); `VolumesGetFresh` |
| `Units` | one init and one main container, nine kinds of container and package, all security contexts over four users, one of them unknown, CreatePod repeated | types; `NoRootUnderOverride`; `ContextWins`; `ExecStartAsDocumented`; `ContainerEnvWins`; `SameFilesAgain` |
| `Volumes` | one pod with a volume of each kind (the projected one of three sources), a ConfigMap of two versions, two Secrets that come early, late or never; one failure or crash; fairness | types; `FilesAreWhole`; `MountsReady`; `NoOlderContents`; `UpdatesArrive` |
| `Systemk` | eight machines; two workers whose pods want the same package under a name and a URL, a package that was there before and a program; one request over a journal of two entries; one failure, two lives of the process; fairness | types; `OfficialServicesStayDown`; `MasksOnlyOurs`; `InstalledGetsMasked`; `OptionsAsGiven`; `InternalAsDocumented`; `NothingBeforeSync`; `SignalEnds`; `ReadsOpenJournal`; `FollowersEnd` |

### Bounds, and why they are enough

* Pods: two, since all interaction is pairwise (the mutex, Reload, a shared ConfigMap, a prefix,
  a package); one where the question is about a single pod and a poller, or about the files of one.
* Containers: two init and one main where order matters (first, second, and the
  last one before the main container are then different), otherwise one of
  each, or one. `Units` needs a container before another one, since the loop carries
  its variables forward only.
* Pollers: one. Pollers keep no state between calls and meet the worker only in
  the units.
* `MaxFaults`, `MaxErrors`: one failure in every place, two where it is about retries and crashes.
* `MaxVersion` 2 (something older to write back), `MaxLife` 2 (a
  pod created again under its name), `MaxRestarts` 1.
* `MaxOthers` 1: each unit's name is compared with the pod's on its own, so that one other
  unit at a time meets every name. `Keys` has two versions of the ConfigMap, for the same
  reason as `MaxVersion`, and one of each Secret, which starts missing or not.
* `MaxLives` 2: what is left behind by a first life meets a complete second one. `MaxEntries` 2: one
  entry before and one after the reader was opened. The machines of `MCSystemk`
  differ in the package manager (one in an `ID` taken from the wrong line), in the origin of
  every option, in the addresses (found, given, of an interface that has one or has not, public only)
  and in what makes start-up panic; the one with a server installs no packages and the one that does
  has no server, because requests and installations meet only in the end of the process, which
  each of them meets.
* What section 6 proves, which is all these runs check but liveness, holds without any of these bounds.

No run uses symmetry. `Volumes` and `Systemk` turn deadlock checking off: a pod that is gone
and a process that has ended have nothing left to do. The other runs check it.

## 4. Limits of what holds

The runs have the instances they have because the code guarantees no more:

* With a poller beside the worker, GetPod may remove a unit that is complete by
  then: it had read the file while CreatePod was writing it. Then `MainWaitsForInit`, `NoRewriteOfLiveUnit` and
  `CreationCompletes` do not hold, which is why `PodOrder` has no poller.
* With a poller, `DeletionCompletes` fails too, if the poll makes systemk panic
  (`FindPanic`) again and again: no fairness of the code rules that out.
* While a pod is deleted a main container may start for a moment, because DeletePod
  stops the init container first and `After=` then lets go.
* A crash between two TriggerStart calls leaves a pod that GetPod finds and that
  UpdatePod does nothing for, and a failed installation leaves loaded units that the
  Reload of another pod makes visible: `CreationCompletes` excepts behaviours
  with a failure.
* A failure of ListUnits reads as "not found", and CreatePod runs again over a pod that
  runs: `NoRewriteOfLiveUnit` does not hold with it. After a failure of Load or of StopUnit
  some units of a pod are live while another has no complete file; GetPod removes that one
  and CreatePod writes all of them again. TLC finds these, and that `MainWaitsForInit` does not hold
  if a Load, a StopUnit or a StartUnit fails: nobody waits for an init container that was not started.
* `DeletedIsGone` does not hold if StopUnit or DisableUnitFiles fail: DeletePod logs the
  error and never returns to the unit.
* A unit being stopped is reported terminated with exit code 0 while its
  process still runs: `SucceededMeansEnded` says so.
* A property of a unit that cannot be read counts as 0. The exit code of a failed container is then a
  success, and a container that is over and dead counts as waiting to be run: the pod may be
  Succeeded although it failed, or Pending although nothing of it will run again. `FinishedPhase`
  excepts these (`Guessed`), and says that no failure is made up and none hidden that was read.
* Both properties of the phase speak of containers that were not started again between the
  listing and the reading of their properties: for one that was the exit code is 0.
* `VolumesGetFresh` does not hold across a restart, after which running pods are
  not watched again.
* `GetPodSeesItsUnits` does not hold for pods `web` and `web.db` of one namespace, and
  `NamesParse` is about names without dots.
* `NoRootUnderOverride` allows root's group if the pod asks for it.
* `NamesParse` says that GetPods asks for the right pods. What it answers is always nothing: it
  keeps a pod only if GetPod returned an error, which GetPod never does (`pod.go:59`).
* `NoOlderContents` and `UpdatesArrive` leave projected volumes out: Watch does not look at them
  (`watch.go:139`), so that nothing is due when their objects change, and every call
  of volumes() writes them, two goroutines at a time. `MountsReady` speaks of their files
  as far as the map volumes() returns does: an entry that the next source of the volume
  writes over (`volumes.go:244`) is lost.
* `UpdatesArrive` does not hold across a restart, after which a pod is not watched. It is
  about the keys the object has; files of keys that are no longer there stay.
* volumes() stops at the first required object that is missing (`volumes.go:72-74`, `106-108`), so that the
  volumes behind it are not updated as long as it is. In the run a required object, once there,
  stays, and `UpdatesArrive` says nothing of the other case.
* A volume of an unsupported kind (`volumes.go:250`) fails every call of volumes() that comes to it. `VolsAssumption` has
  none: to the rest of the volumes it is what a projected one is that requires an object which never comes.
* A hostPath that is mounted read-only gets a bind source of nothing (`pod.go:113`), which is why
  `BindReadOnlyPaths` may hold one; the run has none such.
* A projected Secret makes systemk panic (`volumes.go:191`), and again after each restart:
  the run has one that is optional and may never come, and what the properties say of the pod
  with it is about the time before.
* `InstalledGetsMasked` excepts failures and the end of the process: a package counts as installed
  afterwards, and nobody masks its service. Mask's own error is ignored (`pod.go:128`).
* `OfficialServicesStayDown` excepts a system on which New could not install `policyrcd-script-zg2`.
* `MasksOnlyOurs` leaves the no-op manager out: it says that it has installed (`noop.go:15`), and
  CreatePod masks the service of a package that was there before (the README says
  it is left alone).
* `InternalAsDocumented`: an interface that is missing or has no address leaves the node without an internal
  address, whatever else is known; so does a machine without a private one (`Early` and `Cloud` of
  `MCSystemk`). The property says so; README.md:127-128 says otherwise, see section 5.
* `ReadsOpenJournal` ends when the client has gone: the handler then closes the reader
  whatever the follower does with it (`log.go:43`). What comes of that is undefined, and
  `Systemk` has the process die of it (`Killed`).
* `NoStaleOverwrite` is about the first CreatePod of a pod; a CreatePod that is repeated
  beside a running pod (a D-Bus failure in GetPod) races with the updates.

## 5. Findings

Each has a run that expects a counterexample; `PROJECT.json` quotes the lines.

| run | what the code does |
|---|---|
| `FindPanic` | statsToPod looks at one unit of a map; if that has the section and another has not, toContainerStatuses indexes an empty slice and systemk panics. In the trace a pod is being deleted: Unload has removed the file of one unit and not yet that of the other, and a second GetPod reads both |
| `FindShared` | Unwatch drops other pods' watches: the loop variable hides the parameter |
| `FindUser` | the user that overrides root for one container is given to all containers after it |

Also met while modelling, with no run of their own, besides the limits of section 4:

* a unit that fails while it stops stays in systemd as failed after DeletePod (`manager.go:273`);
* an update that is under way writes the volume of a deleted pod again (`watch.go:100`);
* a security context with a group and no user is ignored (`pod.go:172`, against the comment of
  `security_context.go:13`);
* an address without a port panics: `node.go:23` takes it for validated, which only
  the default was (the machine `NoPort` of `Systemk`);
* ID takes the first `ID=` of os-release, which may be the one of `VERSION_ID=` (`system.go:103`): on such
  a system no packages are installed (the machine `Ubuntu`). If the line it takes is the last one and
  has no newline, the index -1 is a bound of a slice (`system.go:113`) and New panics; Image does the same
  with `PRETTY_NAME=` in ConfigureNode (`system.go:79`; the machines `NoEnd` and `NoEndOfName`);
* an address counts as external if one of the three private blocks does not contain it, which
  is true of all: the first address found is advertised as external, private or not
  (`node.go:91`, README.md:125 says a non-RFC 1918 one);
* an address that is not found is neither copied from the other one, nor is systemk stopped when
  both are missing: computeNodeAddresses drops its errors (`node.go:156`, README.md:127-128);
* with `--internal-iface` the option that pods get their address from is left at 0.0.0.0
  (`node.go:104`, `unit.go:75`); and a pod's address is the internal one, not the external one
  (README.md:120);
* the package manager for Arch Linux calls apt-get (`archlinux.go:47`);
* the error the node controller returns when it is told to stop before it runs is fatal (`root.go:192`);
* the node is called ready when the node controller is, whether or not the pod
  controller has started its workers;
* `sinceTime` gives the journal reader a positive duration, the comment above it says that it has to
  be negative (`pod.go:307-312`).

## 6. Proofs

TLAPS checks the theorems below for every value of the constants that satisfies the
`ASSUME`s, and for every bound. Together they state each invariant and each action property that a
passing run checks. A hypothesis of a theorem is a definition of its own; none of them is there for the
proof's sake: section 4 says what happens without it.

What the `ASSUME`s ask for: bounds are naturals; pods have at least one main container
(`SpecAssumption`; `ContainersAssumption`: finitely many), pollers are not workers, names of pods have a label at
least; volumes have the sources of their kind (`VolsAssumption`); unit files of packages have options of
the known kinds, User and Group once at most (`FilesAssumption`: the code looks
at the first, systemd takes the last) and no user but root has root's group as its primary one
(`UserAssumption`); and the address systemk listens on by default has a port (`AddressAssumption`).

`PodLifecycleProofs`:

* `TypeCorrect`: `[]TypeOK`, by itself inductive.
* `NoFileOutlivesItsPod`: `[]FilesOnlyOfKnownPods`. The property is not
  inductive: that DeletePod's last step may declare the pod gone depends
  on its loop having been over every container. `FilesInv` adds this: during
  the Unload loop the containers before `idx` have no file, after it none has, and a pod
  that is `absent` has its worker idle. A poller's HealUnload can only take
  files away. Failures of all kinds and crashes are included.
* `DeletedPodIsGone`: `[]DeletedIsGone` under `NoStopFaults`
  (StopUnit and DisableUnitFiles do not fail). `IdxInv` (outside a loop `idx` is 1) and
  `GoneInv` (during the Stop loop the containers before `idx` are not live,
  during the Unload loop none is live and those before `idx` are not linked) are the
  strengthening; `GoneInv` needs that nothing but the pod's own
  worker starts its units.

`PodOrderProofs`, on the action properties:

* `LiveUnitsAreLeftAlone`: `NoRewriteOfLiveUnit` under `Undisturbed` (no poller; ListUnits,
  Load and StopUnit do not fail; all else may, and the process may die). `RewriteInv` says
  that a worker between its decision to create or to heal and its first start, or behind its last stop,
  has a pod none of whose units is live; that a pod with an incomplete unit file is
  like that too, which is what makes healing safe; and how far the loops of Load, start and stop are.
  A step of another worker leaves the pod alone, but for a Reload, which only makes units known.
* `MainContainersWait`: `MainWaitsForInit` under `EveryStartIsMade` (StartUnit does not fail
  either). systemd looks only at the one container named in `After=`; `OrderInv` makes this enough: units
  are started in order, each one before a live unit has been started since the pod was
  quiet, and each that has left the queue had every init container before it over.

`PodWatcherProofs`:

* `TypesAreOK`: `[]TypeOK`.
* `OnlyRunningPodsAreWatched`: `[]WatchesOnlyPodsThatRun`,
  shared resources included. `Indexed` is the strengthening: a copy in `configs` is
  always found through `keysByPod`, so that Unwatch finds it.
* `NothingStaleIsWritten`: `NoStaleOverwrite`. `DiskInv` and `ReadInv`: nothing on disk, and nothing read, is newer than
  what the cluster has; `TodoInv`: only copies the handler has still to tell have an update under
  way, and a pod whose first CreatePod is not over is not among them, since Watch comes last;
  `OrderInv`: what a worker or the handler is about to write is no older than the volume, but for
  pods CreatePod was called again for. That a CreatePod reads before it watches, and the
  handler reads after it took the list, is what keeps the two apart.
* `WatcherRefinesRegistry`: `ImplementsRegistry` under `NothingShared` (no two pods refer to
  one resource; `FindShared` is what happens otherwise): the
  initial states map to initial states and each step maps to a Watch, an
  Unwatch, a Forget or a stutter.

`ContainerUnitProofs`:

* `NoContainerIsRoot`: `[]NoRootUnderOverride`. `CarriedInv` is
  the strengthening: under an override the user the loop carries from one container to
  the next is never root, and its group is root's only if the pod asks for that.
* `TypeIsOK`, `SameFilesWritten`, `ContextAlwaysWins`, `OwnEnvironmentWins`, `CommandsAreAsDocumented`:
  the other properties. They follow from one invariant, `FilesInv`: each unit file that is written is
  `FileOf` its container, a function of the pod, the packages and the flag, although uid, gid and the
  previous init container are carried through the loop (`LoopInv` says what they are in it).

`VolumesProofs`:

* `TypeIsOK`, `FilesWhole`, `MountsAreReady` (under `NoReadOnlyHostPath`) and `NothingOlder`, from one inductive
  invariant: where each call is (`CallInv`); that CreatePod's call and those of the informers do not
  meet (`OneCaller`); how far the temporary file is at each part of writeFile (`TmpInv`); what is on disk for
  what a call, and the map it returns, have behind them (`DirInv`, `VolInv`, `RequiredInv`); and that no
  file is newer than what the one call in its directory has read (`VersionInv`).

`PodReportsProofs`:

* `UnitsAreDistinct`, `PrefixFindsItsUnits` (under `NamesApart`: no name of a pod continues another's), `PlainNamesParse`: lemmas
  on sequences of labels, since an invariant about names is as good as the names.
* `TypesAreOK`, `SucceededHasEnded`, `FinishedIsTold`, of a pod whose units are its own (`MineIsPlain`).
  `FinishedIsTold` has the three ways a pod that is over is reported, and which of them an unreadable property can
  cause. `EndedInv` and `AnswersInv` say what each answer the reader has got so far still tells of a unit that systemd has
  gone on with; `SumOfCodes` relates the sum of the exit codes that toPhase takes to the codes.

`SystemkProofs`: `TypeIsOK`, `NothingStartsBeforeSync`, `ServicesStayDown`, `OnlyOursAreMasked`, `OptionsAreAsGiven`,
`InternalIsAsDocumented`, `ReaderIsOpen`, from one inductive invariant over the three parts:

* `SyncInv`, `ConfigInv`: what the main goroutine has behind it at each of its places; options and addresses
  are functions of the machine, so that `InternalIsAsDocumented` is for every set of interfaces and flags;
* `CallersInv`: a worker runs late, when the start-up is `Complete`; `PolicyInv`: so that Policyrcd is there, or known not
  to be, when it runs dpkg; `MaskInv`: what a caller is about to mask, or finds missing, is not the
  administrator's, whatever others have installed meanwhile; `ManagerInv`: the package manager does not change under it;
* `LogsInv`: a follower that reads has its handler waiting, as long as the client is there.

`DataLemmas` has what the proofs need of operators that are defined by recursion (FlattenSeq, sums
over sets). The induction theorems of the library take an operator as a parameter, which none of the
installed provers can instantiate; these lemmas go by the least counterexample instead: `LeastNatural` is a
consequence of the well-foundedness of inclusion on finite sets.

The proofs changed the models where they could not be done: a unit file of one empty ExecStart line, which a
container with neither package nor command has, was cut into words it does not have (`FirstWord` is what the
code does: an empty first word); the constants got the assumptions above; and types became exact
where a record was only said to be one.

Only model-checked: everything with fairness (`DeletionCompletes`,
`CreationCompletes`, `VolumesGetFresh`, `UpdatesArrive`, `InstalledGetsMasked`,
`SignalEnds`, `FollowersEnd`), since liveness under fairness and ENABLED
are beyond the prover.

## 7. Fairness

* A worker that has something to do goes on: weak fairness of `Worker(p)`.
  Virtual Kubelet retries with back-off and never gives up on a pod that is assigned.
* A goroutine that waits for the manager's mutex gets it in the end, even if others
  take it again and again: strong fairness of the steps that acquire it.
  Go's `sync.Mutex` guarantees that (starvation mode after 1 ms).
* systemd runs its jobs: weak fairness of `Systemd(u)`, except for a main container
  that runs, which may run for ever. Init containers are assumed to end, and a unit
  that is told to stop stops (systemd kills it after its time-out).
* Pollers, crashes, failures and the API server have no fairness.
* `Volumes`: every call of volumes() goes on (or panics), CreatePod is called again after it failed,
  and the informers resync for ever (`HandleEvent`). Objects are written, pods are deleted
  and the process dies at will.
* `Systemk`: the main goroutine and the others go on, dpkg and downloads end, handlers
  and followers go on (the library looks for new entries every second). That a cache is filled,
  a client comes or goes, a signal is sent or the process is killed is up to others.
* `PodWatcher`: workers and the handler go on, the informer resyncs for ever
  (`Resync`), and an event in its queue is handled although others keep
  coming (the queue is first in first out): strong fairness of `HandleEvent`.

## 8. Mutants

Each property of a passing run has a mutant in `PROJECT.json`: an operator that stands
in the module in front of the definition it replaces and has a bug the code might
have had. TLC finds the property violated when it is used.

## 9. Not modelled, and the plan

Done: every component that has control of its own (section 2), and the proofs of all that the
runs check but liveness. `PROJECT.json` says of the components marked partly what they leave out. Next, in this order:

1. An abstract specification of a pod (absent, created, running, gone) that `PodLifecycle`
   implements when it is `Undisturbed`, with the refinement proved from `RewriteInv` and `OrderInv`.
2. An abstract specification of a volume (one writer that goes forward) that `Volumes` implements.
3. `ContainerUnit`: Restart= of a package in the unit file of an init container (`pod.go:172`).
4. `LogFollow`: where `tailLines`, `sinceSeconds` and `sinceTime` open the journal.

Left out for good: D-Bus and journal encoding, TLS set-up and the routes that have no effect,
capacity and conditions of the node and the other facts of the machine that are read once,
the conditions and time stamps of a pod, log messages, the text of
generated unit files other than the options above, generated mocks and test support.
They hold no control that a property could be about. Of the unit manager State, Properties,
Property, Unit and Units have no caller.

## 10. Running

In this directory, with TLC, the community modules and tlapm installed:

    tlc -workers 4 -config PodFaults.cfg MCPodLifecycle.tla
    tlapm PodLifecycleProofs.tla   # likewise the other proof modules, DataLemmas among them
