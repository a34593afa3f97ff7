# Seer container migration: specification and proofs

Seer moves a running Docker container from one host to another. An agent
(`seerserver`, `cmd/ectrserver/main.go`) runs on every host; a client asks the
agent of the *destination* to pull a container from the agent of the *source*.
This directory holds TLA+ models of that program, the TLC runs that check them
and the proofs that TLAPS checks. Paths below are relative to `src/`.

## 1. Inventory

| Component | Code | State | Operations |
|---|---|---|---|
| Pull | `cmd/ectrserver/main.go` `PullContainer`, `pullContainer`; `Migration/*.go` | local variables of one goroutine: info, volume data, checkpoint | inspect, pull image, fetch volume, create volume, checkpoint, create, extract, start |
| Source side | same file: `TransferContainerInfo`, `TransferVolume`, `CheckpointContainer` | none of its own; the Docker daemon's | read, tar the volume, stop with a checkpoint, tar the checkpoint, rename the access record |
| NFS volume | `Migration/volume.go` `createVolumeFromNFS`, `utils/getResource.go` | mounts and directories of the host, files of the export | findmnt, umount, stat, rm -rf, mkdir, mount |
| Volume archive | `TransferVolume`; `Migration/volume.go` `createVolumeFromData` | the files of a volume on two hosts, the archive between them | walk, header, copy; create, open, write |
| Record and reset | `RecordFReset`; `exputils/wait.go`, `record.go`, `reset.go`, `execute.go` | a channel, a goroutine, a timer; services and data directories of the host | wait or kill, rename, up to 17 commands that wipe the host |
| Bandwidth limit | `SetBandwidthLimit`, `exputils/setbw.go` | the tc qdiscs of one interface | five commands |
| Experiment drivers | `cmd/expCollectPF`, `expCollectT`, `getthroughput`, `getgroundtruth` | loop position, a CSV file, the containers under the names they use | limit, reset, run, pull, record, row, next |
| Client | `cmd/ectr` | none | one pull |
| Redis monitor | `cmd/redismonitor` | a CSV file, a client connection | timed writes and reads |

How they interact: a driver or `ectr` calls `PullContainer` and then, in the
experiments, `RecordFReset` on the destination. `PullContainer` calls the three
source-side RPCs one after the other. Every RPC is served in a goroutine of its
own; **there is no lock, no queue and no table of pulls in progress**. All that
outlives an RPC is in the Docker daemon, the file system and the NFS server, and
actors meet only there: two pulls through the name of a container, a pull and
the container through its volume, two pulls through a mount point, a reset and a
pull through the daemon.

What is hard, component by component, and what makes it correct:

* **Pull and source side.** A dozen steps on two hosts, the source stopped in
  the middle of them, no compensation when a later one fails, no coordination of
  pulls. It is correct if a workload is never in two places, resumes from where
  it was stopped, is not resurrected once lost, never meets a volume from its own
  future, and arrives when nothing fails.
* **NFS volume.** Check-then-act on a mount point with `rm -rf` in it. It is
  correct if the export is never emptied and the container sees its own export.
* **Record and reset.** A timer races an exit, a goroutine is left behind, a
  host is wiped while others may use it. It is correct if a record is complete
  when it is kept, no files vanish under a running container but where the code
  cannot help it, what is left on the host after a reset is due to commands that
  failed, and everything ends.
* **Volume archive.** A walk over files that the container is writing, unpacked
  over what earlier pulls left. It is correct if a pull that succeeds leaves
  exactly its archive, and none undoes an earlier one.
* **Bandwidth and drivers.** Loops that go on after most failures, over hosts
  whose state outlives a failed iteration and a killed driver, with calls that
  outlive their caller. They are correct if what is recorded is of the container
  and the limit it is recorded under, if a failure costs no more iterations than
  it must, and if they end.

`PROJECT.json` lists the hazards line by line.

## 2. Plan

Done, each with its MC module and its runs:

1. `WorkloadHandoff` and `ContainerMigration`: the promise and the pull.
2. `NfsVolume`: the mount behind a container's directory.
3. `HostReset`: `RecordFReset` and the resets of the drivers, with crashes.
4. `Experiment`: the drivers, the bandwidth limit, the CSV file, over short forms
   of the pull and of `RecordFReset`.
5. `VolumeArchive`: the transfer of a local volume, block by block.

Each of the five has a module of proofs (`ContainerMigrationProofs` and so on),
and every safety property that a passing run checks is a theorem there.

Next, proofs:

6. The safety half of the liveness properties: a measure of a call of `HostReset`
   and of a pull of `ContainerMigration` that every step of its own makes smaller
   and no other step makes larger, so that `CallsEnd` and `Landing` rest on
   fairness alone; in `Experiment` the position of the loops with the place in the
   program is one for `DriverEnds`.
7. That the steps of `RecordFReset` in `Experiment` are what `HostReset` shows of
   it, under the hypotheses of `HostsWiped`.

## 3. The models

### ContainerMigration

| Variable | Stands for |
|---|---|
| `docker[n][c]` | the container named `c` on host `n`: state, id, and `mem`, the progress in its memory |
| `images[n]` | the names whose container's image host `n` has |
| `store[n][c]` | what `n`'s copy of the volume of `c` holds: the progress its process last wrote to it |
| `pc[t]`, `call[t]` | the goroutine of a pull: the step it is about to take, and what it knows |

One action per RPC or step that another actor can see, with the name of the
function where there is one; the `map` of `PROJECT.json` gives the lines. Each
action has the successful outcome and the failing ones, both those that follow
from the state (no such container, not running, the name taken, no image, the id
gone) and those from outside (`Faults`). `CheckpointContainer` is four actions,
because the agent may die, and other actors act, between the inspection, the
checkpoint, the archive, the rename and the response. `PullImageIfNotExists` may
succeed without an image (kind `"stream"`), because the code drops an error
reported in the progress stream. A crash of an agent ends the goroutines that
run on it: the pulls it makes and the `CheckpointContainer` calls it serves.

Abstractions. The data of a process and of its volume are versions; a volume
read while the process writes to it is one version, though the code may read a
torn one, which only makes the copy worse than modelled. A container has at most
one volume, the one the code transfers, and it is its own. `createVolumeFromNFS`
is here one step that may fail; `NfsVolume` opens it. Containers are all
different, so image and name are identified. The id of a container is the slot of
the pull that created it; a slot may be used again, and the id with it, so that
two containers a slot created for one name have one id; they never exist at the
same time on one host. A pull whose source is its destination is allowed; the
properties that blame a loss on a pull exclude it (`NoSelfPull`).

`WorkloadHandoff` is the promise: a workload runs on one node, is frozen with
its image in transit, or is gone; it resumes exactly as frozen; gone is for good.
`HandoffSpec` maps the model to it: a workload is where its container runs, else
in transit while a pull between checkpoint and start holds its image, else gone.

### NfsVolume

`mounted[d]` is the stack of mounts at a directory, `exists` the directories,
`intact` the exports that still have their files; one action per command of
`createVolumeFromNFS`, whose first is `GetMountSource`. `rm -rf` on a mounted
directory deletes what is mounted there and then fails on the mount point. Part
of a deletion counts as all of it.

### VolumeArchive

`src` and `dst` are the volume on the two hosts: for each file the sequence of
its blocks, a block being the version of the write it is from. `todo`, `size`,
`part` and `arch` are what a pull knows: files to go (`Current` is the first of
them in the order of a walk), the size in the header, the blocks copied, the
archive. The actions are the walk (`TransferVolume` looks the volume up and
reads the directory, `WriteHeader` takes the next file's size), the copy block
by block, and the unpacking in the same grain; the container's four kinds of
writes come between any two of them. The tar writer refuses more bytes than the
header says, and fewer; a file that is gone when the walk comes to it fails the
pull. `quiet` and `shrunk` are history, for the properties only. In unpacking,
`size` is the place at which writing begins (`Offset`): the start, whatever is
there, since the file is opened without `O_TRUNC`. Directories, modes and gzip
are left out. `ContainerMigration` has all this as two steps, of which the
second, when it fails, may or may not have written.

The volume has regular files only. A symbolic link would be archived as a header
without contents (`main.go:357`) and unpacked as an empty regular file
(`volume.go:114`); the properties say nothing of links.

### Experiment

The drivers are programs in the sense of `Program`: sequences of the steps that
the loop bodies of the four commands take, with `SetBW`'s five commands spelled
out. `session`, `driver`, `at`, `pos`, `head` and `res` are a driver in progress;
`src` and `dst` the containers by name on the two hosts, with the iteration that
started each; `tc` the traffic control of the source and of the registry's host;
`rpc[s]` the calls that agents carry out: that of the driver of session `s`, which
goes on also when that driver is dead, and in the places beyond the sessions
(`Lost`) those whose connection has broken; `made` and `csv` the file; `recP` and
`recF`, by position, the container whose accesses have been kept last on the two
sides (by file name, which has no session in it).

`LoseConnection` is the client's side of a call that fails while its handler goes
on: the agents' handlers do not look at their context (`main.go:38`, `62`, `90`,
`108` make theirs from `context.Background()`), so that the call goes on in a place
of its own while the driver goes on with its loop. For tc, `sure` says that the
state of a host is that of the driver's own commands: none has failed by itself
and, on the registry (`Foreign`), none was run for another call since the
driver's own `del`.

A pull is `PullInspect`, `CheckpointContainer`, `ContainerCreate`,
`ContainerStart`, the steps of `ContainerMigration` at which containers change,
and `RecordFReset` is `RecordWait`, `RenameRecordFile`, `DeferredReset`; the
reset is one step here, which on either host may fail (`HalfReset`: the
containers stay, running or stopped), and a list of commands in `HostReset`.
`Waited` is the outcome of `Wait`: `HostReset` shows that it may fail although
the container ended, and that is kept. A failed pull ends `expCollectPF` (the
nil response), and sends the others to the next iteration; a failed
`RecordFReset` ends `expCollectPF`, and the others write their row all the same.
tc refuses to add what is there or to what is not; those refusals, and commands
that fail besides, are passed over as in the code. `trouble` is history: whether
something has gone wrong that may affect the present iteration, a failure or
what earlier ones left (`Leftover`).

The drivers are started one after the other, by hand, as their common files and
hosts require; two at a time are not modelled. But their calls overlap, and
`RecordFReset` waits for a container by its name: with two names and two drivers
killed or cut off before, the old calls may wipe the destination and start an old
container there between the pull and the `RecordFReset` of a third, and the record
it keeps is then of another container than its own. `RecordsThisRun` is therefore
about the figures of the row and the response of the pull alone; of whom the
accesses are, `Recorded` says for iterations that began without such calls.

### HostReset

`up`, `ctr`, `files` and `data` are the host: services, containers as the daemon
knows them, for each container the data directories that hold files of it, and the
directories in use. A container has its files in Docker's directory or, if its
image is one that the snapshotter serves (`:esgz`), in Docker's, containerd's and
the snapshotter's (`Placements`). `pc`, `req`, `cmd`, `result` and `failed` are a
call of `RecordFReset`; `waiter`, `signal` and `chan` the goroutine of its `Wait`,
what the daemon told its `docker wait`, and the channel of size one between them.
The timer is a branch that may be taken at any time, also when a result is there.
The deferred function is `Defer`, on every way out; `ResetCommand` runs the next
command of the list and goes on whatever comes of it. `list[h]` is the list of its
commands: `ResetStargz` for a call, any of the three for a driver that resets its
own host (`DriverReset`). A command that fails has done nothing, or what `Halfway`
says: a restart has stopped the service and not started it, a removal or a prune
has taken a part. `failed[h]` are the places in the list whose commands failed.
`Crash` ends calls and resets where they are. `old[h]` and `fresh[h]` remember what
was on the host when a reset began and what has been started since; with `failed`
they serve the properties (and the bound `MaxFail`) only.

A container that was created and never started answers `docker wait` and `docker
kill` as an exited one does and is counted as such. A pull shows as `Restored`, a
container that starts. The record file itself is not modelled (its writer is not
in the repository): its rename succeeds or fails. A restart of `containerd` changes
nothing here: its containers' shims survive it. A stop of the daemon takes its
containers with it (no `live-restore`) and lasts until it is started again: that
`docker.socket` starts it on the next client's request, while its data is removed,
is not modelled. A stop of the snapshotter takes nothing from a container as long
as its directory has not been removed.

## 4. The runs

"pass" runs, in which deadlock is checked as well:

| Run | Instance | Shows |
|---|---|---|
| `migration_faults` | 2 hosts, 1 container with a local volume, 2 concurrent pulls, every failure, crash, exit and prune; 2 versions | `TypeOK`, `SingleInstance`, `VolumeNotAhead`, `HandoffSpec` |
| `migration_race` | 2 hosts, 1 container on NFS, 2 concurrent pulls, the image pull, findmnt, the volume and the checkpoint may fail (RPCs, and what comes after the checkpoint, do not), fair | `Landing` |
| `migration_delivery` | 3 hosts, 1 pull at a time, nothing fails, fair | `Delivered` |
| `nfs_apart` | 2 pulls with directories of their own, 2 exports, every failure but findmnt's | `TypeOK`, `ExportIntact`, `ShowsExport` |
| `nfs_overlap` | 3 pulls with one directory, every failure | `LayersBounded` |
| `host_reset` | 1 call or reset at a time, 1 container pulled at any time; the agent may die, kill and rename fail; any 2 commands of a reset fail, half done or not; fair | `TypeOK`, `RecordComplete`, `HostWiped`, `CallsEnd`, `FilesUnderContainer` |
| `experiment` | 2 drivers in a row of 3 kinds, 2 limits, 1 container name, every failure but those of tc, the first driver killed anywhere, agents dying, containers ending; fair | `TypeOK`, `HeaderFirst`, `RecordsThisRun`, `Recorded`, `DriverEnds` |
| `experiment_lost` | 2 drivers in a row of 2 kinds, the first killed anywhere, 1 connection that breaks while the call goes on; RPCs, renames and a tc command fail | `UnderLimit`, `OutcomePredicted`, `Recorded` |
| `volume_archive` | 2 files of up to 3 blocks, 3 writes of any kind, any number of pulls, failing anywhere | `TypeOK`, `VolumeIsArchive`, `Converges`, `NeverOlder` |

Bounds. `Slot` bounds the pulls in progress at a time, not their number: a slot
is used again and again, so chains of pulls (A to B to C to A), retries and
leftovers all occur. Two hosts and two pulls have every race for one name; three
hosts are there for chains, where an old volume waits on the third. `MaxMem`
bounds a workload's progress: 2 versions tell an old image or volume from the
current one, and `migration_delivery` has 3, for an old volume on the
destination, the one sent and the process. `MaxFail` bounds the failing commands
of one reset. Three blocks let a file grow past, or shrink below, the size in
its header with an older tail behind it, and three writes are a change before,
during and after a pull. In `experiment` `MaxSession` is 2: one driver that may
be killed and one that finds what it left; the last is not killed, since no
later driver would see it. Two limits are a change of limit within a driver and
one between drivers. One name is the worst case for leftovers: every iteration
meets that of the one before. `expCollectT` is left out of the instance, since
it differs from `getthroughput` only in which reset it makes of the source,
which does not show in containers. Of the tc commands that fail for reasons of
their own only the first on the source does so (it keeps the old limit in place;
`TcFaults` has room for the others); on the registry they meet each other's work
instead. One lost call is what a race of two calls needs. `experiment` has no
lost calls and no failing tc commands: what goes on there from before are the
calls of a driver that was killed. In `host_reset` two commands fail: one is the
failure of a safeguard, the second that of what stands behind it (restart or
prune of a container, and the removal of Docker's data); one container is
enough, since containers do not affect each other but through the daemon.
`migration_faults` uses `SYMMETRY`; its properties tell neither hosts nor slots
apart. None of the safety properties depends on these bounds: they are proved
(section 5).

Fairness. `FairSpec` of the core is weak fairness of each pull's steps: a
goroutine of the agent waits for nothing but the answer of an RPC, Docker call or
command, and each of these ends, if only with an error. Nothing is assumed of
containers, clients or hosts. In `HostReset` it is weak fairness of the handler
(its commands end, its timer fires after 15 s) and of the goroutine (`docker wait`
ends once the daemon has answered or is gone), and nothing of the container: that
it runs for ever is what the timer is for. In `Experiment` it is weak fairness of
the driver and the agents taken together: commands end, `docker wait` has its
timer, and an agent that dies ends its calls. `VolumeArchive` states no liveness.

"violation" runs, each the shortest way to a behaviour that contradicts a
sentence of the repository; the `findings` of `PROJECT.json` quote them:

* `migration_loss`: A to B and back to A loses the container, with no failure.
* `migration_volume`: a restored process misses its latest writes in its volume.
* `nfs_together`: overlapping pulls of one container delete the NFS export.

A repeated pull of a container that was already moved also puts the volume left
on the old host over that of the running copy (`Createvolume` comes before
`CheckpointContainer` refuses the stopped original); no run is spent on it.

More behaviours contradict the words of the repository or the names of things,
and no run is spent on them. An image pull that fails while it streams passes
for a success: `ImagePullProgress` declares the error of a message
(`imagePull.go:23`), but the loop that reads the messages does not look at it. A
reset whose removals failed logs "Stargz reset completed successfully."
(`reset.go:113`) and the call answers with success. Where the connection to the
registry breaks during `SetBandwidthLimit`, the driver goes on and calls again
beside the first call, and the second may answer "configured successfully"
(`setbw.go:59`) with the limit of the first in force, or with none. A
`RecordFReset` without a record name does a full reset, where the comment
(`cmd/ectrserver/main.go:159`) has `ResetOverlay`. A row has a
"ContainerFinishTime" (`cmd/expCollectT/main.go:213`) also when `RecordFReset`
failed and the container is running still.

One more disagreement is outside these models: `Migration/volume_test.go` expects
the bind of an NFS volume to start with the NFS source, while
`createVolumeFromNFS` returns the local directory (`volume.go:71`).

What the passing runs do *not* say: that a migration is lossless.
`SingleInstance` and `HandoffSpec` hold also where the workload is lost; what
keeps it safe when nothing fails and nobody interferes is `Delivered`.

## 5. The proofs

Every invariant and action property of the passing runs, and the refinement, is
a theorem: it holds for every value of the constants that the `ASSUME` of its
module admits. Those ask what the code gives (each pull has one directory, a
local volume and an NFS bind belong to different names, the drivers are the four
programs, a configuration lists at least one bandwidth and image) and that the
bounds are numbers. Where a theorem needs more, the hypothesis is a named
definition of the module:

| Hypothesis | Says | Why |
|---|---|---|
| `OnePullPerDir` (`NfsVolume`) | no two pulls use one directory at a time | without it `nfs_together` deletes an export |
| `FindmntTells` (`NfsVolume`) | findmnt does not fail | the code takes its failure for "nothing mounted" (a hazard) |
| `OneCall` (`HostReset`) | one call or reset of a host at a time | the drivers make one at a time; nothing in the agent enforces it |

The instances of `nfs_apart` and `host_reset` satisfy them; for
the latter `MCHostReset` has TLC check that they do. Failures of a reset's
commands are no hypothesis: the properties themselves say what each may leave
behind. Most invariants are not inductive as they stand; what makes them so:

* `ContainerMigrationProofs`
  * `TypeCorrect`: `TypeOK` is inductive; its last conjunct (a pull in progress
    has its call) is what makes it so.
  * `SingleInstanceAlways`: inductive together with `TypeOK`. Almost every step
    only shrinks the set of places a workload is in (`QuietStepShrinks` and its
    siblings). `CheckpointCreate` moves it from the one host where it runs to one
    pull; `ContainerStart` from that pull to one host.
  * `VolumeNeverAhead`: inductive together with `SingleInstance`. `VolumeNotAhead`
    compares copies with whoever holds the process, so uniqueness of the holder
    is needed: a process that advances raises the bound for every copy, and a
    process that moves takes its age along.
  * `PullsImplementHandoff`: `Spec => HandoffSpec`, by the same cases: a step
    that shrinks is `End` or a stutter, a checkpoint is `Freeze`, a start is
    `Thaw`, and `Work` is `Work`.
* `NfsVolumeProofs`
  * `ExportsSafe`, and from it `ExportsIntact` and `DirectoriesShow`, under the
    first two hypotheses. The invariant `IInv` adds that a directory has at most
    one mount, and none between `umount` and `mount`.
  * `TypeCorrect`, and `LayersNeverPileUp` without a hypothesis. `LayersBounded`
    is not inductive: a pull about to mount will add a layer. `LayersInv` counts
    the layers of a directory together with the pulls that are about to mount
    there (`RoomAt`), over the cardinalities of finite sets; hence the
    assumption that `Slot` is finite.
* `HostResetProofs`
  * What stands where in the lists of commands, which are concatenations; then
    `TypeCorrect`, with one lemma for each action.
  * `RecordsComplete` (`OneCall`): the invariant `StaysExited` says that once the
    channel, the daemon's signal or the handler knows that the container has
    stopped, it stays so until the reset: the name is taken, so that no pull can
    start another.
  * `FilesStayUnder` (`OneCall`): `FilesInv` ties the place in the list to the daemon
    (it is down from its stop, unless that failed, to the restart after the
    removals), the daemon to the containers (none runs while it is down), and says
    that whatever runs after the stop has been started since the reset began; what
    the snapshotter loses is then a matter of those containers alone.
  * `HostsWiped` (`OneCall`): `WipeInv` says, for every place in each list, which
    directories have been emptied, which containers the daemon knows and which it
    would find again on the disk, each unless the commands that see to it are among
    the failed.
* `VolumeArchiveProofs`: `TypeCorrect`, `ArchiveArrives`, `PullsConverge`,
  `NothingUndone`, from one invariant `IInv` of five parts. `UnpackInv`: the files
  already unpacked are on the destination and the part written of the present one
  begins both its file and its entry. `LengthInv`: as long as nothing has become
  shorter, no file on the destination is longer than its entry or its source, which
  is why a file opened without `O_TRUNC` has no old tail. `QuietInv`: the archive of
  a quiet container is its volume, file by file. `OrderInv`: of every block the
  destination's version is no newer than the archive's, and that no newer than the
  source's. That a walk always has a next file while some are left (`CurrentToDo`)
  needs that sets of numbers have least elements, which the library's
  `WFMin` states without an operator as a parameter.
* `ExperimentProofs`
  * The programs are concatenations as well; the first part says what each has at
    which place, and which step may follow which (`Arrival`).
  * `TypeCorrect`; `CallInv`: a call that its driver is waiting for is of the kind
    of the step the driver is at, and about its position.
  * `HeaderOnce`: `HeaderInv` says what `head` is worth on the way: at the opening
    of the file it is true only if there are no lines, at the writing exactly then.
  * `RowsOfThisRun`: `RunInv` follows the container's identity from `docker run`
    through the checkpoint to the response. Calls that go on from before may
    interfere; none of them can put another container under the source's name.
  * `LimitsHold`: `SourceInv` and `RegistryInv` give, for each place among the five
    commands of `SetBW`, what the kernel has, as long as the host is `sure`. Other
    calls may be at work on the registry at any time: their commands take `sure`
    away, and only the first command of the driver's own call gives it back.
  * `Predictions`: `PredictInv` says that a call which has passed the checkpoint,
    and a driver that has its answer, have a container in `recP` at their position;
    it needs that a container on the source has an origin (`Identified`).
  * `NothingSkipped`: `Clear` describes, place by place, an iteration without
    trouble: no other call is in progress, the name is free on the destination
    until the container is created, the container on either host is this iteration's
    (with `RunInv`) and runs, has been wiped, its records are kept of it
    (`KeptClear`), its row is the last line. A step either keeps it or is trouble.

Only model-checked: liveness, that is `Landing`, `Delivered`, `CallsEnd` and
`DriverEnds` (temporal reasoning under fairness and `ENABLED` are out of the
prover's reach); that no state is a deadlock; and the three violations.

## 6. What is not modelled

The generated gRPC stubs, the traffic interceptor (it measures and logs), byte
counts and durations in responses and rows, the tar and gzip formats. The Redis
monitor: no other part calls it, it knows no agent, and what it does is to time a
server that is not in the repository; `PROJECT.json` names two hazards in it.
What the temporary record file of a host holds (its writer is not in the
repository), and a volume that two containers share. Docker, CRIU, NFS and
systemd appear as far as the agents rely on them. `HostReset` is checked for one
call at a time: when two resets of a host overlap, one restarts the daemon while
the other removes its data, and `FilesUnderContainer` fails; the drivers make one
call at a time. That a reset removes the container of a pull in progress is in
`HostReset`; that the pull then fails is in `ContainerMigration` only for a prune.
