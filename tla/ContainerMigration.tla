------------------------- MODULE ContainerMigration -------------------------
(***************************************************************************)
(* The pull of a container from one host to another: PullContainer on the  *)
(* destination's agent, the RPCs it makes to the source's agent            *)
(* (TransferContainerInfo, TransferVolume, CheckpointContainer) and the    *)
(* steps it takes on its own host (PullImageIfNotExists, Createvolume,     *)
(* RestoreContainer).  cmd/ectrserver/main.go and Migration/*.go.          *)
(*                                                                         *)
(* Every agent serves each RPC in a goroutine of its own and no lock       *)
(* guards anything, so pulls interleave step by step with each other and   *)
(* with the containers, which keep computing until they are checkpointed.  *)
(* All state lives in the Docker daemons and survives an agent's crash;    *)
(* what an agent knows about a pull lives in its goroutine and does not.   *)
(*                                                                         *)
(* A workload's progress is a counter, mem: a process image is the value   *)
(* of the counter when it was taken, and a volume holds the value of the   *)
(* counter when the process last wrote it.  Versions start at 1; 0 stands  *)
(* for "nothing there".                                                    *)
(***************************************************************************)
EXTENDS Naturals

CONSTANTS
  Node,         \* hosts; each runs seerserver and a Docker daemon
  Name,         \* containers, which the RPCs identify by name
  Slot,         \* pulls that may be in progress at the same time
  LocalVolume,  \* the names whose container mounts a local Docker volume
  NfsBind,      \* the names whose container bind-mounts an NFS directory
  Launched,     \* the id of a container that no pull has created
  NoCall,       \* the call of a slot in which no pull is in progress
  Faults,       \* the operations that may fail in this instance
  Events,       \* what may happen to the hosts in this instance
  MaxMem        \* bound on the progress of a workload

FaultKind == {"rpc", "pull", "stream", "findmnt", "volume", "checkpoint",
              "archive", "record", "create", "extract", "start"}
EventKind == {"crash", "exit", "prune"}

\* What the goroutine of a pull knows: its PullRequest (record: whether it
\* names a record file), the volume data of the VolumeResponse, the process
\* image of the checkpoint and the id of the container it was taken from.
Call == [src : Node, dst : Node, name : Name, record : BOOLEAN,
         snap : Nat, ckpt : Nat, cid : Slot \cup {Launched}]

ASSUME MigrationAssumption ==
  /\ LocalVolume \subseteq Name
  /\ NfsBind \subseteq Name \ LocalVolume
  /\ Launched \notin Slot
  /\ NoCall \notin Call
  /\ Faults \subseteq FaultKind
  /\ Events \subseteq EventKind
  /\ MaxMem \in Nat

VARIABLES
  docker,   \* docker[n][c]: the container named c that n's daemon knows
  images,   \* images[n]: the names whose container's image n has
  store,    \* store[n][c]: what n's copy of the local volume of c holds
  pc,       \* pc[t]: how far the pull in slot t is, or how the last one ended
  call      \* call[t]: what that pull knows

hosts == <<docker, images, store>>
vars == <<docker, images, store, pc, call>>

NoData == 0

Container == [st : {"none", "created", "running", "exited"},
              id : Slot \cup {Launched},
              mem : Nat]

NoContainer == [st |-> "none", id |-> Launched, mem |-> NoData]

Done   == {"idle", "ok", "failed"}
\* The stages of a pull between stopping the source and starting the copy:
\* the goroutines of this call hold the only process image anyone will use.
Carry  == {"archive", "record", "reply", "create", "extract", "start"}
Stage  == Done \cup Carry \cup
          {"info", "image", "volume", "createvolume", "inspect", "checkpoint"}
\* The stages in which the source's agent is inside CheckpointContainer.
Served == {"checkpoint", "archive", "record", "reply"}

Runs(n, c)    == docker[n][c].st = "running"
Carries(t, c) == pc[t] \in Carry /\ call[t].name = c

\* The container a pull is about, on the host it leaves and on the one it goes to.
Source(t) == docker[call[t].src][call[t].name]
Target(t) == docker[call[t].dst][call[t].name]

Goto(t, stage) == pc' = [pc EXCEPT ![t] = stage] /\ UNCHANGED call
Learn(t, stage, known) ==
  pc' = [pc EXCEPT ![t] = stage] /\ call' = [call EXCEPT ![t] = known]

\* Variant: an error path without its return; the pull goes on.
AnswerGoesOn(t, result) ==
  UNCHANGED pc /\ call' = [call EXCEPT ![t] = NoCall]

\* The pull ends, and its goroutine with all it knows.
Answer(t, result) ==
  pc' = [pc EXCEPT ![t] = result] /\ call' = [call EXCEPT ![t] = NoCall]

MayFail(kind) == kind \in Faults

SetSource(t, con) == docker' = [docker EXCEPT ![call[t].src][call[t].name] = con]
SetTarget(t, con) == docker' = [docker EXCEPT ![call[t].dst][call[t].name] = con]

-----------------------------------------------------------------------------
\* Every container runs on one host, which has its image and its volume.
Init ==
  /\ \E home \in [Name -> Node] :
       /\ docker = [n \in Node |-> [c \in Name |->
                      IF n = home[c]
                        THEN [st |-> "running", id |-> Launched, mem |-> 1]
                        ELSE NoContainer]]
       /\ images = [n \in Node |-> {c \in Name : home[c] = n}]
       /\ store = [n \in Node |-> [c \in Name |->
                     IF n = home[c] /\ c \in LocalVolume THEN 1 ELSE NoData]]
  /\ pc = [t \in Slot |-> "idle"]
  /\ call = [t \in Slot |-> NoCall]

(***************************************************************************)
(* The pull, one action per RPC or step that other actors can see.         *)
(***************************************************************************)

\* A client asks the agent of call.dst to pull call.name from call.src.
PullContainer(t) ==
  /\ pc[t] \in Done
  /\ \E m, n \in Node, c \in Name, r \in BOOLEAN :
       Learn(t, "info", [src |-> m, dst |-> n, name |-> c, record |-> r,
                         snap |-> NoData, ckpt |-> NoData, cid |-> Launched])
  /\ UNCHANGED hosts

\* On the source: ContainerInspect, whatever state the container is in.
TransferContainerInfo(t) ==
  /\ pc[t] = "info"
  /\ \/ Source(t).st # "none" /\ Goto(t, "image")
     \/ (Source(t).st = "none" \/ MayFail("rpc")) /\ Answer(t, "failed")
  /\ UNCHANGED hosts

\* On the destination.  A pull that fails while it streams reports the failure
\* in the stream, which ends without a decoding error and so counts as a
\* success, with the image still missing.
PullImageIfNotExists(t) ==
  /\ pc[t] = "image"
  /\ \/ /\ call[t].name \in images[call[t].dst]
        /\ Goto(t, "volume")
        /\ UNCHANGED images
     \/ /\ call[t].name \notin images[call[t].dst]
        /\ \/ /\ images' = [images EXCEPT ![call[t].dst] = @ \cup {call[t].name}]
              /\ Goto(t, "volume")
           \/ MayFail("pull") /\ Answer(t, "failed") /\ UNCHANGED images
           \/ MayFail("stream") /\ Goto(t, "volume") /\ UNCHANGED images
  /\ UNCHANGED <<docker, store>>

\* On the source, while the container may still be running: its first volume is
\* read into an archive, or the export behind its NFS directory is looked up.
TransferVolume(t) ==
  /\ pc[t] = "volume"
  /\ \/ /\ Source(t).st # "none"
        /\ IF call[t].name \in LocalVolume
             THEN Learn(t, "createvolume",
                    [call[t] EXCEPT !.snap = store[call[t].src][call[t].name]])
             ELSE Goto(t, "createvolume")
     \/ /\ \/ Source(t).st = "none"
           \/ MayFail("rpc")
           \/ call[t].name \in NfsBind /\ MayFail("findmnt")
        /\ Answer(t, "failed")
  /\ UNCHANGED hosts

\* Variant: a volume that the host already has is left as it is.
UnpackedIfMissing(t) ==
  IF call[t].name \in LocalVolume /\ store[call[t].dst][call[t].name] = NoData
    THEN [store EXCEPT ![call[t].dst][call[t].name] = call[t].snap]
    ELSE store

\* What the host's volumes hold once the archive of the pull is unpacked.
Unpacked(t) ==
  IF call[t].name \in LocalVolume
    THEN [store EXCEPT ![call[t].dst][call[t].name] = call[t].snap]
    ELSE store

\* On the destination: the archive is unpacked over whatever volume of that
\* name the host has.  It may fail before or after the data was written.
Createvolume(t) ==
  /\ pc[t] = "createvolume"
  /\ \/ Goto(t, "inspect") /\ store' = Unpacked(t)
     \/ /\ MayFail("volume") /\ call[t].name \in LocalVolume \cup NfsBind
        /\ Answer(t, "failed")
        /\ store' \in {store, Unpacked(t)}
  /\ UNCHANGED <<docker, images>>

\* On the source, CheckpointContainer: the name is resolved to an id, whatever
\* state the container is in.
InspectContainer(t) ==
  /\ pc[t] = "inspect"
  /\ \/ /\ Source(t).st # "none"
        /\ Learn(t, "checkpoint", [call[t] EXCEPT !.cid = Source(t).id])
     \/ (Source(t).st = "none" \/ MayFail("rpc")) /\ Answer(t, "failed")
  /\ UNCHANGED hosts

\* Variants: memory as old as the volume that was sent; a process left running.
DumpedEarly(t) == IF call[t].snap # NoData THEN call[t].snap ELSE Source(t).mem
LeftRunning(t) == Source(t)

\* What CheckpointCreate takes of a container, and what it leaves of it: Exit
\* stops the process with its memory in the checkpoint.
Dumped(t)   == Source(t).mem
LeftOver(t) == [st |-> "exited", id |-> Source(t).id, mem |-> NoData]

\* Still in CheckpointContainer: CheckpointCreate, by name.  Docker refuses a
\* container that is not running.
CheckpointCreate(t) ==
  /\ pc[t] = "checkpoint"
  /\ \/ /\ Source(t).st = "running"
        /\ SetSource(t, LeftOver(t))
        /\ Learn(t, "archive", [call[t] EXCEPT !.ckpt = Dumped(t)])
     \/ /\ Source(t).st # "running" \/ MayFail("checkpoint")
        /\ Answer(t, "failed")
        /\ UNCHANGED docker
  /\ UNCHANGED <<images, store>>

\* Still in CheckpointContainer: the walk over the checkpoint directory of the
\* container that was inspected, which goes away with that container.
ArchiveCheckpoint(t) ==
  /\ pc[t] = "archive"
  /\ \/ /\ Source(t).st # "none" /\ Source(t).id = call[t].cid
        /\ Goto(t, "record")
     \/ /\ Source(t).st = "none" \/ Source(t).id # call[t].cid \/ MayFail("archive")
        /\ Answer(t, "failed")
  /\ UNCHANGED hosts

\* Still in CheckpointContainer: the access record is renamed, if asked for.
RenameRecordFile(t) ==
  /\ pc[t] = "record"
  /\ \/ Goto(t, "reply")
     \/ call[t].record /\ MayFail("record") /\ Answer(t, "failed")
  /\ UNCHANGED hosts

\* The response, with the checkpoint in it, reaches the destination; or it does
\* not, or is larger than the message limit of the destination's connection.
CheckpointResponse(t) ==
  /\ pc[t] = "reply"
  /\ \/ Goto(t, "create")
     \/ MayFail("rpc") /\ Answer(t, "failed")
  /\ UNCHANGED hosts

\* Variant: refused while another pull brings the same name to the host.
CreatableAlone(t) ==
  /\ Target(t).st = "none"
  /\ call[t].name \in images[call[t].dst]
  /\ \A u \in Slot \ {t} : pc[u] \notin Done =>
       call[u].dst # call[t].dst \/ call[u].name # call[t].name

\* Docker creates a container under a name no other container of the host has,
\* from an image the host has.
Creatable(t) ==
  /\ Target(t).st = "none"
  /\ call[t].name \in images[call[t].dst]

\* RestoreContainer, on the destination, under the name the source used.
ContainerCreate(t) ==
  /\ pc[t] = "create"
  /\ \/ /\ Creatable(t)
        /\ SetTarget(t, [st |-> "created", id |-> t, mem |-> NoData])
        /\ Goto(t, "extract")
     \/ /\ ~Creatable(t) \/ MayFail("create")
        /\ Answer(t, "failed")
        /\ UNCHANGED docker
  /\ UNCHANGED <<images, store>>

\* RestoreContainer: the checkpoint is unpacked into a directory of the new
\* container, which MkdirAll makes whether or not the container still exists.
ExtractCheckpoint(t) ==
  /\ pc[t] = "extract"
  /\ \/ Goto(t, "start")
     \/ MayFail("extract") /\ Answer(t, "failed")
  /\ UNCHANGED hosts

\* Variant: ContainerStart without a CheckpointID.
StartedAfresh(t) == [st |-> "running", id |-> t, mem |-> 1]

\* The new container, once its process resumes from the checkpoint.
Restored(t) == [st |-> "running", id |-> t, mem |-> call[t].ckpt]

\* RestoreContainer: the new container, by its id, is started from the
\* checkpoint; PullContainer then answers that it succeeded.
ContainerStart(t) ==
  /\ pc[t] = "start"
  /\ \/ /\ Target(t).st = "created" /\ Target(t).id = t
        /\ SetTarget(t, Restored(t))
        /\ Answer(t, "ok")
     \/ /\ Target(t).st # "created" \/ Target(t).id # t \/ MayFail("start")
        /\ Answer(t, "failed")
        /\ UNCHANGED docker
  /\ UNCHANGED <<images, store>>

Step(t) ==
  \/ TransferContainerInfo(t)
  \/ PullImageIfNotExists(t)
  \/ TransferVolume(t)
  \/ Createvolume(t)
  \/ InspectContainer(t)
  \/ CheckpointCreate(t)
  \/ ArchiveCheckpoint(t)
  \/ RenameRecordFile(t)
  \/ CheckpointResponse(t)
  \/ ContainerCreate(t)
  \/ ExtractCheckpoint(t)
  \/ ContainerStart(t)

(***************************************************************************)
(* The containers and the hosts.                                           *)
(***************************************************************************)

\* A running process advances and writes what it did to its volume.
Work(n, c) ==
  /\ Runs(n, c)
  /\ docker[n][c].mem < MaxMem
  /\ docker' = [docker EXCEPT ![n][c].mem = @ + 1]
  /\ store' = IF c \in LocalVolume
                THEN [store EXCEPT ![n][c] = docker[n][c].mem + 1]
                ELSE store
  /\ UNCHANGED <<images, pc, call>>

\* A process ends by itself, or with the restart of its daemon.
ContainerExit(n, c) ==
  /\ "exit" \in Events
  /\ Runs(n, c)
  /\ docker' = [docker EXCEPT ![n][c] = [@ EXCEPT !.st = "exited", !.mem = NoData]]
  /\ UNCHANGED <<images, store, pc, call>>

\* docker system prune -f removes every container that is not running, and
\* keeps the volumes.
Prune(n) ==
  /\ "prune" \in Events
  /\ docker' = [docker EXCEPT ![n] =
                  [c \in Name |-> IF Runs(n, c) THEN docker[n][c] ELSE NoContainer]]
  /\ UNCHANGED <<images, store, pc, call>>

\* The pulls that n's agent makes, and those whose CheckpointContainer it serves.
Killed(t, n) ==
  /\ pc[t] \notin Done
  /\ call[t].dst = n \/ (call[t].src = n /\ pc[t] \in Served)

\* An agent dies and is started again.  Its goroutines are gone.
AgentCrash(n) ==
  /\ "crash" \in Events
  /\ pc' = [t \in Slot |-> IF Killed(t, n) THEN "failed" ELSE pc[t]]
  /\ call' = [t \in Slot |-> IF Killed(t, n) THEN NoCall ELSE call[t]]
  /\ UNCHANGED hosts

Next ==
  \/ \E t \in Slot : PullContainer(t) \/ Step(t)
  \/ \E n \in Node :
       \/ \E c \in Name : Work(n, c) \/ ContainerExit(n, c)
       \/ Prune(n)
       \/ AgentCrash(n)

Spec == Init /\ [][Next]_vars

\* A goroutine runs until it returns: the agent never waits for another pull,
\* and each RPC and each Docker call it makes is answered, if only by an error.
FairSpec == Spec /\ \A t \in Slot : WF_vars(Step(t))

-----------------------------------------------------------------------------
TypeOK ==
  /\ docker \in [Node -> [Name -> Container]]
  /\ images \in [Node -> SUBSET Name]
  /\ store \in [Node -> [Name -> Nat]]
  /\ pc \in [Slot -> Stage]
  /\ call \in [Slot -> Call \cup {NoCall}]
  /\ \A t \in Slot : pc[t] \notin Done => call[t] \in Call

(***************************************************************************)
(* A workload is in at most one place: it runs on at most one host, and    *)
(* while it runs no pull holds a process image of it that it may still     *)
(* start, and no two pulls ever hold one.  This is what Exit: true in      *)
(* CheckpointContainer and the order checkpoint, create, start in          *)
(* pullContainer are for.                                                  *)
(***************************************************************************)
OneHost(c)       == \A m, n \in Node : Runs(m, c) /\ Runs(n, c) => m = n
NotRunAndHeld(c) == \A n \in Node, t \in Slot : ~(Runs(n, c) /\ Carries(t, c))
OneCarrier(c)    == \A t, u \in Slot : Carries(t, c) /\ Carries(u, c) => t = u

SingleInstance == \A c \in Name : OneHost(c) /\ NotRunAndHeld(c) /\ OneCarrier(c)

(***************************************************************************)
(* No copy of a volume is ahead of the process that writes it, wherever    *)
(* the copy is: on a host, or in the response of a TransferVolume.  The    *)
(* volume is read before the process is stopped, so a restored process may *)
(* find a volume older than itself but never one written by its future.    *)
(***************************************************************************)
Copies(c) == {store[n][c] : n \in Node}
               \cup {call[t].snap : t \in {u \in Slot : pc[u] \notin Done /\ call[u].name = c}}

VolumeNotAhead ==
  \A c \in Name : \A v \in Copies(c) :
    /\ \A n \in Node : Runs(n, c) => v <= docker[n][c].mem
    /\ \A t \in Slot : Carries(t, c) => v <= call[t].ckpt

(***************************************************************************)
(* The workload of each container is handed over as WorkloadHandoff says:  *)
(* it is where its process runs, else in transit with the pull that holds  *)
(* its process image, else gone.                                           *)
(***************************************************************************)
Workload(c) ==
  LET at == {n \in Node : Runs(n, c)}
      by == {t \in Slot : Carries(t, c)}
  IN IF at # {}
       THEN LET n == CHOOSE n \in at : TRUE
            IN [at |-> "node", node |-> n, mem |-> docker[n][c].mem]
       ELSE IF by # {}
         THEN [at |-> "transit", mem |-> call[CHOOSE t \in by : TRUE].ckpt]
         ELSE [at |-> "gone"]

Handoff == INSTANCE WorkloadHandoff WITH wl <- [c \in Name |-> Workload(c)]

\* Every behaviour of the pulls, hosts and containers is one of WorkloadHandoff:
\* a workload that resumes does so from where it was checkpointed, on one host,
\* and one that was lost never comes back.
HandoffSpec == Handoff!Spec

(***************************************************************************)
(* What a pull achieves when nothing fails.                                *)
(***************************************************************************)

\* A container that a pull has stopped, and whose name is free on the pull's
\* destination, ends up running there, whatever the other pulls do meanwhile:
\* no two pulls get as far as ContainerCreate with the same name.
Landing ==
  \A t \in Slot, n \in Node, c \in Name :
    (/\ Carries(t, c) /\ pc[t] \notin {"extract", "start"}
     /\ call[t].dst = n /\ docker[n][c].st = "none" /\ c \in images[n])
      ~> Runs(n, c)

\* A pull of a running container to a host without one of that name, when it is
\* the only pull, ends with the container running there, no older than at the
\* time of the request and with a volume no older than that, if it had one then.
Delivered ==
  \A t \in Slot, m, n \in Node, c \in Name, k \in 1..MaxMem :
    (/\ pc[t] = "info" /\ call[t].src = m /\ call[t].dst = n /\ call[t].name = c
     /\ Runs(m, c) /\ docker[m][c].mem = k /\ docker[n][c].st = "none"
     /\ c \in LocalVolume => store[m][c] = k)
      ~> (/\ Runs(n, c) /\ docker[n][c].mem >= k
          /\ c \in LocalVolume => store[n][c] >= k)

(***************************************************************************)
(* What the project's documents say and the code does not do.              *)
(***************************************************************************)

NoSelfPull == \A t \in Slot : pc[t] \notin Done => call[t].src # call[t].dst

\* README.md:3, "migrate containers seamlessly between different environments,
\* preserving state": no step of a pull between two hosts loses a workload.
WorkloadSurvives ==
  [][\A c \in Name : NoSelfPull /\ Workload(c).at # "gone"
                        => Workload(c)'.at # "gone"]_vars

\* The same sentence: a container that resumes finds in its volume everything
\* it had written there when it was stopped.
RestoredWithVolume ==
  [][\A n \in Node, c \in LocalVolume :
       ~Runs(n, c) /\ Runs(n, c)' => store[n][c] = docker'[n][c].mem]_vars
=============================================================================
