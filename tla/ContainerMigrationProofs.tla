---------------------- MODULE ContainerMigrationProofs ----------------------
(***************************************************************************)
(* Machine-checked proofs about ContainerMigration, for any set of hosts,  *)
(* containers and concurrent pulls, and any choice of what may fail.       *)
(***************************************************************************)
EXTENDS ContainerMigration, TLAPS

\* TypeOK, part by part: what the hosts hold and what the pulls know.
HostType ==
  /\ docker \in [Node -> [Name -> Container]]
  /\ images \in [Node -> SUBSET Name]
  /\ store \in [Node -> [Name -> Nat]]

PullType ==
  /\ pc \in [Slot -> Stage]
  /\ call \in [Slot -> Call \cup {NoCall}]
  /\ \A t \in Slot : pc[t] \notin Done => call[t] \in Call

LEMMA TypeParts == TypeOK <=> HostType /\ PullType
  BY DEF TypeOK, HostType, PullType

-----------------------------------------------------------------------------
(* The three ways in which a pull moves on keep PullType. *)

LEMMA GotoType ==
  ASSUME PullType, NEW t \in Slot, pc[t] \notin Done,
         NEW stage \in Stage, Goto(t, stage)
  PROVE  PullType'
  BY DEF PullType, Goto

LEMMA LearnType ==
  ASSUME PullType, NEW t \in Slot,
         NEW stage \in Stage, NEW known \in Call, Learn(t, stage, known)
  PROVE  PullType'
  BY DEF PullType, Learn

LEMMA AnswerType ==
  ASSUME PullType, NEW t \in Slot, NEW result \in Done, Answer(t, result)
  PROVE  PullType'
  BY DEF PullType, Answer, Stage

\* A slot whose pull is in progress holds a call, with all its fields.
LEMMA CallFields ==
  ASSUME PullType, NEW t \in Slot, pc[t] \notin Done
  PROVE  /\ call[t] \in Call
         /\ call[t].src \in Node /\ call[t].dst \in Node /\ call[t].name \in Name
         /\ call[t].snap \in Nat /\ call[t].ckpt \in Nat
         /\ call[t].cid \in Slot \cup {Launched}
  BY DEF PullType, Call

\* Putting a container on a host keeps HostType.
LEMMA DockerType ==
  ASSUME docker \in [Node -> [Name -> Container]],
         NEW n \in Node, NEW c \in Name, NEW con \in Container,
         docker' = [docker EXCEPT ![n][c] = con]
  PROVE  docker' \in [Node -> [Name -> Container]]
  OBVIOUS

LEMMA InitType == Init => TypeOK
<1> SUFFICES ASSUME Init PROVE TypeOK
  OBVIOUS
<1>1. PICK home \in [Name -> Node] :
        /\ docker = [n \in Node |-> [c \in Name |->
                       IF n = home[c]
                         THEN [st |-> "running", id |-> Launched, mem |-> 1]
                         ELSE NoContainer]]
        /\ images = [n \in Node |-> {c \in Name : home[c] = n}]
        /\ store = [n \in Node |-> [c \in Name |->
                      IF n = home[c] /\ c \in LocalVolume THEN 1 ELSE NoData]]
  BY DEF Init
<1>2. docker \in [Node -> [Name -> Container]]
  BY <1>1 DEF Container, NoContainer, NoData
<1>3. images \in [Node -> SUBSET Name] /\ store \in [Node -> [Name -> Nat]]
  BY <1>1 DEF NoData
<1>4. PullType
  BY DEF Init, PullType, Stage, Done
<1> QED
  BY <1>2, <1>3, <1>4, TypeParts DEF HostType

-----------------------------------------------------------------------------
(* Every step keeps TypeOK. *)

LEMMA PullContainerType ==
  ASSUME TypeOK, NEW t \in Slot, PullContainer(t)
  PROVE  TypeOK'
<1>1. PICK m \in Node, n \in Node, c \in Name, r \in BOOLEAN :
        Learn(t, "info", [src |-> m, dst |-> n, name |-> c, record |-> r,
                          snap |-> NoData, ckpt |-> NoData, cid |-> Launched])
  BY DEF PullContainer
<1>2. [src |-> m, dst |-> n, name |-> c, record |-> r,
       snap |-> NoData, ckpt |-> NoData, cid |-> Launched] \in Call
  BY DEF Call, NoData
<1>3. PullType'
  BY <1>1, <1>2, LearnType, TypeParts DEF Stage
<1>4. HostType'
  BY TypeParts DEF PullContainer, HostType, hosts
<1> QED
  BY <1>3, <1>4, TypeParts DEF TypeOK, HostType, PullType

\* The steps that change nothing on any host.
LEMMA QuietStepType ==
  ASSUME TypeOK, NEW t \in Slot,
         \/ TransferContainerInfo(t)
         \/ TransferVolume(t)
         \/ InspectContainer(t)
         \/ ArchiveCheckpoint(t)
         \/ RenameRecordFile(t)
         \/ CheckpointResponse(t)
         \/ ExtractCheckpoint(t)
  PROVE  TypeOK'
<1>1. HostType /\ PullType
  BY TypeParts
<1>2. HostType'
  BY <1>1 DEF HostType, hosts, TransferContainerInfo, TransferVolume, InspectContainer,
     ArchiveCheckpoint, RenameRecordFile, CheckpointResponse, ExtractCheckpoint
<1>3. pc[t] \notin Done
  BY DEF Done, TransferContainerInfo, TransferVolume, InspectContainer,
     ArchiveCheckpoint, RenameRecordFile, CheckpointResponse, ExtractCheckpoint
<1>4. PullType'
  <2>1. CASE \E stage \in Stage : Goto(t, stage)
    BY <1>1, <1>3, <2>1, GotoType
  <2>2. CASE Answer(t, "failed")
    BY <1>1, <2>2, AnswerType DEF Done
  <2>3. CASE TransferVolume(t)
    <3> DEFINE known == [call[t] EXCEPT !.snap = store[call[t].src][call[t].name]]
    <3>1. known \in Call
      BY <1>1, <1>3, CallFields DEF HostType, Call
    <3>2. Learn(t, "createvolume", known) \/ Goto(t, "createvolume") \/ Answer(t, "failed")
      BY <2>3 DEF TransferVolume
    <3> HIDE DEF known
    <3> QED
      BY <1>1, <1>3, <3>1, <3>2, <2>2, LearnType, GotoType DEF Stage
  <2>4. CASE InspectContainer(t)
    <3> DEFINE known == [call[t] EXCEPT !.cid = Source(t).id]
    <3>1. known \in Call
      <4>1. Source(t) \in Container
        BY <1>1, <1>3, CallFields DEF HostType, Source
      <4>2. Source(t).id \in Slot \cup {Launched}
        BY <4>1 DEF Container
      <4> QED
        BY <1>1, <1>3, <4>2, CallFields DEF Call
    <3>2. Learn(t, "checkpoint", known) \/ Answer(t, "failed")
      BY <2>4 DEF InspectContainer
    <3> HIDE DEF known
    <3> QED
      BY <1>1, <3>1, <3>2, <2>2, LearnType DEF Stage
  <2> QED
    BY <2>1, <2>2, <2>3, <2>4 DEF Stage, Carry, TransferContainerInfo,
       ArchiveCheckpoint, RenameRecordFile, CheckpointResponse, ExtractCheckpoint
<1> QED
  BY <1>2, <1>4 DEF TypeOK, HostType, PullType

LEMMA PullImageType ==
  ASSUME TypeOK, NEW t \in Slot, PullImageIfNotExists(t)
  PROVE  TypeOK'
<1>1. HostType /\ PullType /\ pc[t] \notin Done
  BY TypeParts DEF PullImageIfNotExists, Done
<1>2. HostType'
  BY <1>1, CallFields DEF HostType, PullImageIfNotExists
<1>3. Goto(t, "volume") \/ Answer(t, "failed")
  BY DEF PullImageIfNotExists
<1>4. PullType'
  BY <1>1, <1>3, GotoType, AnswerType DEF Stage, Done
<1> QED
  BY <1>2, <1>4 DEF TypeOK, HostType, PullType

LEMMA UnpackedType ==
  ASSUME HostType, PullType, NEW t \in Slot, pc[t] \notin Done
  PROVE  Unpacked(t) \in [Node -> [Name -> Nat]]
  BY CallFields DEF HostType, Unpacked

LEMMA CreatevolumeType ==
  ASSUME TypeOK, NEW t \in Slot, Createvolume(t)
  PROVE  TypeOK'
<1>1. HostType /\ PullType /\ pc[t] \notin Done
  BY TypeParts DEF Createvolume, Done
<1>2. store' \in {store, Unpacked(t)} /\ UNCHANGED <<docker, images>>
  BY DEF Createvolume
<1>3. HostType'
  BY <1>1, <1>2, UnpackedType DEF HostType
<1>4. Goto(t, "inspect") \/ Answer(t, "failed")
  BY DEF Createvolume
<1>5. PullType'
  BY <1>1, <1>4, GotoType, AnswerType DEF Stage, Done
<1> QED
  BY <1>3, <1>5 DEF TypeOK, HostType, PullType

\* The containers a pull is about are containers.
LEMMA EndsType ==
  ASSUME HostType, PullType, NEW t \in Slot, pc[t] \notin Done
  PROVE  /\ Source(t) \in Container /\ Source(t).mem \in Nat
         /\ Source(t).id \in Slot \cup {Launched}
         /\ Target(t) \in Container
<1>1. Source(t) \in Container /\ Target(t) \in Container
  BY CallFields DEF HostType, Source, Target
<1> QED
  BY <1>1 DEF Container

LEMMA CheckpointCreateType ==
  ASSUME TypeOK, NEW t \in Slot, CheckpointCreate(t)
  PROVE  TypeOK'
<1>1. HostType /\ PullType /\ pc[t] \notin Done
  BY TypeParts DEF CheckpointCreate, Done
<1>2. CASE SetSource(t, LeftOver(t)) /\ Learn(t, "archive", [call[t] EXCEPT !.ckpt = Dumped(t)])
  <2>1. LeftOver(t) \in Container
    BY <1>1, EndsType DEF LeftOver, Container, NoData
  <2>2. docker' \in [Node -> [Name -> Container]]
    BY <1>1, <1>2, <2>1, CallFields, DockerType DEF HostType, SetSource
  <2>3. [call[t] EXCEPT !.ckpt = Dumped(t)] \in Call
    BY <1>1, EndsType, CallFields DEF Dumped, Call
  <2>4. PullType'
    BY <1>1, <1>2, <2>3, LearnType DEF Stage, Carry
  <2> QED
    BY <1>1, <2>2, <2>4 DEF CheckpointCreate, TypeOK, HostType, PullType
<1>3. CASE Answer(t, "failed") /\ UNCHANGED docker
  <2>1. PullType'
    BY <1>1, <1>3, AnswerType DEF Done
  <2> QED
    BY <1>1, <1>3, <2>1 DEF CheckpointCreate, TypeOK, HostType, PullType
<1> QED
  BY <1>2, <1>3 DEF CheckpointCreate

\* The two steps of RestoreContainer that change a host.
LEMMA RestoreType ==
  ASSUME TypeOK, NEW t \in Slot, ContainerCreate(t) \/ ContainerStart(t)
  PROVE  TypeOK'
<1>1. HostType /\ PullType /\ pc[t] \notin Done
  BY TypeParts DEF ContainerCreate, ContainerStart, Done
<1>2. PICK con \in Container : SetTarget(t, con) \/ UNCHANGED docker
  <2>1. [st |-> "created", id |-> t, mem |-> NoData] \in Container
    BY DEF Container, NoData
  <2>2. Restored(t) \in Container
    BY <1>1, CallFields DEF Restored, Container
  <2> QED
    BY <2>1, <2>2 DEF ContainerCreate, ContainerStart
<1>3. docker' \in [Node -> [Name -> Container]]
  BY <1>1, <1>2, CallFields, DockerType DEF HostType, SetTarget
<1>4. Goto(t, "extract") \/ Answer(t, "ok") \/ Answer(t, "failed")
  BY DEF ContainerCreate, ContainerStart
<1>5. PullType'
  BY <1>1, <1>4, GotoType, AnswerType DEF Stage, Carry, Done
<1>6. UNCHANGED <<images, store>>
  BY DEF ContainerCreate, ContainerStart
<1> QED
  BY <1>1, <1>3, <1>5, <1>6 DEF TypeOK, HostType, PullType

\* The containers and the hosts, which leave the pulls alone.
LEMMA WorkType ==
  ASSUME TypeOK, NEW n \in Node, NEW c \in Name, Work(n, c)
  PROVE  TypeOK'
<1>1. HostType /\ PullType
  BY TypeParts
<1>2. docker[n][c] \in Container /\ docker[n][c].mem \in Nat
  BY <1>1 DEF HostType, Container
<1>3. docker' \in [Node -> [Name -> Container]]
  <2>1. [docker[n][c] EXCEPT !.mem = @ + 1] \in Container
    BY <1>2 DEF Container
  <2>2. docker' = [docker EXCEPT ![n][c] = [docker[n][c] EXCEPT !.mem = @ + 1]]
    BY <1>1 DEF Work, HostType
  <2> QED
    BY <1>1, <2>1, <2>2, DockerType DEF HostType
<1>4. store' \in [Node -> [Name -> Nat]]
  BY <1>1, <1>2 DEF Work, HostType
<1> QED
  BY <1>1, <1>3, <1>4 DEF Work, TypeOK, HostType, PullType

LEMMA ContainerExitType ==
  ASSUME TypeOK, NEW n \in Node, NEW c \in Name, ContainerExit(n, c)
  PROVE  TypeOK'
<1>1. HostType /\ PullType
  BY TypeParts
<1>2. [docker[n][c] EXCEPT !.st = "exited", !.mem = NoData] \in Container
  <2>1. docker[n][c] \in Container
    BY <1>1 DEF HostType
  <2> QED
    BY <2>1 DEF Container, NoData
<1>3. docker' = [docker EXCEPT ![n][c] = [docker[n][c] EXCEPT !.st = "exited", !.mem = NoData]]
  BY DEF ContainerExit
<1>4. docker' \in [Node -> [Name -> Container]]
  BY <1>1, <1>2, <1>3, DockerType DEF HostType
<1> QED
  BY <1>1, <1>4 DEF ContainerExit, TypeOK, HostType, PullType

LEMMA PruneType ==
  ASSUME TypeOK, NEW n \in Node, Prune(n)
  PROVE  TypeOK'
<1>1. HostType /\ PullType
  BY TypeParts
<1>2. [c \in Name |-> IF Runs(n, c) THEN docker[n][c] ELSE NoContainer] \in [Name -> Container]
  BY <1>1 DEF HostType, NoContainer, NoData, Container
<1>3. docker' \in [Node -> [Name -> Container]]
  BY <1>1, <1>2 DEF Prune, HostType
<1> QED
  BY <1>1, <1>3 DEF Prune, TypeOK, HostType, PullType

LEMMA AgentCrashType ==
  ASSUME TypeOK, NEW n \in Node, AgentCrash(n)
  PROVE  TypeOK'
<1>1. HostType /\ PullType
  BY TypeParts
<1>2. pc' \in [Slot -> Stage] /\ call' \in [Slot -> Call \cup {NoCall}]
  BY <1>1 DEF AgentCrash, PullType, Stage, Done
<1>3. \A t \in Slot : pc'[t] \notin Done => call'[t] \in Call
  BY <1>1 DEF AgentCrash, PullType, Done
<1> QED
  BY <1>1, <1>2, <1>3 DEF AgentCrash, hosts, TypeOK, HostType, PullType

LEMMA StepType ==
  ASSUME TypeOK, NEW t \in Slot, Step(t)
  PROVE  TypeOK'
  BY QuietStepType, PullImageType, CreatevolumeType, CheckpointCreateType, RestoreType DEF Step

LEMMA NextType == TypeOK /\ [Next]_vars => TypeOK'
<1> SUFFICES ASSUME TypeOK, [Next]_vars PROVE TypeOK'
  OBVIOUS
<1>1. CASE \E t \in Slot : PullContainer(t) \/ Step(t)
  BY <1>1, PullContainerType, StepType
<1>2. CASE \E n \in Node, c \in Name : Work(n, c) \/ ContainerExit(n, c)
  BY <1>2, WorkType, ContainerExitType
<1>3. CASE \E n \in Node : Prune(n) \/ AgentCrash(n)
  BY <1>3, PruneType, AgentCrashType
<1>4. CASE UNCHANGED vars
  BY <1>4 DEF TypeOK, vars
<1> QED
  BY <1>1, <1>2, <1>3, <1>4 DEF Next

\* No step of a pull, of a container or of a host, failed or not, leaves the
\* state ill-typed; in particular a pull in progress always knows its call.
THEOREM TypeCorrect == Spec => []TypeOK
<1>1. Init => TypeOK
  BY InitType
<1>2. TypeOK /\ [Next]_vars => TypeOK'
  BY NextType
<1> QED
  BY <1>1, <1>2, PTL DEF Spec

-----------------------------------------------------------------------------
(***************************************************************************)
(* A workload is in one place at a time.  Every step but two can only stop *)
(* processes and drop process images.  CheckpointCreate turns the one      *)
(* process into the one image, ContainerStart the one image into the one   *)
(* process.                                                                *)
(***************************************************************************)

LEMMA InitSingle == Init => SingleInstance
<1> SUFFICES ASSUME Init PROVE SingleInstance
  OBVIOUS
<1>1. PICK home \in [Name -> Node] :
        docker = [n \in Node |-> [c \in Name |->
                    IF n = home[c]
                      THEN [st |-> "running", id |-> Launched, mem |-> 1]
                      ELSE NoContainer]]
  BY DEF Init
<1>2. \A n \in Node, c \in Name : Runs(n, c) => n = home[c]
  BY <1>1 DEF Runs, NoContainer
<1>3. \A t \in Slot, c \in Name : ~Carries(t, c)
  BY DEF Init, Carries, Carry
<1> QED
  BY <1>2, <1>3 DEF SingleInstance, OneHost, NotRunAndHeld, OneCarrier

\* What a step does when it starts or advances no process and takes no process
\* image: what still runs or is carried afterwards did so before, unaltered.
RunsShrink ==
  \A n \in Node, c \in Name :
    Runs(n, c)' => Runs(n, c) /\ docker'[n][c].mem = docker[n][c].mem

CarriesShrink ==
  \A t \in Slot, c \in Name :
    Carries(t, c)' => Carries(t, c) /\ call'[t].ckpt = call[t].ckpt

Shrinks == RunsShrink /\ CarriesShrink

LEMMA ShrinkSingle ==
  ASSUME SingleInstance, Shrinks
  PROVE  SingleInstance'
  BY DEF SingleInstance, OneHost, NotRunAndHeld, OneCarrier, Shrinks, RunsShrink, CarriesShrink

\* A pull that moves on, other than into Carry, carries nothing new.
LEMMA GotoCarries ==
  ASSUME PullType, NEW t \in Slot, NEW stage, Goto(t, stage),
         stage \in Carry => pc[t] \in Carry
  PROVE  CarriesShrink
  BY DEF PullType, Goto, Carries, CarriesShrink

LEMMA LearnCarries ==
  ASSUME PullType, NEW t \in Slot, NEW stage, NEW known, Learn(t, stage, known),
         stage \notin Carry
  PROVE  CarriesShrink
  BY DEF PullType, Learn, Carries, CarriesShrink

LEMMA AnswerCarries ==
  ASSUME PullType, NEW t \in Slot, NEW result \in Done, Answer(t, result)
  PROVE  CarriesShrink
<1>1. result \notin Carry
  BY DEF Done, Carry
<1> QED
  BY <1>1 DEF PullType, Answer, Carries, CarriesShrink

\* Steps of a pull that leave every container of every host as it is.
LEMMA DockerShrinks ==
  ASSUME UNCHANGED docker
  PROVE  RunsShrink
  BY DEF Runs, RunsShrink

LEMMA PullContainerShrinks ==
  ASSUME TypeOK, NEW t \in Slot, PullContainer(t)
  PROVE  Shrinks
<1>1. PICK known : Learn(t, "info", known)
  BY DEF PullContainer
<1>2. CarriesShrink
  BY <1>1, LearnCarries, TypeParts DEF Carry
<1> QED
  BY <1>2, DockerShrinks DEF PullContainer, hosts, Shrinks

\* The steps before the checkpoint, and those between it and ContainerCreate.
LEMMA QuietStepShrinks ==
  ASSUME TypeOK, NEW t \in Slot,
         \/ TransferContainerInfo(t)
         \/ PullImageIfNotExists(t)
         \/ TransferVolume(t)
         \/ Createvolume(t)
         \/ InspectContainer(t)
         \/ ArchiveCheckpoint(t)
         \/ RenameRecordFile(t)
         \/ CheckpointResponse(t)
         \/ ExtractCheckpoint(t)
  PROVE  Shrinks
<1>1. RunsShrink
  BY DockerShrinks DEF hosts, TransferContainerInfo, PullImageIfNotExists, TransferVolume,
     Createvolume, InspectContainer, ArchiveCheckpoint, RenameRecordFile,
     CheckpointResponse, ExtractCheckpoint
<1>2. PullType
  BY TypeParts
<1>3. CASE Answer(t, "failed")
  BY <1>1, <1>2, <1>3, AnswerCarries DEF Shrinks, Done
<1>4. CASE \E stage \in Stage \ Carry : Goto(t, stage)
  BY <1>1, <1>2, <1>4, GotoCarries DEF Shrinks
<1>5. CASE pc[t] \in Carry /\ \E stage \in Carry : Goto(t, stage)
  BY <1>1, <1>2, <1>5, GotoCarries DEF Shrinks
<1>6. CASE \E stage \in Stage \ Carry : \E known : Learn(t, stage, known)
  BY <1>1, <1>2, <1>6, LearnCarries DEF Shrinks
<1>7. CASE TransferContainerInfo(t) \/ PullImageIfNotExists(t) \/ Createvolume(t)
  <2>1. Answer(t, "failed") \/ \E stage \in {"image", "volume", "inspect"} : Goto(t, stage)
    BY <1>7 DEF TransferContainerInfo, PullImageIfNotExists, Createvolume
  <2> QED
    BY <2>1, <1>3, <1>4 DEF Stage, Carry
<1>8. CASE TransferVolume(t)
  <2>1. \/ Answer(t, "failed")
        \/ Goto(t, "createvolume")
        \/ \E known : Learn(t, "createvolume", known)
    BY <1>8 DEF TransferVolume
  <2> QED
    BY <2>1, <1>3, <1>4, <1>6 DEF Stage, Carry
<1>9. CASE InspectContainer(t)
  <2>1. Answer(t, "failed") \/ \E known : Learn(t, "checkpoint", known)
    BY <1>9 DEF InspectContainer
  <2> QED
    BY <2>1, <1>3, <1>6 DEF Stage, Carry
<1>10. CASE \/ ArchiveCheckpoint(t) \/ RenameRecordFile(t)
            \/ CheckpointResponse(t) \/ ExtractCheckpoint(t)
  <2>1. pc[t] \in Carry
    BY <1>10 DEF Carry, ArchiveCheckpoint, RenameRecordFile, CheckpointResponse,
       ExtractCheckpoint
  <2>2. \/ Answer(t, "failed")
        \/ \E stage \in {"record", "reply", "create", "start"} : Goto(t, stage)
    BY <1>10 DEF ArchiveCheckpoint, RenameRecordFile, CheckpointResponse, ExtractCheckpoint
  <2> QED
    BY <2>1, <2>2, <1>3, <1>5 DEF Carry
<1> QED
  BY <1>7, <1>8, <1>9, <1>10

\* Replacing one container of a host leaves the others as they are.
LEMMA ReplaceContainer ==
  ASSUME docker \in [Node -> [Name -> Container]],
         NEW n \in Node, NEW c \in Name, NEW con \in Container,
         docker' = [docker EXCEPT ![n][c] = con]
  PROVE  \A m \in Node, b \in Name :
           docker'[m][b] = IF m = n /\ b = c THEN con ELSE docker[m][b]
  OBVIOUS

LEMMA ContainerCreateShrinks ==
  ASSUME TypeOK, NEW t \in Slot, ContainerCreate(t)
  PROVE  Shrinks
<1>1. HostType /\ PullType /\ pc[t] \notin Done /\ pc[t] \in Carry
  BY TypeParts DEF ContainerCreate, Done, Carry
<1>2. CarriesShrink
  <2>1. Goto(t, "extract") \/ Answer(t, "failed")
    BY DEF ContainerCreate
  <2> QED
    BY <1>1, <2>1, GotoCarries, AnswerCarries DEF Done
<1>3. CASE UNCHANGED docker
  BY <1>2, <1>3, DockerShrinks DEF Shrinks
<1>4. CASE SetTarget(t, [st |-> "created", id |-> t, mem |-> NoData])
  <2>1. [st |-> "created", id |-> t, mem |-> NoData] \in Container
    BY DEF Container, NoData
  <2>2. RunsShrink
    BY <1>1, <1>4, <2>1, CallFields, ReplaceContainer DEF SetTarget, HostType, Runs, RunsShrink
  <2> QED
    BY <1>2, <2>2 DEF Shrinks
<1> QED
  BY <1>3, <1>4 DEF ContainerCreate

LEMMA ContainerExitShrinks ==
  ASSUME TypeOK, NEW n \in Node, NEW c \in Name, ContainerExit(n, c)
  PROVE  Shrinks
<1>1. RunsShrink
  BY TypeParts DEF HostType, ContainerExit, Runs, RunsShrink
<1>2. CarriesShrink
  BY DEF ContainerExit, Carries, CarriesShrink
<1> QED
  BY <1>1, <1>2 DEF Shrinks

LEMMA PruneShrinks ==
  ASSUME TypeOK, NEW n \in Node, Prune(n)
  PROVE  Shrinks
<1>1. RunsShrink
  BY TypeParts DEF HostType, Prune, Runs, NoContainer, RunsShrink
<1>2. CarriesShrink
  BY DEF Prune, Carries, CarriesShrink
<1> QED
  BY <1>1, <1>2 DEF Shrinks

LEMMA AgentCrashShrinks ==
  ASSUME TypeOK, NEW n \in Node, AgentCrash(n)
  PROVE  Shrinks
<1>1. CarriesShrink
  BY DEF AgentCrash, Carries, Carry, CarriesShrink
<1> QED
  BY <1>1, DockerShrinks DEF AgentCrash, hosts, Shrinks

\* The three steps that do more than that, or a step that shrinks.
Checkpoints(t) ==
  /\ pc[t] = "checkpoint" /\ Source(t).st = "running"
  /\ SetSource(t, LeftOver(t))
  /\ Learn(t, "archive", [call[t] EXCEPT !.ckpt = Dumped(t)])
  /\ UNCHANGED store

Starts(t) ==
  /\ pc[t] = "start"
  /\ SetTarget(t, Restored(t))
  /\ Answer(t, "ok")
  /\ UNCHANGED store

LEMMA StepKinds ==
  ASSUME TypeOK, [Next]_vars
  PROVE  \/ Shrinks
         \/ \E t \in Slot : Checkpoints(t) \/ Starts(t)
         \/ \E n \in Node, c \in Name : Work(n, c)
<1>1. CASE \E t \in Slot : PullContainer(t) \/ Step(t)
  <2>1. PICK t \in Slot : PullContainer(t) \/ Step(t)
    BY <1>1
  <2>2. CASE CheckpointCreate(t)
    <3>1. CASE Checkpoints(t)
      BY <3>1
    <3>2. CASE Answer(t, "failed") /\ UNCHANGED docker
      BY <3>2, AnswerCarries, DockerShrinks, TypeParts DEF Shrinks, Done
    <3> QED
      BY <2>2, <3>1, <3>2 DEF CheckpointCreate, Checkpoints
  <2>3. CASE ContainerStart(t)
    <3>1. CASE Starts(t)
      BY <3>1
    <3>2. CASE Answer(t, "failed") /\ UNCHANGED docker
      BY <3>2, AnswerCarries, DockerShrinks, TypeParts DEF Shrinks, Done
    <3> QED
      BY <2>3, <3>1, <3>2 DEF ContainerStart, Starts
  <2> QED
    BY <2>1, <2>2, <2>3, PullContainerShrinks, QuietStepShrinks, ContainerCreateShrinks DEF Step
<1>2. CASE \E n \in Node, c \in Name : ContainerExit(n, c)
  BY <1>2, ContainerExitShrinks
<1>3. CASE \E n \in Node : Prune(n) \/ AgentCrash(n)
  BY <1>3, PruneShrinks, AgentCrashShrinks
<1>4. CASE UNCHANGED vars
  BY <1>4 DEF vars, Shrinks, RunsShrink, CarriesShrink, Runs, Carries
<1> QED
  BY <1>1, <1>2, <1>3, <1>4 DEF Next

\* What CheckpointCreate, ContainerStart and Work leave behind.
LEMMA CheckpointsEffect ==
  ASSUME TypeOK, SingleInstance, NEW t \in Slot, Checkpoints(t)
  PROVE  \E c \in Name, m \in Node :
           /\ call[t].name = c /\ Runs(m, c)
           /\ \A n \in Node : ~Runs(n, c)'
           /\ \A n \in Node, b \in Name \ {c} : docker'[n][b] = docker[n][b]
           /\ Carries(t, c)' /\ ~Carries(t, c)
           /\ call'[t].snap = call[t].snap /\ call'[t].ckpt = docker[m][c].mem
           /\ \A u \in Slot \ {t} : pc'[u] = pc[u] /\ call'[u] = call[u]
<1>1. HostType /\ PullType /\ pc[t] \notin Done
  BY TypeParts DEF Checkpoints, Done
<1>2. PICK c \in Name, m \in Node : c = call[t].name /\ m = call[t].src
  BY <1>1, CallFields
<1>3. Runs(m, c) /\ ~Carries(t, c)
  BY <1>2 DEF Checkpoints, Source, Runs, Carries, Carry
<1>4. LeftOver(t) \in Container /\ LeftOver(t).st # "running"
  BY <1>1, EndsType DEF LeftOver, Container, NoData
<1>5. \A n \in Node, b \in Name :
        docker'[n][b] = IF n = m /\ b = c THEN LeftOver(t) ELSE docker[n][b]
  BY <1>1, <1>2, <1>4, ReplaceContainer DEF HostType, Checkpoints, SetSource
<1>6. \A n \in Node : ~Runs(n, c)'
  BY <1>3, <1>4, <1>5 DEF Runs, SingleInstance, OneHost
<1>7. /\ pc'[t] \in Carry /\ call'[t] = [call[t] EXCEPT !.ckpt = Dumped(t)]
      /\ \A u \in Slot \ {t} : pc'[u] = pc[u] /\ call'[u] = call[u]
  BY <1>1 DEF Checkpoints, Learn, PullType, Carry
<1>8. /\ call'[t].name = c /\ call'[t].snap = call[t].snap
      /\ call'[t].ckpt = docker[m][c].mem
  BY <1>1, <1>2, <1>7, CallFields DEF Call, Dumped, Source
<1> QED
  BY <1>2, <1>3, <1>5, <1>6, <1>7, <1>8 DEF Carries

LEMMA StartsEffect ==
  ASSUME TypeOK, NEW t \in Slot, Starts(t)
  PROVE  \E c \in Name, m \in Node :
           /\ call[t].name = c /\ Carries(t, c) /\ pc'[t] \in Done
           /\ Runs(m, c)' /\ docker'[m][c].mem = call[t].ckpt
           /\ \A n \in Node, b \in Name :
                n # m \/ b # c => docker'[n][b] = docker[n][b]
           /\ \A u \in Slot \ {t} : pc'[u] = pc[u] /\ call'[u] = call[u]
<1>1. HostType /\ PullType /\ pc[t] \notin Done
  BY TypeParts DEF Starts, Done
<1>2. PICK c \in Name, m \in Node : c = call[t].name /\ m = call[t].dst
  BY <1>1, CallFields
<1>3. Carries(t, c)
  BY <1>2 DEF Starts, Carries, Carry
<1>4. Restored(t) \in Container
  BY <1>1, CallFields DEF Restored, Container
<1>5. \A n \in Node, b \in Name :
        docker'[n][b] = IF n = m /\ b = c THEN Restored(t) ELSE docker[n][b]
  BY <1>1, <1>2, <1>4, ReplaceContainer DEF HostType, Starts, SetTarget
<1>6. Runs(m, c)' /\ docker'[m][c].mem = call[t].ckpt
  BY <1>5 DEF Runs, Restored
<1>7. /\ pc'[t] \in Done
      /\ \A u \in Slot \ {t} : pc'[u] = pc[u] /\ call'[u] = call[u]
  BY <1>1 DEF Starts, Answer, PullType, Done
<1> QED
  BY <1>2, <1>3, <1>5, <1>6, <1>7

LEMMA WorkEffect ==
  ASSUME TypeOK, NEW m \in Node, NEW c \in Name, Work(m, c)
  PROVE  /\ Runs(m, c) /\ docker'[m][c].mem = docker[m][c].mem + 1
         /\ docker[m][c].mem \in Nat
         /\ \A n \in Node, b \in Name : Runs(n, b)' <=> Runs(n, b)
         /\ \A n \in Node, b \in Name :
              n # m \/ b # c => docker'[n][b].mem = docker[n][b].mem
         /\ UNCHANGED <<pc, call>>
<1>1. docker \in [Node -> [Name -> Container]]
  BY TypeParts DEF HostType
<1>2. docker[m][c] \in Container /\ docker[m][c].mem \in Nat
  BY <1>1 DEF Container
<1> DEFINE con == [docker[m][c] EXCEPT !.mem = @ + 1]
<1>3. con \in Container /\ con.mem = docker[m][c].mem + 1 /\ con.st = docker[m][c].st
  BY <1>2 DEF Container
<1>4. docker' = [docker EXCEPT ![m][c] = con]
  BY <1>1 DEF Work
<1> HIDE DEF con
<1>5. \A n \in Node, b \in Name :
        docker'[n][b] = IF n = m /\ b = c THEN con ELSE docker[n][b]
  BY <1>1, <1>3, <1>4, ReplaceContainer
<1> QED
  BY <1>2, <1>3, <1>5 DEF Work, Runs

-----------------------------------------------------------------------------
LEMMA NextSingle ==
  ASSUME TypeOK, SingleInstance, [Next]_vars
  PROVE  SingleInstance'
<1>1. CASE Shrinks
  BY <1>1, ShrinkSingle
<1>2. CASE \E t \in Slot : Checkpoints(t)
  <2>1. PICK t \in Slot, c \in Name, m \in Node :
          /\ call[t].name = c /\ Runs(m, c)
          /\ \A n \in Node : ~Runs(n, c)'
          /\ \A n \in Node, b \in Name \ {c} : docker'[n][b] = docker[n][b]
          /\ Carries(t, c)' /\ ~Carries(t, c)
          /\ \A u \in Slot \ {t} : pc'[u] = pc[u] /\ call'[u] = call[u]
    BY <1>2, CheckpointsEffect
  <2>2. \A u \in Slot : Carries(u, c)' => u = t
    BY <2>1 DEF Carries, SingleInstance, NotRunAndHeld
  <2>3. \A b \in Name \ {c} :
          /\ \A n \in Node : Runs(n, b)' <=> Runs(n, b)
          /\ \A u \in Slot : Carries(u, b)' => Carries(u, b)
    BY <2>1 DEF Runs, Carries
  <2> QED
    BY <2>1, <2>2, <2>3 DEF SingleInstance, OneHost, NotRunAndHeld, OneCarrier
<1>3. CASE \E t \in Slot : Starts(t)
  <2>1. PICK t \in Slot, c \in Name, m \in Node :
          /\ call[t].name = c /\ Carries(t, c) /\ pc'[t] \in Done
          /\ \A n \in Node, b \in Name : n # m \/ b # c => docker'[n][b] = docker[n][b]
          /\ \A u \in Slot \ {t} : pc'[u] = pc[u] /\ call'[u] = call[u]
    BY <1>3, StartsEffect
  <2>2. \A u \in Slot : ~Carries(u, c)'
    BY <2>1 DEF Carries, Carry, Done, SingleInstance, OneCarrier
  <2>3. \A n \in Node : Runs(n, c)' => n = m
    BY <2>1 DEF Runs, SingleInstance, NotRunAndHeld
  <2>4. \A b \in Name \ {c} :
          /\ \A n \in Node : Runs(n, b)' <=> Runs(n, b)
          /\ \A u \in Slot : Carries(u, b)' => Carries(u, b)
    BY <2>1 DEF Runs, Carries, Carry, Done
  <2> QED
    BY <2>2, <2>3, <2>4 DEF SingleInstance, OneHost, NotRunAndHeld, OneCarrier
<1>4. CASE \E n \in Node, c \in Name : Work(n, c)
  <2>1. /\ \A n \in Node, b \in Name : Runs(n, b)' <=> Runs(n, b)
        /\ UNCHANGED <<pc, call>>
    BY <1>4, WorkEffect
  <2> QED
    BY <2>1 DEF SingleInstance, OneHost, NotRunAndHeld, OneCarrier, Carries
<1> QED
  BY <1>1, <1>2, <1>3, <1>4, StepKinds

\* A workload never runs on two hosts, never runs while a pull holds a process
\* image of it, and is never held by two pulls: whatever the number of hosts,
\* containers and concurrent pulls, and whatever fails or crashes.
THEOREM SingleInstanceAlways == Spec => []SingleInstance
<1>1. Init => TypeOK /\ SingleInstance
  BY InitType, InitSingle
<1>2. TypeOK /\ SingleInstance /\ [Next]_vars => TypeOK' /\ SingleInstance'
  BY NextType, NextSingle
<1> QED
  BY <1>1, <1>2, PTL DEF Spec

-----------------------------------------------------------------------------
(***************************************************************************)
(* No copy of a volume is ahead of its process.  Only Work writes a new    *)
(* version; every other step copies a version that is already somewhere.   *)
(***************************************************************************)
StoreKept ==
  \A n \in Node, c \in Name : store'[n][c] \in Copies(c) \cup {NoData}

SnapsKept ==
  \A u \in Slot : pc'[u] \notin Done =>
    call'[u].snap \in Copies(call'[u].name) \cup {NoData}

LEMMA StoreSame ==
  ASSUME UNCHANGED store
  PROVE  StoreKept
  BY DEF StoreKept, Copies

LEMMA GotoKeeps ==
  ASSUME PullType, NEW t \in Slot, pc[t] \notin Done, NEW stage, Goto(t, stage)
  PROVE  SnapsKept
  BY DEF PullType, Goto, SnapsKept, Copies

LEMMA AnswerKeeps ==
  ASSUME PullType, NEW t \in Slot, NEW result \in Done, Answer(t, result)
  PROVE  SnapsKept
  BY DEF PullType, Answer, SnapsKept, Copies

LEMMA LearnKeeps ==
  ASSUME PullType, NEW t \in Slot, NEW stage, NEW known, Learn(t, stage, known),
         known.snap \in Copies(known.name) \cup {NoData}
  PROVE  SnapsKept
<1>1. \A u \in Slot \ {t} : pc'[u] = pc[u] /\ call'[u] = call[u]
  BY DEF PullType, Learn
<1>2. call'[t] = known
  BY DEF PullType, Learn
<1>3. \A u \in Slot \ {t} : pc[u] \notin Done => call[u].snap \in Copies(call[u].name)
  BY DEF Copies
<1> QED
  BY <1>1, <1>2, <1>3 DEF SnapsKept

LEMMA PullKeeps ==
  ASSUME TypeOK, NEW t \in Slot, PullContainer(t) \/ Step(t)
  PROVE  StoreKept /\ SnapsKept
<1>1. HostType /\ PullType
  BY TypeParts
<1>2. CASE PullContainer(t)
  <2>1. PICK known : Learn(t, "info", known) /\ known.snap = NoData
    BY <1>2 DEF PullContainer
  <2> QED
    BY <1>1, <1>2, <2>1, LearnKeeps, StoreSame DEF PullContainer, hosts
<1>3. CASE Step(t)
  <2>1. pc[t] \notin Done
    BY <1>3 DEF Done, Step, TransferContainerInfo, PullImageIfNotExists, TransferVolume,
       Createvolume, InspectContainer, CheckpointCreate, ArchiveCheckpoint,
       RenameRecordFile, CheckpointResponse, ContainerCreate, ExtractCheckpoint,
       ContainerStart
  <2>2. CASE TransferVolume(t)
    <3> DEFINE known == [call[t] EXCEPT !.snap = store[call[t].src][call[t].name]]
    <3>1. known.name = call[t].name /\ known.snap = store[call[t].src][call[t].name]
      BY <1>1, <2>1, CallFields DEF Call
    <3>2. known.snap \in Copies(known.name)
      BY <1>1, <2>1, <3>1, CallFields DEF Copies
    <3>3. Learn(t, "createvolume", known) \/ Goto(t, "createvolume") \/ Answer(t, "failed")
      BY <2>2 DEF TransferVolume
    <3> HIDE DEF known
    <3> QED
      BY <1>1, <2>1, <2>2, <3>2, <3>3, LearnKeeps, GotoKeeps, AnswerKeeps, StoreSame
         DEF TransferVolume, hosts, Done
  <2>3. CASE InspectContainer(t)
    <3> DEFINE known == [call[t] EXCEPT !.cid = Source(t).id]
    <3>1. known.name = call[t].name /\ known.snap = call[t].snap
      BY <1>1, <2>1, CallFields DEF Call
    <3>2. known.snap \in Copies(known.name)
      BY <2>1, <3>1 DEF Copies
    <3>3. Learn(t, "checkpoint", known) \/ Answer(t, "failed")
      BY <2>3 DEF InspectContainer
    <3> HIDE DEF known
    <3> QED
      BY <1>1, <2>3, <3>2, <3>3, LearnKeeps, AnswerKeeps, StoreSame
         DEF InspectContainer, hosts, Done
  <2>4. CASE CheckpointCreate(t)
    <3> DEFINE known == [call[t] EXCEPT !.ckpt = Dumped(t)]
    <3>1. known.name = call[t].name /\ known.snap = call[t].snap
      BY <1>1, <2>1, CallFields DEF Call
    <3>2. known.snap \in Copies(known.name)
      BY <2>1, <3>1 DEF Copies
    <3>3. Learn(t, "archive", known) \/ Answer(t, "failed")
      BY <2>4 DEF CheckpointCreate
    <3> HIDE DEF known
    <3> QED
      BY <1>1, <2>4, <3>2, <3>3, LearnKeeps, AnswerKeeps, StoreSame
         DEF CheckpointCreate, Done
  <2>5. CASE Createvolume(t)
    <3>1. SnapsKept
      BY <1>1, <2>1, <2>5, GotoKeeps, AnswerKeeps DEF Createvolume, Done
    <3>2. CASE store' = store
      BY <3>1, <3>2, StoreSame
    <3>3. CASE store' = [store EXCEPT ![call[t].dst][call[t].name] = call[t].snap]
      <4>1. call[t].snap \in Copies(call[t].name)
        BY <2>1 DEF Copies
      <4>2. \A n \in Node, c \in Name : store[n][c] \in Copies(c)
        BY DEF Copies
      <4>3. StoreKept
        BY <1>1, <3>3, <4>1, <4>2 DEF StoreKept, HostType
      <4> QED
        BY <3>1, <4>3
    <3> QED
      BY <2>5, <3>2, <3>3 DEF Createvolume, Unpacked
  <2>6. CASE \/ TransferContainerInfo(t) \/ PullImageIfNotExists(t) \/ ArchiveCheckpoint(t)
             \/ RenameRecordFile(t) \/ CheckpointResponse(t) \/ ContainerCreate(t)
             \/ ExtractCheckpoint(t) \/ ContainerStart(t)
    <3>1. UNCHANGED store
      BY <2>6 DEF hosts, TransferContainerInfo, PullImageIfNotExists, ArchiveCheckpoint,
         RenameRecordFile, CheckpointResponse, ContainerCreate, ExtractCheckpoint,
         ContainerStart
    <3>2. (\E stage : Goto(t, stage)) \/ \E result \in Done : Answer(t, result)
      BY <2>6 DEF Done, TransferContainerInfo, PullImageIfNotExists, ArchiveCheckpoint,
         RenameRecordFile, CheckpointResponse, ContainerCreate, ExtractCheckpoint,
         ContainerStart
    <3> QED
      BY <1>1, <2>1, <3>1, <3>2, GotoKeeps, AnswerKeeps, StoreSame
  <2> QED
    BY <1>3, <2>2, <2>3, <2>4, <2>5, <2>6 DEF Step
<1> QED
  BY <1>2, <1>3

LEMMA NextKeeps ==
  ASSUME TypeOK, [Next]_vars, ~ \E n \in Node, c \in Name : Work(n, c)
  PROVE  StoreKept /\ SnapsKept
<1>1. CASE \E t \in Slot : PullContainer(t) \/ Step(t)
  BY <1>1, PullKeeps
<1>2. CASE UNCHANGED <<store, pc, call>>
  BY <1>2, StoreSame DEF SnapsKept, Copies
<1>3. CASE \E n \in Node : AgentCrash(n)
  <2>1. \A u \in Slot : pc'[u] \notin Done => pc[u] \notin Done /\ call'[u] = call[u]
    BY <1>3 DEF AgentCrash, Done
  <2>2. SnapsKept
    BY <2>1 DEF SnapsKept, Copies
  <2> QED
    BY <1>3, <2>2, StoreSame DEF AgentCrash, hosts
<1> QED
  BY <1>1, <1>2, <1>3 DEF Next, ContainerExit, Prune, vars

\* How far the workload of c may still be: the bounds of VolumeNotAhead.
Ages(c) == {docker[n][c].mem : n \in {m \in Node : Runs(m, c)}}
             \cup {call[t].ckpt : t \in {u \in Slot : Carries(u, c)}}

LEMMA AheadAges ==
  VolumeNotAhead <=> \A c \in Name : \A v \in Copies(c), a \in Ages(c) : v <= a
  BY DEF VolumeNotAhead, Ages

LEMMA AgesType ==
  ASSUME TypeOK, NEW c \in Name, NEW a \in Ages(c)
  PROVE  a \in Nat
<1>1. \A n \in Node : docker[n][c].mem \in Nat
  BY TypeParts DEF HostType, Container
<1>2. \A t \in Slot : Carries(t, c) => call[t].ckpt \in Nat
  BY TypeParts, CallFields DEF Carries, Carry, Done
<1> QED
  BY <1>1, <1>2 DEF Ages

\* No step but Work makes a workload older or younger.
LEMMA AgesKept ==
  ASSUME TypeOK, SingleInstance, [Next]_vars, ~ \E n \in Node, c \in Name : Work(n, c),
         NEW c \in Name
  PROVE  Ages(c)' \subseteq Ages(c)
<1>1. CASE Shrinks
  BY <1>1 DEF Shrinks, RunsShrink, CarriesShrink, Ages
<1>2. CASE \E t \in Slot : Checkpoints(t)
  <2>1. PICK t \in Slot, b \in Name, m \in Node :
          /\ Runs(m, b)
          /\ \A n \in Node : ~Runs(n, b)'
          /\ \A n \in Node, d \in Name \ {b} : docker'[n][d] = docker[n][d]
          /\ Carries(t, b)' /\ call'[t].ckpt = docker[m][b].mem
          /\ \A u \in Slot \ {t} : pc'[u] = pc[u] /\ call'[u] = call[u]
    BY <1>2, CheckpointsEffect
  <2>2. \A u \in Slot : Carries(u, c)' /\ u # t => Carries(u, c) /\ call'[u].ckpt = call[u].ckpt
    BY <2>1 DEF Carries
  <2>3. CASE c = b
    BY <2>1, <2>2, <2>3 DEF Ages
  <2>4. CASE c # b
    <3>1. ~Carries(t, c)'
      BY <2>1, <2>4 DEF Carries
    <3> QED
      BY <2>1, <2>2, <2>4, <3>1 DEF Ages, Runs
  <2> QED
    BY <2>3, <2>4
<1>3. CASE \E t \in Slot : Starts(t)
  <2>1. PICK t \in Slot, b \in Name, m \in Node :
          /\ Carries(t, b) /\ pc'[t] \in Done
          /\ Runs(m, b)' /\ docker'[m][b].mem = call[t].ckpt
          /\ \A n \in Node, d \in Name : n # m \/ d # b => docker'[n][d] = docker[n][d]
          /\ \A u \in Slot \ {t} : pc'[u] = pc[u] /\ call'[u] = call[u]
    BY <1>3, StartsEffect
  <2>2. \A u \in Slot : Carries(u, c)' => Carries(u, c) /\ call'[u].ckpt = call[u].ckpt
    BY <2>1 DEF Carries, Carry, Done
  <2>3. \A n \in Node : Runs(n, c)' => docker'[n][c].mem \in Ages(c)
    BY <2>1 DEF Runs, Ages
  <2> QED
    BY <2>2, <2>3 DEF Ages
<1> QED
  BY <1>1, <1>2, <1>3, StepKinds

LEMMA NextVolume ==
  ASSUME TypeOK, SingleInstance, VolumeNotAhead, [Next]_vars
  PROVE  VolumeNotAhead'
<1>1. CASE \E n \in Node, c \in Name : Work(n, c)
  <2>1. PICK m \in Node, c \in Name : Work(m, c)
    BY <1>1
  <2>2. /\ Runs(m, c) /\ docker'[m][c].mem = docker[m][c].mem + 1 /\ docker[m][c].mem \in Nat
        /\ \A n \in Node, b \in Name : Runs(n, b)' <=> Runs(n, b)
        /\ \A n \in Node, b \in Name : n # m \/ b # c => docker'[n][b].mem = docker[n][b].mem
        /\ UNCHANGED <<pc, call>>
    BY <2>1, WorkEffect
  <2>3. \A n \in Node, b \in Name :
          store'[n][b] = store[n][b] \/ (b = c /\ store'[n][b] = docker[m][c].mem + 1)
    BY <2>1, TypeParts DEF Work, HostType
  <2>4. \A b \in Name : \A v \in Copies(b)' :
          v \in Copies(b) \/ (b = c /\ v = docker[m][c].mem + 1)
    BY <2>2, <2>3 DEF Copies
  <2>5. \A b \in Name \ {c} : Ages(b)' \subseteq Ages(b)
    BY <2>2 DEF Ages, Carries
  <2>6. Ages(c)' = {docker[m][c].mem + 1}
    BY <2>2 DEF Ages, Carries, SingleInstance, OneHost, NotRunAndHeld
  <2>7. docker[m][c].mem \in Ages(c)
    BY <2>2 DEF Ages
  <2>8. \A v \in Copies(c) : v <= docker[m][c].mem /\ v \in Nat
    <3>1. Copies(c) \subseteq Nat
      BY TypeParts, CallFields DEF HostType, Copies
    <3> QED
      BY <2>7, <3>1, AheadAges
  <2>9. \A v \in Copies(c)' : v <= docker[m][c].mem + 1
    BY <2>2, <2>4, <2>8
  <2>10. \A b \in Name : \A v \in Copies(b)', a \in Ages(b)' : v <= a
    <3> SUFFICES ASSUME NEW b \in Name, NEW v \in Copies(b)', NEW a \in Ages(b)'
                 PROVE  v <= a
      OBVIOUS
    <3>1. CASE b = c
      BY <2>6, <2>9, <3>1
    <3>2. CASE b # c
      BY <2>4, <2>5, <3>2, AheadAges
    <3> QED
      BY <3>1, <3>2
  <2> QED
    BY <2>10 DEF VolumeNotAhead, Ages
<1>2. CASE ~ \E n \in Node, c \in Name : Work(n, c)
  <2> SUFFICES ASSUME NEW c \in Name, NEW v \in Copies(c)', NEW a \in Ages(c)'
               PROVE  v <= a
    BY DEF VolumeNotAhead, Ages
  <2>1. a \in Ages(c) /\ a \in Nat
    BY <1>2, AgesKept, AgesType
  <2>2. v \in Copies(c) \cup {NoData}
    BY <1>2, NextKeeps DEF StoreKept, SnapsKept, Copies
  <2> QED
    BY <2>1, <2>2, AheadAges DEF NoData
<1> QED
  BY <1>1, <1>2

LEMMA InitVolume == Init => VolumeNotAhead
<1> SUFFICES ASSUME Init PROVE VolumeNotAhead
  OBVIOUS
<1>1. PICK home \in [Name -> Node] :
        /\ docker = [n \in Node |-> [c \in Name |->
                       IF n = home[c]
                         THEN [st |-> "running", id |-> Launched, mem |-> 1]
                         ELSE NoContainer]]
        /\ store = [n \in Node |-> [c \in Name |->
                      IF n = home[c] /\ c \in LocalVolume THEN 1 ELSE NoData]]
  BY DEF Init
<1>2. \A t \in Slot : pc[t] \in Done /\ pc[t] \notin Carry
  BY DEF Init, Done, Carry
<1>3. \A c \in Name : \A v \in Copies(c) : v \in {0, 1}
  BY <1>1, <1>2 DEF Copies, NoData
<1>4. \A n \in Node, c \in Name : Runs(n, c) => docker[n][c].mem = 1
  BY <1>1 DEF Runs, NoContainer
<1> QED
  BY <1>2, <1>3, <1>4 DEF VolumeNotAhead, Carries

\* A process that runs, or will be resumed, never meets a volume written by its
\* own future, on any host and in any TransferVolume response: a pull can bring
\* back an old volume, never one ahead of the memory it belongs to.
THEOREM VolumeNeverAhead == Spec => []VolumeNotAhead
<1>1. Init => TypeOK /\ SingleInstance /\ VolumeNotAhead
  BY InitType, InitSingle, InitVolume
<1>2. TypeOK /\ SingleInstance /\ VolumeNotAhead /\ [Next]_vars
        => TypeOK' /\ SingleInstance' /\ VolumeNotAhead'
  BY NextType, NextSingle, NextVolume
<1> QED
  BY <1>1, <1>2, PTL DEF Spec

-----------------------------------------------------------------------------
(***************************************************************************)
(* Refinement.  SingleInstance makes Workload well defined: the process    *)
(* that runs, or the pull that carries its image, is the only one.         *)
(***************************************************************************)
LEMMA WorkloadRuns ==
  ASSUME SingleInstance, NEW c \in Name, NEW n \in Node, Runs(n, c)
  PROVE  Workload(c) = [at |-> "node", node |-> n, mem |-> docker[n][c].mem]
  BY DEF SingleInstance, OneHost, Workload

LEMMA WorkloadCarried ==
  ASSUME SingleInstance, NEW c \in Name, NEW t \in Slot, Carries(t, c)
  PROVE  Workload(c) = [at |-> "transit", mem |-> call[t].ckpt]
  BY DEF SingleInstance, NotRunAndHeld, OneCarrier, Workload

LEMMA WorkloadGone ==
  ASSUME NEW c \in Name, \A n \in Node : ~Runs(n, c), \A t \in Slot : ~Carries(t, c)
  PROVE  Workload(c) = [at |-> "gone"]
  BY DEF Workload

\* The same of the state a step leads to.
LEMMA WorkloadRunsNext ==
  ASSUME SingleInstance', NEW c \in Name, NEW n \in Node, Runs(n, c)'
  PROVE  Workload(c)' = [at |-> "node", node |-> n, mem |-> docker'[n][c].mem]
  BY DEF SingleInstance, OneHost, Workload

LEMMA WorkloadCarriedNext ==
  ASSUME SingleInstance', NEW c \in Name, NEW t \in Slot, Carries(t, c)'
  PROVE  Workload(c)' = [at |-> "transit", mem |-> call'[t].ckpt]
  BY DEF SingleInstance, NotRunAndHeld, OneCarrier, Workload

LEMMA WorkloadGoneNext ==
  ASSUME NEW c \in Name, \A n \in Node : ~Runs(n, c)', \A t \in Slot : ~Carries(t, c)'
  PROVE  Workload(c)' = [at |-> "gone"]
  BY DEF Workload

\* A step that shrinks leaves a workload where it is or ends it.
LEMMA ShrinkWorkload ==
  ASSUME SingleInstance, SingleInstance', Shrinks, NEW c \in Name
  PROVE  Workload(c)' \in {Workload(c), [at |-> "gone"]}
<1>1. CASE \E n \in Node : Runs(n, c)'
  BY <1>1, WorkloadRuns, WorkloadRunsNext DEF Shrinks, RunsShrink
<1>2. CASE \E t \in Slot : Carries(t, c)'
  BY <1>2, WorkloadCarried, WorkloadCarriedNext DEF Shrinks, CarriesShrink
<1>3. CASE (\A n \in Node : ~Runs(n, c)') /\ (\A t \in Slot : ~Carries(t, c)')
  BY <1>3, WorkloadGoneNext
<1> QED
  BY <1>1, <1>2, <1>3

\* A workload whose hosts and pulls a step leaves alone stays what it is.
LEMMA SameWorkload ==
  ASSUME SingleInstance, SingleInstance', NEW c \in Name,
         \A n \in Node : Runs(n, c)' <=> Runs(n, c),
         \A n \in Node : docker'[n][c].mem = docker[n][c].mem,
         \A t \in Slot : Carries(t, c)' <=> Carries(t, c),
         \A t \in Slot : Carries(t, c) => call'[t].ckpt = call[t].ckpt
  PROVE  Workload(c)' = Workload(c)
<1>1. CASE \E n \in Node : Runs(n, c)
  BY <1>1, WorkloadRuns, WorkloadRunsNext
<1>2. CASE \E t \in Slot : Carries(t, c)
  BY <1>2, WorkloadCarried, WorkloadCarriedNext
<1>3. CASE (\A n \in Node : ~Runs(n, c)) /\ (\A t \in Slot : ~Carries(t, c))
  BY <1>3, WorkloadGone, WorkloadGoneNext
<1> QED
  BY <1>1, <1>2, <1>3

LEMMA ShrinkHandoff ==
  ASSUME SingleInstance, SingleInstance', Shrinks
  PROVE  Handoff!Next
<1> DEFINE C == {c \in Name : Workload(c)' # Workload(c)}
<1>1. \A c \in Name : Workload(c)' = IF c \in C THEN [at |-> "gone"] ELSE Workload(c)
  BY ShrinkWorkload
<1>2. Handoff!End(C)
  BY <1>1 DEF Handoff!End, Handoff!Gone
<1> QED
  BY <1>2 DEF Handoff!Next

LEMMA CheckpointsHandoff ==
  ASSUME TypeOK, SingleInstance, SingleInstance', NEW t \in Slot, Checkpoints(t)
  PROVE  Handoff!Next
<1>1. PICK c \in Name, m \in Node :
        /\ Runs(m, c)
        /\ \A n \in Node, b \in Name \ {c} : docker'[n][b] = docker[n][b]
        /\ call[t].name = c /\ Carries(t, c)' /\ call'[t].ckpt = docker[m][c].mem
        /\ \A u \in Slot \ {t} : pc'[u] = pc[u] /\ call'[u] = call[u]
  BY CheckpointsEffect
<1>2. Workload(c) = [at |-> "node", node |-> m, mem |-> docker[m][c].mem]
  BY <1>1, WorkloadRuns
<1>3. Workload(c)' = [at |-> "transit", mem |-> docker[m][c].mem]
  BY <1>1, WorkloadCarriedNext
<1>4. \A b \in Name \ {c} : Workload(b)' = Workload(b)
  <2> SUFFICES ASSUME NEW b \in Name \ {c} PROVE Workload(b)' = Workload(b)
    OBVIOUS
  <2>1. /\ \A n \in Node : Runs(n, b)' <=> Runs(n, b)
        /\ \A n \in Node : docker'[n][b].mem = docker[n][b].mem
    BY <1>1 DEF Runs
  <2>2. /\ \A u \in Slot : Carries(u, b)' <=> Carries(u, b)
        /\ \A u \in Slot : Carries(u, b) => call'[u].ckpt = call[u].ckpt
    BY <1>1 DEF Carries
  <2> QED
    BY <2>1, <2>2, SameWorkload
<1>5. Handoff!Freeze(c)
  <2> DEFINE wl == [b \in Name |-> Workload(b)]
  <2>1. wl[c].at = "node" /\ wl[c].node = m /\ wl[c].mem = docker[m][c].mem
    BY <1>2
  <2>2. wl' = [wl EXCEPT ![c] = [at |-> "transit", mem |-> docker[m][c].mem]]
    BY <1>3, <1>4
  <2>3. wl' = [wl EXCEPT ![c] = Handoff!Frozen(wl[c].mem)]
    BY <2>1, <2>2 DEF Handoff!Frozen
  <2> QED
    BY <2>1, <2>3 DEF Handoff!Freeze
<1> QED
  BY <1>5 DEF Handoff!Next

LEMMA StartsHandoff ==
  ASSUME TypeOK, SingleInstance, SingleInstance', NEW t \in Slot, Starts(t)
  PROVE  Handoff!Next
<1>1. PICK c \in Name, m \in Node :
        /\ call[t].name = c /\ Carries(t, c) /\ pc'[t] \in Done
        /\ Runs(m, c)' /\ docker'[m][c].mem = call[t].ckpt
        /\ \A n \in Node, b \in Name : n # m \/ b # c => docker'[n][b] = docker[n][b]
        /\ \A u \in Slot \ {t} : pc'[u] = pc[u] /\ call'[u] = call[u]
  BY StartsEffect
<1>2. Workload(c) = [at |-> "transit", mem |-> call[t].ckpt]
  BY <1>1, WorkloadCarried
<1>3. Workload(c)' = [at |-> "node", node |-> m, mem |-> call[t].ckpt]
  BY <1>1, WorkloadRunsNext
<1>4. \A b \in Name \ {c} : Workload(b)' = Workload(b)
  <2> SUFFICES ASSUME NEW b \in Name \ {c} PROVE Workload(b)' = Workload(b)
    OBVIOUS
  <2>1. /\ \A n \in Node : Runs(n, b)' <=> Runs(n, b)
        /\ \A n \in Node : docker'[n][b].mem = docker[n][b].mem
    BY <1>1 DEF Runs
  <2>2. /\ \A u \in Slot : Carries(u, b)' <=> Carries(u, b)
        /\ \A u \in Slot : Carries(u, b) => call'[u].ckpt = call[u].ckpt
    BY <1>1 DEF Carries, Carry, Done
  <2> QED
    BY <2>1, <2>2, SameWorkload
<1>5. Handoff!Thaw(c)
  <2> DEFINE wl == [b \in Name |-> Workload(b)]
  <2>1. wl[c].at = "transit" /\ wl[c].mem = call[t].ckpt
    BY <1>2
  <2>2. wl' = [wl EXCEPT ![c] = [at |-> "node", node |-> m, mem |-> call[t].ckpt]]
    BY <1>3, <1>4
  <2>3. wl' = [wl EXCEPT ![c] = Handoff!Running(m, wl[c].mem)]
    BY <2>1, <2>2 DEF Handoff!Running
  <2> QED
    BY <2>1, <2>3 DEF Handoff!Thaw
<1> QED
  BY <1>5 DEF Handoff!Next

LEMMA WorkHandoff ==
  ASSUME TypeOK, SingleInstance, SingleInstance', NEW m \in Node, NEW c \in Name, Work(m, c)
  PROVE  Handoff!Next
<1>1. /\ Runs(m, c) /\ docker'[m][c].mem = docker[m][c].mem + 1
      /\ \A n \in Node, b \in Name : Runs(n, b)' <=> Runs(n, b)
      /\ \A n \in Node, b \in Name : n # m \/ b # c => docker'[n][b].mem = docker[n][b].mem
      /\ UNCHANGED <<pc, call>>
  BY WorkEffect
<1>2. Workload(c) = [at |-> "node", node |-> m, mem |-> docker[m][c].mem]
  BY <1>1, WorkloadRuns
<1>3. Workload(c)' = [at |-> "node", node |-> m, mem |-> docker[m][c].mem + 1]
  BY <1>1, WorkloadRunsNext
<1>4. \A b \in Name \ {c} : Workload(b)' = Workload(b)
  BY <1>1, SameWorkload DEF Carries
<1>5. Handoff!Work(c)
  <2> DEFINE wl == [b \in Name |-> Workload(b)]
  <2>1. wl[c].at = "node" /\ wl[c].node = m /\ wl[c].mem = docker[m][c].mem
    BY <1>2
  <2>2. wl' = [wl EXCEPT ![c] = [at |-> "node", node |-> m, mem |-> docker[m][c].mem + 1]]
    BY <1>3, <1>4
  <2>3. wl' = [wl EXCEPT ![c] = Handoff!Running(wl[c].node, wl[c].mem + 1)]
    BY <2>1, <2>2 DEF Handoff!Running
  <2> QED
    BY <2>1, <2>3 DEF Handoff!Work
<1> QED
  BY <1>5 DEF Handoff!Next

LEMMA NextHandoff ==
  ASSUME TypeOK, SingleInstance, SingleInstance', [Next]_vars
  PROVE  Handoff!Next
  BY StepKinds, ShrinkHandoff, CheckpointsHandoff, StartsHandoff, WorkHandoff

LEMMA InitHandoff == Init => Handoff!Init
<1> SUFFICES ASSUME Init PROVE Handoff!Init
  OBVIOUS
<1>1. PICK home \in [Name -> Node] :
        docker = [n \in Node |-> [c \in Name |->
                    IF n = home[c]
                      THEN [st |-> "running", id |-> Launched, mem |-> 1]
                      ELSE NoContainer]]
  BY DEF Init
<1>2. \A c \in Name : Runs(home[c], c) /\ docker[home[c]][c].mem = 1
  BY <1>1 DEF Runs
<1>3. \A c \in Name : Workload(c) = [at |-> "node", node |-> home[c], mem |-> 1]
  BY <1>2, InitSingle, WorkloadRuns
<1> QED
  BY <1>3 DEF Handoff!Init, Handoff!Running

\* The pulls implement WorkloadHandoff: on every path through the two agents,
\* with any interleaving, failure or crash, a workload either stays where it is,
\* moves with exactly the memory it was stopped with, or is gone for good.
THEOREM PullsImplementHandoff == Spec => HandoffSpec
<1>1. Init => TypeOK /\ SingleInstance
  BY InitType, InitSingle
<1>2. TypeOK /\ SingleInstance /\ [Next]_vars => TypeOK' /\ SingleInstance'
  BY NextType, NextSingle
<1>3. TypeOK /\ SingleInstance /\ SingleInstance' /\ [Next]_vars => Handoff!Next
  BY NextHandoff
<1> QED
  BY <1>1, <1>2, <1>3, InitHandoff, PTL DEF Spec, HandoffSpec, Handoff!Spec
=============================================================================
