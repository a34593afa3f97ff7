-------------------------- MODULE ExperimentProofs --------------------------
(***************************************************************************)
(* What the experiments record, for any bandwidths, images, iterations and *)
(* drivers, whatever fails, ends by itself or is killed: the CSV file has  *)
(* one header (HeaderOnce), a row is about the container of its iteration  *)
(* (RowsOfThisRun), measured under its limit (LimitsHold), a record on the *)
(* destination has one on the source (Predictions), and an iteration       *)
(* without trouble leaves its record (NothingSkipped).                     *)
(*                                                                         *)
(* First what stands where in the drivers' programs, the types, and where  *)
(* in its driver's program a call can be (CallInv); then an inductive      *)
(* invariant for each of the five, and the theorems at the end.            *)
(***************************************************************************)
EXTENDS Experiment, TLAPS

-----------------------------------------------------------------------------
(* The programs of the drivers. *)

StepName == {"limit", "del", "root", "class", "netem", "filter", "stargz", "overlay", "keep",
             "run", "wait", "pull", "record", "stat", "open", "write"}

LEMMA Joined ==
  ASSUME NEW s \in Seq(StepName), NEW t \in Seq(StepName)
  PROVE  /\ s \o t \in Seq(StepName) /\ Len(s \o t) = Len(s) + Len(t)
         /\ \A i \in 1..Len(s) : (s \o t)[i] = s[i]
         /\ \A i \in 1..Len(t) : (s \o t)[Len(s) + i] = t[i]
<1>1. /\ s \o t \in Seq(StepName) /\ Len(s \o t) = Len(s) + Len(t)
      /\ \A i \in 1..Len(s) : (s \o t)[i] = s[i]
  OBVIOUS
<1>2. ASSUME NEW i \in 1..Len(t) PROVE (s \o t)[Len(s) + i] = t[i]
  <2> DEFINE j == Len(s) + i
  <2>1. j \in 1..(Len(s) + Len(t)) /\ Len(s) < j /\ j - Len(s) = i
    OBVIOUS
  <2> HIDE DEF j
  <2>2. (s \o t)[j] = t[j - Len(s)]
    BY <2>1
  <2> QED
    BY <2>1, <2>2 DEF j
<1> QED
  BY <1>1, <1>2

\* A program that begins with SetBW.
LEMMA Limited ==
  ASSUME NEW t \in Seq(StepName)
  PROVE  /\ Limit \o t \in Seq(StepName) /\ Len(Limit \o t) = 6 + Len(t)
         /\ (Limit \o t)[1] = "limit" /\ (Limit \o t)[2] = "del" /\ (Limit \o t)[3] = "root"
         /\ (Limit \o t)[4] = "class" /\ (Limit \o t)[5] = "netem" /\ (Limit \o t)[6] = "filter"
         /\ \A i \in 1..Len(t) : (Limit \o t)[6 + i] = t[i]
<1>1. /\ Limit \in Seq(StepName) /\ Len(Limit) = 6
      /\ Limit[1] = "limit" /\ Limit[2] = "del" /\ Limit[3] = "root"
      /\ Limit[4] = "class" /\ Limit[5] = "netem" /\ Limit[6] = "filter"
  <2> DEFINE one == <<"limit">>
  <2>1. one \in Seq(StepName) /\ Len(one) = 1 /\ one[1] = "limit"
    BY DEF StepName
  <2>2. /\ SetBW \in Seq(StepName) /\ Len(SetBW) = 5
        /\ SetBW[1] = "del" /\ SetBW[2] = "root" /\ SetBW[3] = "class"
        /\ SetBW[4] = "netem" /\ SetBW[5] = "filter"
    BY DEF SetBW, StepName
  <2>3. /\ 1 \in 1..1 /\ 1 \in 1..5 /\ 2 \in 1..5 /\ 3 \in 1..5 /\ 4 \in 1..5 /\ 5 \in 1..5
        /\ 1 + 1 = 2 /\ 1 + 2 = 3 /\ 1 + 3 = 4 /\ 1 + 4 = 5 /\ 1 + 5 = 6
    OBVIOUS
  <2>4. Limit = one \o SetBW
    BY DEF Limit
  <2> HIDE DEF one
  <2>5. /\ Limit \in Seq(StepName) /\ Len(Limit) = Len(one) + Len(SetBW)
        /\ \A i \in 1..Len(one) : Limit[i] = one[i]
        /\ \A i \in 1..Len(SetBW) : Limit[Len(one) + i] = SetBW[i]
    BY <2>1, <2>2, <2>4, Joined, Zenon
  <2>6. \A i \in 1..5 : Limit[1 + i] = SetBW[i]
    BY <2>1, <2>2, <2>5, Zenon
  <2>7. Limit[1] = "limit" /\ Len(Limit) = 6
    BY <2>1, <2>2, <2>3, <2>5, Zenon
  <2> QED
    BY <2>2, <2>3, <2>5, <2>6, <2>7, Zenon
<1>2. 1 \in 1..6 /\ 2 \in 1..6 /\ 3 \in 1..6 /\ 4 \in 1..6 /\ 5 \in 1..6 /\ 6 \in 1..6
  OBVIOUS
<1>3. /\ Limit \o t \in Seq(StepName) /\ Len(Limit \o t) = Len(Limit) + Len(t)
      /\ \A i \in 1..Len(Limit) : (Limit \o t)[i] = Limit[i]
      /\ \A i \in 1..Len(t) : (Limit \o t)[Len(Limit) + i] = t[i]
  BY <1>1, Joined, Zenon
<1>4. /\ Len(Limit \o t) = 6 + Len(t) /\ \A i \in 1..6 : (Limit \o t)[i] = Limit[i]
      /\ \A i \in 1..Len(t) : (Limit \o t)[6 + i] = t[i]
  BY <1>1, <1>3, Zenon
<1> QED
  BY <1>1, <1>2, <1>3, <1>4, Zenon

LEMMA PFSteps ==
  /\ ExpCollectPF \in Seq(StepName) /\ Len(ExpCollectPF) = 10
  /\ ExpCollectPF[1] = "limit" /\ ExpCollectPF[2] = "del" /\ ExpCollectPF[3] = "root"
  /\ ExpCollectPF[4] = "class" /\ ExpCollectPF[5] = "netem" /\ ExpCollectPF[6] = "filter"
  /\ ExpCollectPF[7] = "stargz" /\ ExpCollectPF[8] = "run"
  /\ ExpCollectPF[9] = "pull" /\ ExpCollectPF[10] = "record"
<1> DEFINE t == <<"stargz", "run", "pull", "record">>
<1>1. /\ t \in Seq(StepName) /\ Len(t) = 4
      /\ t[1] = "stargz" /\ t[2] = "run" /\ t[3] = "pull" /\ t[4] = "record"
  BY DEF StepName
<1>2. /\ 1 \in 1..4 /\ 2 \in 1..4 /\ 3 \in 1..4 /\ 4 \in 1..4
      /\ 6 + 1 = 7 /\ 6 + 2 = 8 /\ 6 + 3 = 9 /\ 6 + 4 = 10
  OBVIOUS
<1>3. ExpCollectPF = Limit \o t
  BY DEF ExpCollectPF
<1> HIDE DEF t
<1>4. /\ ExpCollectPF \in Seq(StepName) /\ Len(ExpCollectPF) = 6 + Len(t)
      /\ ExpCollectPF[1] = "limit" /\ ExpCollectPF[2] = "del" /\ ExpCollectPF[3] = "root"
      /\ ExpCollectPF[4] = "class" /\ ExpCollectPF[5] = "netem" /\ ExpCollectPF[6] = "filter"
      /\ \A i \in 1..Len(t) : ExpCollectPF[6 + i] = t[i]
  BY <1>1, <1>3, Limited, Zenon
<1>5. Len(ExpCollectPF) = 10 /\ \A i \in 1..4 : ExpCollectPF[6 + i] = t[i]
  BY <1>1, <1>2, <1>4, Zenon
<1> QED
  BY <1>1, <1>2, <1>4, <1>5, Zenon

\* The programs that write rows.
Rows(reset) == Limit \o <<reset, "run", "pull", "record", "stat", "open", "write">>

LEMMA RowsSteps ==
  ASSUME NEW reset \in {"stargz", "overlay"}
  PROVE  /\ Rows(reset) \in Seq(StepName) /\ Len(Rows(reset)) = 13
         /\ Rows(reset)[1] = "limit" /\ Rows(reset)[2] = "del" /\ Rows(reset)[3] = "root"
         /\ Rows(reset)[4] = "class" /\ Rows(reset)[5] = "netem" /\ Rows(reset)[6] = "filter"
         /\ Rows(reset)[7] = reset /\ Rows(reset)[8] = "run" /\ Rows(reset)[9] = "pull"
         /\ Rows(reset)[10] = "record" /\ Rows(reset)[11] = "stat" /\ Rows(reset)[12] = "open"
         /\ Rows(reset)[13] = "write"
<1> DEFINE t == <<reset, "run", "pull", "record", "stat", "open", "write">>
           p == Limit \o t
<1>1. /\ t \in Seq(StepName) /\ Len(t) = 7
      /\ t[1] = reset /\ t[2] = "run" /\ t[3] = "pull" /\ t[4] = "record"
      /\ t[5] = "stat" /\ t[6] = "open" /\ t[7] = "write"
  BY DEF StepName
<1> HIDE DEF t
<1>2. /\ 1 \in 1..7 /\ 2 \in 1..7 /\ 3 \in 1..7 /\ 4 \in 1..7 /\ 5 \in 1..7 /\ 6 \in 1..7 /\ 7 \in 1..7
      /\ 6 + 1 = 7 /\ 6 + 2 = 8 /\ 6 + 3 = 9 /\ 6 + 4 = 10 /\ 6 + 5 = 11 /\ 6 + 6 = 12 /\ 6 + 7 = 13
  OBVIOUS
<1>3. /\ (Limit \o t) \in Seq(StepName) /\ Len(Limit \o t) = 6 + Len(t)
      /\ (Limit \o t)[1] = "limit" /\ (Limit \o t)[2] = "del" /\ (Limit \o t)[3] = "root"
      /\ (Limit \o t)[4] = "class" /\ (Limit \o t)[5] = "netem" /\ (Limit \o t)[6] = "filter"
      /\ \A i \in 1..Len(t) : (Limit \o t)[6 + i] = t[i]
  BY <1>1, Limited, Zenon
<1> HIDE DEF p
<1>4. /\ p \in Seq(StepName) /\ Len(p) = 6 + Len(t)
      /\ p[1] = "limit" /\ p[2] = "del" /\ p[3] = "root"
      /\ p[4] = "class" /\ p[5] = "netem" /\ p[6] = "filter"
      /\ \A i \in 1..Len(t) : p[6 + i] = t[i]
  BY <1>3 DEF p
<1>5. Len(p) = 13
  BY <1>1, <1>2, <1>4, Zenon
<1>6. \A i \in 1..7 : p[6 + i] = t[i]
  BY <1>1, <1>4, Zenon
<1>7. p[7] = t[1] /\ p[8] = t[2] /\ p[9] = t[3]
  BY <1>2, <1>6, Zenon
<1>8. p[10] = t[4] /\ p[11] = t[5]
  BY <1>2, <1>6, Zenon
<1>9. p[12] = t[6] /\ p[13] = t[7]
  BY <1>2, <1>6, Zenon
<1> QED
  BY <1>1, <1>4, <1>5, <1>7, <1>8, <1>9, Zenon DEF Rows, p, t

LEMMA GroundTruthSteps ==
  /\ GetGroundTruth \in Seq(StepName) /\ Len(GetGroundTruth) = 6
  /\ GetGroundTruth[1] = "run" /\ GetGroundTruth[2] = "wait" /\ GetGroundTruth[3] = "keep"
  /\ GetGroundTruth[4] = "stat" /\ GetGroundTruth[5] = "open" /\ GetGroundTruth[6] = "write"
  BY DEF GetGroundTruth, StepName

LEMMA Programs ==
  /\ DOMAIN Program = {"PF", "T", "throughput", "groundtruth"}
  /\ Program["PF"] = ExpCollectPF /\ Program["T"] = ExpCollectT
  /\ Program["throughput"] = GetThroughput /\ Program["groundtruth"] = GetGroundTruth
  BY DEF Program

\* The programs that pull are alike as far as the record.
LEMMA PullSteps ==
  ASSUME NEW d \in DOMAIN Program, Pulls(d)
  PROVE  /\ Program[d][1] = "limit" /\ Program[d][2] = "del" /\ Program[d][3] = "root"
         /\ Program[d][4] = "class" /\ Program[d][5] = "netem" /\ Program[d][6] = "filter"
         /\ Program[d][7] \in {"stargz", "overlay"} /\ Program[d][8] = "run"
         /\ Program[d][9] = "pull" /\ Program[d][10] = "record"
         /\ \/ d = "PF" /\ Len(Program[d]) = 10
            \/ /\ d # "PF" /\ Len(Program[d]) = 13
               /\ Program[d][11] = "stat" /\ Program[d][12] = "open" /\ Program[d][13] = "write"
         /\ Program[d] \in Seq(StepName)
<1>1. CASE d = "PF"
  BY <1>1, Programs, PFSteps
<1>2. CASE d \in {"T", "throughput"}
  <2>1. PICK reset \in {"stargz", "overlay"} : Program[d] = Rows(reset)
    BY <1>2, Programs DEF ExpCollectT, GetThroughput, Rows
  <2> QED
    BY <1>2, <2>1, RowsSteps
<1> QED
  BY <1>1, <1>2, Programs DEF Pulls

\* Every step of a program, with its place.
LEMMA PullPlaces ==
  ASSUME NEW d \in DOMAIN Program, Pulls(d), NEW k \in DOMAIN Program[d]
  PROVE  \/ k = 1 /\ Program[d][k] = "limit"
         \/ k = 2 /\ Program[d][k] = "del"
         \/ k = 3 /\ Program[d][k] = "root"
         \/ k = 4 /\ Program[d][k] = "class"
         \/ k = 5 /\ Program[d][k] = "netem"
         \/ k = 6 /\ Program[d][k] = "filter"
         \/ k = 7 /\ Program[d][k] \in {"stargz", "overlay"}
         \/ k = 8 /\ Program[d][k] = "run"
         \/ k = 9 /\ Program[d][k] = "pull"
         \/ k = 10 /\ Program[d][k] = "record"
         \/ d # "PF" /\ k = 11 /\ Program[d][k] = "stat"
         \/ d # "PF" /\ k = 12 /\ Program[d][k] = "open"
         \/ d # "PF" /\ k = 13 /\ Program[d][k] = "write"
<1> DEFINE p == Program[d]
<1>1. /\ p[1] = "limit" /\ p[2] = "del" /\ p[3] = "root"
      /\ p[4] = "class" /\ p[5] = "netem" /\ p[6] = "filter"
      /\ p[7] \in {"stargz", "overlay"} /\ p[8] = "run"
      /\ p[9] = "pull" /\ p[10] = "record"
      /\ \/ d = "PF" /\ Len(p) = 10
         \/ d # "PF" /\ Len(p) = 13 /\ p[11] = "stat" /\ p[12] = "open" /\ p[13] = "write"
      /\ p \in Seq(StepName)
  BY PullSteps, Zenon
<1>2. k \in DOMAIN p
  OBVIOUS
<1> HIDE DEF p
<1>3. k \in 1..Len(p)
  BY <1>1, <1>2
<1>4. CASE d = "PF" /\ Len(p) = 10
  <2>1. \/ k = 1 \/ k = 2 \/ k = 3 \/ k = 4 \/ k = 5 \/ k = 6 \/ k = 7 \/ k = 8 \/ k = 9 \/ k = 10
    BY <1>3, <1>4
  <2> QED
    BY <1>1, <2>1 DEF p
<1>5. CASE d # "PF" /\ Len(p) = 13 /\ p[11] = "stat" /\ p[12] = "open" /\ p[13] = "write"
  <2>1. \/ k = 1 \/ k = 2 \/ k = 3 \/ k = 4 \/ k = 5 \/ k = 6 \/ k = 7 \/ k = 8 \/ k = 9 \/ k = 10
        \/ k = 11 \/ k = 12 \/ k = 13
    BY <1>3, <1>5
  <2> QED
    BY <1>1, <1>5, <2>1 DEF p
<1> QED
  BY <1>1, <1>4, <1>5

LEMMA GroundTruthPlaces ==
  ASSUME NEW d \in DOMAIN Program, ~Pulls(d), NEW k \in DOMAIN Program[d]
  PROVE  \/ k = 1 /\ Program[d][k] = "run"
         \/ k = 2 /\ Program[d][k] = "wait"
         \/ k = 3 /\ Program[d][k] = "keep"
         \/ k = 4 /\ Program[d][k] = "stat"
         \/ k = 5 /\ Program[d][k] = "open"
         \/ k = 6 /\ Program[d][k] = "write"
<1>1. d = "groundtruth" /\ Program[d] = GetGroundTruth
  BY Programs DEF Pulls
<1>2. k \in 1..6
  BY <1>1, GroundTruthSteps
<1>3. k = 1 \/ k = 2 \/ k = 3 \/ k = 4 \/ k = 5 \/ k = 6
  BY <1>2
<1> QED
  BY <1>1, <1>3, GroundTruthSteps, Zenon

LEMMA Ends ==
  ASSUME NEW d \in DOMAIN Program
  PROVE  /\ Len(Program[d]) \in Nat /\ DOMAIN Program[d] = 1..Len(Program[d])
         /\ Len(Program[d]) > 5
         /\ (Pulls(d) => Len(Program[d]) > 9)
         /\ Body(d) = IF Pulls(d) THEN 7 ELSE 1
<1>1. Len(Limit) + 1 = 7
  BY DEF Limit, SetBW
<1>2. CASE Pulls(d)
  <2>1. /\ Program[d] \in Seq(StepName)
        /\ Len(Program[d]) = 10 \/ Len(Program[d]) = 13
    BY <1>2, PullSteps, Zenon
  <2>2. Body(d) = 7
    BY <1>1, <1>2 DEF Body
  <2>3. Len(Program[d]) \in Nat /\ DOMAIN Program[d] = 1..Len(Program[d])
    BY <2>1
  <2>4. Len(Program[d]) > 5 /\ Len(Program[d]) > 9
    <3> DEFINE n == Len(Program[d])
    <3>1. n = 10 \/ n = 13
      BY <2>1
    <3> HIDE DEF n
    <3>2. n > 5 /\ n > 9
      BY <3>1
    <3> QED
      BY <3>2 DEF n
  <2> QED
    BY <1>2, <2>2, <2>3, <2>4, Zenon
<1>3. CASE ~Pulls(d)
  <2>1. /\ Program[d] \in Seq(StepName)
        /\ Len(Program[d]) = 6
    BY <1>3, Programs, GroundTruthSteps, Zenon DEF Pulls
  <2> QED
    BY <1>3, <2>1 DEF Body
<1> QED
  BY <1>2, <1>3

-----------------------------------------------------------------------------
(* Types. *)

Stage  == {"idle", "ok", "failed"} \cup InProgress
Call   == [stage : Stage, pos : Position, file : BOOLEAN, ok : BOOLEAN, id : Origin]
Rates  == {0} \cup {Bandwidth[k] : k \in DOMAIN Bandwidth}
Shaped == [has : SUBSET OnRegistry, rate : Rates, sure : BOOLEAN]

ControlOK ==
  /\ session \in 0..MaxSession /\ driver \in Driver
  /\ at \in 0..End /\ pos \in Position
  /\ at # 0 => session # 0
LocalOK == head \in BOOLEAN /\ res \in Origin
HostsOK == src \in [Name -> Container] /\ dst \in [Name -> Container]
TcOK    == tc \in [{"source", "registry"} -> Shaped]
RpcOK ==
  /\ rpc \in [Line -> Call]
  /\ \A s \in (session + 1)..MaxSession : rpc[s] = Idle
FilesOK == made \in BOOLEAN /\ csv \in Seq(Origin)
RecsOK  == recP \in [Position -> Origin] /\ recF \in [Position -> Origin]

Types == ControlOK /\ LocalOK /\ HostsOK /\ TcOK /\ RpcOK /\ FilesOK /\ RecsOK /\ trouble \in BOOLEAN

LEMMA Constants ==
  /\ Driver \subseteq DOMAIN Program
  /\ First \in Position /\ Last \in Position /\ First.bw = 1 /\ First.image = 1 /\ First.i = 1
  /\ DOMAIN Bandwidth = 1..Len(Bandwidth) /\ DOMAIN ContainerList = 1..Len(ContainerList)
  /\ Len(Bandwidth) \in Nat /\ Len(ContainerList) \in Nat /\ Iteration \in Nat \ {0} /\ MaxSession \in Nat /\ MaxLost \in Nat
  /\ Nobody \in Origin /\ Idle \in Call /\ None \in Container
  /\ \A p \in Position : ContainerList[p.image] \in Name /\ Bandwidth[p.bw] \in Rates
<1>1. /\ DOMAIN Bandwidth = 1..Len(Bandwidth) /\ DOMAIN ContainerList = 1..Len(ContainerList)
      /\ Len(Bandwidth) \in Nat /\ Len(ContainerList) \in Nat /\ Iteration \in Nat \ {0} /\ MaxSession \in Nat /\ MaxLost \in Nat
      /\ Len(Bandwidth) > 0 /\ Len(ContainerList) > 0
  BY ExperimentAssumption
<1>2. First \in Position /\ Last \in Position /\ First.bw = 1 /\ First.image = 1 /\ First.i = 1
  BY <1>1 DEF First, Last, Position
<1>3. Driver \subseteq DOMAIN Program
  BY ExperimentAssumption, Programs
<1>4. Nobody \in Origin
  BY <1>1, <1>2 DEF Nobody, Origin
<1>5. Idle \in Call /\ None \in Container
  BY <1>2, <1>4 DEF Idle, Call, Stage, None, Container
<1>6. \A p \in Position : ContainerList[p.image] \in Name /\ Bandwidth[p.bw] \in Rates
  BY DEF Position, Name, Rates
<1> QED
  BY <1>1, <1>2, <1>3, <1>4, <1>5, <1>6

\* Where the loops go next there is a position.
LEMMA NextBandwidth ==
  ASSUME NEW p \in Position, p.bw < Len(Bandwidth)
  PROVE  [First EXCEPT !.bw = p.bw + 1] \in Position
<1>1. p.bw \in 1..Len(Bandwidth) /\ p.bw + 1 \in DOMAIN Bandwidth
  BY Constants DEF Position
<1> QED
  BY <1>1, Constants DEF First, Position

LEMMA AfterType ==
  ASSUME NEW p \in Position, p # Last
  PROVE  After(p) \in Position
<1>1. /\ p.bw \in 1..Len(Bandwidth) /\ p.image \in 1..Len(ContainerList) /\ p.i \in 1..Iteration
      /\ p = [bw |-> p.bw, image |-> p.image, i |-> p.i]
  BY Constants DEF Position
<1>2. CASE p.i < Iteration
  <2>1. p.i + 1 \in 1..Iteration
    BY <1>1, <1>2, Constants
  <2> QED
    BY <1>1, <1>2, <2>1 DEF After, Position
<1>3. CASE ~(p.i < Iteration) /\ p.image < Len(ContainerList)
  <2>1. p.image + 1 \in DOMAIN ContainerList /\ 1 \in 1..Iteration
    BY <1>1, <1>3, Constants
  <2> QED
    BY <1>1, <1>3, <2>1 DEF After, Position
<1>4. CASE ~(p.i < Iteration) /\ ~(p.image < Len(ContainerList))
  <2>1. p.i = Iteration /\ p.image = Len(ContainerList)
    BY <1>1, <1>4, Constants
  <2>2. p.bw # Len(Bandwidth)
    BY <1>1, <2>1 DEF Last
  <2>3. p.bw < Len(Bandwidth)
    BY <1>1, <2>2, Constants
  <2> QED
    BY <1>4, <2>3, NextBandwidth DEF After
<1> QED
  BY <1>2, <1>3, <1>4

\* How a step moves the driver.
Moves ==
  \/ UNCHANGED <<loop, at, local>>
  \/ Step /\ at \in DOMAIN Program[driver] /\ at' = at + 1 /\ UNCHANGED loop
  \/ at \in DOMAIN Program[driver] /\ at' = End /\ UNCHANGED loop
  \/ at # 0 /\ at' = 0 /\ UNCHANGED loop /\ Forget
  \/ at # 0 /\ at' \in {1, Body(driver)} /\ UNCHANGED <<session, driver>> /\ pos' \in Position /\ Forget
  \/ StartDriver

LEMMA EndNotZero ==
  ASSUME ControlOK
  PROVE  /\ driver \in DOMAIN Program /\ End # 0 /\ End \in Nat /\ End \notin DOMAIN Program[driver]
         /\ \A k \in DOMAIN Program[driver] : k # 0 /\ k \in Nat /\ k + 1 \in 0..End
         /\ 1 \in DOMAIN Program[driver] /\ Body(driver) \in DOMAIN Program[driver]
<1>1. driver \in DOMAIN Program
  BY Constants DEF ControlOK
<1> DEFINE n == Len(Program[driver])
<1>2. /\ n \in Nat /\ n > 5 /\ DOMAIN Program[driver] = 1..n /\ Body(driver) \in {1, 7}
      /\ (Pulls(driver) => n > 9)
      /\ Body(driver) = 7 => Pulls(driver)
  <2>1. /\ n \in Nat /\ n > 5 /\ DOMAIN Program[driver] = 1..n
        /\ (Pulls(driver) => n > 9)
        /\ Body(driver) = IF Pulls(driver) THEN 7 ELSE 1
    BY <1>1, Ends, Zenon
  <2> QED
    BY <2>1
<1>3. End = n + 1
  BY DEF End
<1> HIDE DEF n
<1> QED
  BY <1>1, <1>2, <1>3

\* A driver that is at a step runs.
LEMMA AtRuns ==
  ASSUME ControlOK, NEW step, At(step)
  PROVE  at # 0 /\ at # End
  BY EndNotZero DEF At

LEMMA AtRunsNext ==
  ASSUME ControlOK', NEW step, At(step)'
  PROVE  at' # 0
<1>1. driver' \in DOMAIN Program /\ at' \in DOMAIN Program[driver']
  BY Constants DEF ControlOK, At
<1>2. DOMAIN Program[driver'] = 1..Len(Program[driver']) /\ Len(Program[driver']) \in Nat
  BY <1>1, Ends
<1> QED
  BY <1>1, <1>2

LEMMA StepRuns ==
  ASSUME ControlOK, Step
  PROVE  at # 0
<1>1. \A step : At(step) => at # 0
  BY AtRuns
<1>2. CASE NextIteration
  BY <1>2, EndNotZero DEF NextIteration
<1>3. CASE CallSetBandwidthLimit \/ CallPullContainer \/ CallRecordFReset
  BY <1>1, <1>3, Zenon DEF CallSetBandwidthLimit, CallPullContainer, CallRecordFReset, Request, Answered
<1>4. CASE ShapeSource \/ ResetSource \/ DockerRun
  BY <1>1, <1>4, Zenon DEF ShapeSource, ResetSource, DockerRun
<1>5. CASE WaitOnSource \/ StatFile \/ OpenFile \/ WriteRow
  BY <1>1, <1>5, Zenon DEF WaitOnSource, StatFile, OpenFile, WriteRow
<1> QED
  BY <1>2, <1>3, <1>4, <1>5, Zenon DEF Step

LEMMA ControlStep ==
  ASSUME ControlOK, Moves
  PROVE  ControlOK'
<1>1. /\ driver \in DOMAIN Program /\ End # 0 /\ End \in Nat /\ End \notin DOMAIN Program[driver]
      /\ \A k \in DOMAIN Program[driver] : k # 0 /\ k \in Nat /\ k + 1 \in 0..End
      /\ 1 \in DOMAIN Program[driver] /\ Body(driver) \in DOMAIN Program[driver]
  BY EndNotZero
<1>2. CASE StartDriver
  <2>1. /\ session' = session + 1 /\ session < MaxSession /\ driver' \in Driver /\ pos' = First /\ at' = 1
    BY <1>2 DEF StartDriver
  <2>2. driver' \in DOMAIN Program
    BY <2>1, Constants
  <2>3. 1 \in 0..End'
    <3>1. End' = Len(Program[driver']) + 1
      BY DEF End
    <3>2. Len(Program[driver']) \in Nat
      BY <2>2, Ends
    <3> QED
      BY <3>1, <3>2
  <2>4. session + 1 \in 0..MaxSession /\ session + 1 # 0
    BY <2>1, Constants DEF ControlOK
  <2> QED
    BY <2>1, <2>3, <2>4, Constants DEF ControlOK
<1>3. ASSUME ~StartDriver PROVE ControlOK'
  <2>1. UNCHANGED <<session, driver>> /\ pos' \in Position
    BY <1>3 DEF Moves, loop, ControlOK
  <2>2. End' = End
    BY <2>1 DEF End
  <2>3. at' \in 0..End /\ (at' # 0 => at # 0)
    BY <1>1, <1>3 DEF Moves, loop, ControlOK
  <2> QED
    BY <2>1, <2>2, <2>3 DEF ControlOK
<1> QED
  BY <1>2, <1>3

\* What an agent leaves alone.
LEMMA AgentFrame ==
  ASSUME NEW s, Agent(s)
  PROVE  /\ UNCHANGED <<loop, at, local, files>>
         /\ UNCHANGED tc \/ SetBandwidthLimit(s)
         /\ UNCHANGED recs \/ CheckpointContainer(s) \/ RenameRecordFile(s)
         /\ \/ UNCHANGED hosts
            \/ CheckpointContainer(s) \/ ContainerCreate(s) \/ ContainerStart(s) \/ RecordWait(s) \/ DeferredReset(s)
<1>1. CASE SetBandwidthLimit(s)
  <2>1. UNCHANGED <<loop, at, local, hosts, files, recs>>
    BY <1>1, Zenon DEF SetBandwidthLimit
  <2> QED
    BY <1>1, <2>1, Zenon
<1>2. CASE PullInspect(s)
  BY <1>2, Zenon DEF PullInspect
<1>3. CASE CheckpointContainer(s)
  <2>1. UNCHANGED <<loop, at, local, tc, files>>
    BY <1>3, Zenon DEF CheckpointContainer
  <2> QED
    BY <1>3, <2>1, Zenon
<1>4. CASE ContainerCreate(s)
  <2>1. UNCHANGED <<loop, at, local, tc, files, recs>>
    BY <1>4, Zenon DEF ContainerCreate
  <2> QED
    BY <1>4, <2>1, Zenon
<1>5. CASE ContainerStart(s)
  <2>1. UNCHANGED <<loop, at, local, tc, files, recs>>
    BY <1>5, Zenon DEF ContainerStart
  <2> QED
    BY <1>5, <2>1, Zenon
<1>6. CASE RecordWait(s)
  <2>1. UNCHANGED <<loop, at, local, tc, files, recs>>
    BY <1>6, Zenon DEF RecordWait
  <2> QED
    BY <1>6, <2>1, Zenon
<1>7. CASE RenameRecordFile(s)
  <2>1. UNCHANGED <<loop, at, local, hosts, tc, files>>
    BY <1>7, Zenon DEF RenameRecordFile
  <2> QED
    BY <1>7, <2>1, Zenon
<1>8. CASE DeferredReset(s)
  <2>1. UNCHANGED <<loop, at, local, tc, files, recs>>
    BY <1>8, Zenon DEF DeferredReset
  <2> QED
    BY <1>8, <2>1, Zenon
<1> QED
  BY <1>1, <1>2, <1>3, <1>4, <1>5, <1>6, <1>7, <1>8, Zenon DEF Agent

LEMMA NextMoves ==
  ASSUME ControlOK, [Next]_vars
  PROVE  Moves
<1>1. /\ End # 0 /\ \A k \in DOMAIN Program[driver] : k # 0
  BY EndNotZero
<1>2. CASE UNCHANGED vars
  BY <1>2 DEF vars, Moves
<1>3. CASE StartDriver \/ Finished
  BY <1>3 DEF Finished, vars, Moves
<1>4. CASE Kill
  BY <1>4 DEF Kill, Stop, Moves
<1>5. ASSUME NEW s \in Line, Agent(s) PROVE Moves
  BY <1>5, AgentFrame, Zenon DEF Moves
<1>6. ASSUME NEW calls, AgentCrash(calls) \/ LoseConnection PROVE Moves
  BY <1>6 DEF AgentCrash, LoseConnection, Moves
<1>7. ASSUME NEW c \in Name, ContainerExit(c) PROVE Moves
  BY <1>7 DEF ContainerExit, Moves
<1>8. CASE NextIteration
  <2>1. CASE pos = Last
    BY <1>1, <1>8, <2>1 DEF NextIteration, Stop, Moves
  <2>2. CASE pos # Last
    BY <1>1, <1>8, <2>2, AfterType DEF NextIteration, Begin, Moves, ControlOK
  <2> QED
    BY <2>1, <2>2
<1>9. CASE CallSetBandwidthLimit
  <2>1. at # 0 /\ at \in DOMAIN Program[driver] /\ Step
    BY <1>1, <1>9 DEF CallSetBandwidthLimit, Request, Answered, At, Step
  <2>2. \/ UNCHANGED <<loop, at, local>>
        \/ at' = at + 1 /\ UNCHANGED loop
        \/ at' = 0 /\ UNCHANGED loop /\ Forget
        \/ pos.bw < Len(Bandwidth) /\ Begin([First EXCEPT !.bw = pos.bw + 1], 1)
    BY <1>9 DEF CallSetBandwidthLimit, Request, GoOn, Stop
  <2>3. pos.bw < Len(Bandwidth) => [First EXCEPT !.bw = pos.bw + 1] \in Position
    BY NextBandwidth DEF ControlOK
  <2> QED
    BY <2>1, <2>2, <2>3, Zenon DEF Begin, Moves
<1>10. ASSUME Step, at \in DOMAIN Program[driver], at' = at + 1 \/ at' = End, UNCHANGED loop
       PROVE  Moves
  BY <1>10 DEF Moves
<1>11. CASE ShapeSource \/ ResetSource \/ DockerRun
  <2>1. Step /\ at \in DOMAIN Program[driver]
    BY <1>11, Zenon DEF Step, ShapeSource, ResetSource, DockerRun, At
  <2>2. (at' = at + 1 \/ at' = End) /\ UNCHANGED loop
    BY <1>11 DEF ShapeSource, ResetSource, DockerRun, GoOn, Continue, RunFailed
  <2> QED
    BY <1>10, <2>1, <2>2
<1>12. CASE WaitOnSource \/ StatFile \/ OpenFile \/ WriteRow
  <2>1. Step /\ at \in DOMAIN Program[driver]
    BY <1>12, Zenon DEF Step, WaitOnSource, StatFile, OpenFile, WriteRow, At
  <2>2. (at' = at + 1 \/ at' = End) /\ UNCHANGED loop
    BY <1>12 DEF WaitOnSource, StatFile, OpenFile, WriteRow, GoOn, Continue
  <2> QED
    BY <1>10, <2>1, <2>2
<1>13. CASE CallPullContainer \/ CallRecordFReset
  <2>1. at # 0 /\ at \in DOMAIN Program[driver] /\ Step
    BY <1>1, <1>13 DEF CallPullContainer, CallRecordFReset, Request, Answered, At, Step
  <2>2. \/ UNCHANGED <<loop, at, local>>
        \/ at' = at + 1 /\ UNCHANGED loop
        \/ at' = End /\ UNCHANGED loop
        \/ at' = 0 /\ UNCHANGED loop /\ Forget
    BY <1>13 DEF CallPullContainer, CallRecordFReset, Request, GoOn, Continue, Stop
  <2> QED
    BY <2>1, <2>2, Zenon DEF Moves
<1> QED
  BY <1>2, <1>3, <1>4, <1>5, <1>6, <1>7, <1>8, <1>9, <1>11, <1>12, <1>13, Zenon DEF Next, Step

LEMMA CalledName ==
  ASSUME RpcOK, NEW s \in Line
  PROVE  Called(s) \in Name /\ rpc[s].pos \in Position /\ rpc[s].id \in Origin
  BY Constants DEF RpcOK, Called, Call

LEMMA ThisOrigin ==
  ASSUME ControlOK
  PROVE  /\ This \in Origin /\ alias \in Name
         /\ at # 0 => This # Header /\ session \in Line /\ session \in 1..MaxSession
  BY Constants DEF ControlOK, This, Origin, alias, Header, Nobody, Line

\* The connection of the driver's call breaks.
LEMMA LostCall ==
  ASSUME RpcOK, ControlOK, LoseConnection
  PROVE  \E k \in Line :
           /\ k # session /\ k \notin 1..MaxSession /\ session \in 1..MaxSession /\ session \in Line
           /\ rpc[k] = Idle /\ rpc[session].stage \in InProgress
           /\ rpc' \in [Line -> Call]
           /\ rpc'[k] = rpc[session] /\ rpc'[session] = [rpc[session] EXCEPT !.stage = "failed"]
           /\ \A s \in Line \ {k, session} : rpc'[s] = rpc[s]
<1>1. PICK k \in Lost :
        /\ rpc[k] = Idle
        /\ rpc' = [rpc EXCEPT ![k] = rpc[session], ![session].stage = "failed"]
  BY DEF LoseConnection
<1>2. rpc[session].stage \in InProgress /\ session \in 1..MaxSession /\ session \in Line
  BY ThisOrigin DEF LoseConnection
<1>3. k \in Line /\ k \notin 1..MaxSession /\ k # session
  BY <1>2, Constants DEF Lost, Line
<1>4. rpc[session] \in Call /\ [rpc[session] EXCEPT !.stage = "failed"] \in Call
  BY <1>2 DEF RpcOK, Call, Stage
<1> DEFINE c == [rpc[session] EXCEPT !.stage = "failed"]
<1>5. rpc' = [rpc EXCEPT ![k] = rpc[session], ![session] = c]
  BY <1>1, <1>2, <1>3 DEF RpcOK
<1>6. c \in Call
  BY <1>4
<1> HIDE DEF c
<1>7. rpc' \in [Line -> Call]
  BY <1>2, <1>3, <1>4, <1>5, <1>6 DEF RpcOK
<1>8. rpc'[k] = rpc[session] /\ rpc'[session] = c /\ \A s \in Line \ {k, session} : rpc'[s] = rpc[s]
  BY <1>2, <1>3, <1>5 DEF RpcOK
<1> QED
  BY <1>1, <1>2, <1>3, <1>7, <1>8 DEF c

\* A container that stops or starts.
LEMMA Turned ==
  ASSUME NEW f \in [Name -> Container], NEW c \in Name, NEW st \in {"exited", "running"}
  PROVE  [f EXCEPT ![c].st = st] \in [Name -> Container]
<1>1. [f[c] EXCEPT !.st = st] \in Container
  BY DEF Container
<1>2. [f EXCEPT ![c] = [f[c] EXCEPT !.st = st]] \in [Name -> Container]
  BY <1>1
<1> QED
  BY <1>2

LEMMA WaitedType ==
  ASSUME NEW con \in Container, NEW outcome \in Waited(con)
  PROVE  outcome.con \in Container /\ outcome.ok \in BOOLEAN
<1>1. CASE con.st = "running"
  <2>1. outcome = [con |-> [con EXCEPT !.st = "exited"], ok |-> TRUE]
    BY <1>1 DEF Waited
  <2>2. [con EXCEPT !.st = "exited"] \in Container
    BY DEF Container
  <2> QED
    BY <2>1, <2>2
<1>2. CASE con.st = "none"
  <2>1. outcome = [con |-> con, ok |-> FALSE]
    BY <1>2 DEF Waited
  <2> QED
    BY <2>1
<1>3. CASE con.st # "running" /\ con.st # "none"
  <2>1. PICK answer \in BOOLEAN : outcome = [con |-> con, ok |-> answer]
    BY <1>3 DEF Waited
  <2> QED
    BY <2>1
<1> QED
  BY <1>1, <1>2, <1>3

LEMMA HostsStep ==
  ASSUME Types, [Next]_vars
  PROVE  HostsOK'
<1> USE DEF Types
<1>1. \A c \in Container :
        /\ [c EXCEPT !.st = "exited"] \in Container
        /\ [c EXCEPT !.st = "running"] \in Container
  BY DEF Container
<1>2. \A id \in Origin : [st |-> "created", id |-> id] \in Container /\ [st |-> "running", id |-> id] \in Container
  BY DEF Container
<1>3. [c \in Name |-> None] \in [Name -> Container]
  BY Constants
<1>4. HalfReset(src) \subseteq [Name -> Container] /\ HalfReset(dst) \subseteq [Name -> Container]
  BY <1>1 DEF HostsOK, HalfReset
<1>5. CASE UNCHANGED hosts
  BY <1>5 DEF hosts, HostsOK
<1>6. ASSUME NEW s \in Line, Agent(s) PROVE HostsOK'
  <2>1. Called(s) \in Name /\ rpc[s].id \in Origin
    BY CalledName
  <2>2. CASE UNCHANGED hosts
    BY <1>5, <2>2
  <2>3. CASE CheckpointContainer(s)
    <3>1. [src EXCEPT ![Called(s)].st = "exited"] \in [Name -> Container]
      BY <2>1, Turned DEF HostsOK
    <3>2. dst' = dst /\ (src' = src \/ src' = [src EXCEPT ![Called(s)].st = "exited"])
      BY <2>3 DEF CheckpointContainer
    <3> QED
      BY <3>1, <3>2 DEF HostsOK
  <2>4. CASE ContainerCreate(s)
    BY <1>2, <2>1, <2>4 DEF ContainerCreate, HostsOK
  <2>5. CASE ContainerStart(s)
    <3>1. src' = src /\ (dst' = dst \/ dst' = [dst EXCEPT ![Called(s)].st = "running"])
      BY <2>5, Zenon DEF ContainerStart
    <3>2. [dst EXCEPT ![Called(s)].st = "running"] \in [Name -> Container]
      BY <2>1, Turned DEF HostsOK
    <3> QED
      BY <3>1, <3>2 DEF HostsOK
  <2>6. CASE RecordWait(s)
    BY <2>1, <2>6, WaitedType DEF RecordWait, HostsOK
  <2>7. CASE DeferredReset(s)
    BY <1>3, <1>4, <2>7 DEF DeferredReset, Wipe, HostsOK
  <2> QED
    BY <1>6, <2>2, <2>3, <2>4, <2>5, <2>6, <2>7, AgentFrame, Zenon
<1>7. CASE ResetSource
  BY <1>3, <1>4, <1>7 DEF ResetSource, HostsOK
<1>8. CASE DockerRun
  BY <1>2, <1>8, ThisOrigin DEF DockerRun, HostsOK
<1>9. CASE WaitOnSource
  BY <1>9, ThisOrigin, WaitedType DEF WaitOnSource, HostsOK
<1>10. ASSUME NEW c \in Name, ContainerExit(c) PROVE HostsOK'
  <2>1. [src EXCEPT ![c].st = "exited"] \in [Name -> Container]
        /\ [dst EXCEPT ![c].st = "exited"] \in [Name -> Container]
    BY Turned DEF HostsOK
  <2> QED
    BY <1>10, <2>1 DEF ContainerExit, HostsOK
<1>11. ASSUME StartDriver \/ Kill \/ Finished \/ AgentCrash(OnDestination) \/ AgentCrash(OnRegistry) \/ LoseConnection
       PROVE  UNCHANGED hosts
  BY <1>11 DEF StartDriver, Kill, Finished, AgentCrash, LoseConnection, vars, hosts
<1>12. ASSUME NextIteration \/ CallSetBandwidthLimit \/ ShapeSource
       PROVE  UNCHANGED hosts
  BY <1>12 DEF NextIteration, CallSetBandwidthLimit, Request, ShapeSource, hosts
<1>13. ASSUME CallPullContainer \/ CallRecordFReset \/ StatFile \/ OpenFile \/ WriteRow
       PROVE  UNCHANGED hosts
  BY <1>13 DEF CallPullContainer, CallRecordFReset, Request, StatFile, OpenFile, WriteRow, hosts
<1>14. CASE UNCHANGED vars
  BY <1>5, <1>14 DEF vars
<1> QED
  BY <1>5, <1>6, <1>7, <1>8, <1>9, <1>10, <1>11, <1>12, <1>13, <1>14, Zenon DEF Next, Step

LEMMA ShapeType ==
  ASSUME NEW shape \in Shaped, NEW command \in OnRegistry, NEW rate \in Rates
  PROVE  Shape(shape, command, rate) \in Shaped
  BY DEF Shape, Added, Unshaped, Shaped, Rates

LEMMA ForeignType ==
  ASSUME NEW shape \in Shaped, NEW s
  PROVE  Foreign(s, shape) \in Shaped /\ Foreign(s, shape).has = shape.has /\ Foreign(s, shape).rate = shape.rate
  BY DEF Foreign, Shaped

LEMMA TcStep ==
  ASSUME Types, [Next]_vars
  PROVE  TcOK'
<1> USE DEF Types
<1>1. CASE UNCHANGED tc
  BY <1>1 DEF TcOK
<1>2. ASSUME NEW h \in {"source", "registry"}, NEW command, NEW shape \in Shaped, Tc(h, command, shape)
      PROVE  TcOK'
  <2>1. CASE tc' = [tc EXCEPT ![h] = shape]
    BY <2>1 DEF TcOK
  <2>2. CASE tc' = [tc EXCEPT ![h].sure = FALSE]
    BY <2>2 DEF TcOK, Shaped
  <2> QED
    BY <1>2, <2>1, <2>2 DEF Tc
<1>3. \A k \in DOMAIN SetBW : SetBW[k] \in OnRegistry
  BY DEF OnRegistry
<1>4. ASSUME NEW s \in Line, Agent(s) PROVE TcOK'
  <2>1. CASE SetBandwidthLimit(s)
    <3>1. PICK k \in DOMAIN SetBW :
            LET shape == Foreign(s, Shape(tc["registry"], SetBW[k], Bandwidth[rpc[s].pos.bw]))
            IN Tc("registry", SetBW[k], shape) \/ tc' = [tc EXCEPT !["registry"] = shape]
      BY <2>1, Zenon DEF SetBandwidthLimit
    <3> DEFINE shape == Foreign(s, Shape(tc["registry"], SetBW[k], Bandwidth[rpc[s].pos.bw]))
    <3>2. Bandwidth[rpc[s].pos.bw] \in Rates /\ tc["registry"] \in Shaped
      BY CalledName, Constants DEF TcOK
    <3>3. shape \in Shaped
      BY <1>3, <3>2, ShapeType, ForeignType
    <3>4. Tc("registry", SetBW[k], shape) \/ tc' = [tc EXCEPT !["registry"] = shape]
      BY <3>1
    <3> HIDE DEF shape
    <3> QED
      BY <1>2, <3>3, <3>4 DEF TcOK
  <2>2. CASE ~SetBandwidthLimit(s)
    BY <1>1, <1>4, <2>2, AgentFrame, Zenon
  <2> QED
    BY <2>1, <2>2
<1>5. CASE ShapeSource
  <2>1. bw \in Rates /\ tc["source"] \in Shaped
    BY Constants DEF ControlOK, bw, TcOK
  <2>2. PICK k \in DOMAIN SetBW : Tc("source", SetBW[k], Shape(tc["source"], SetBW[k], bw))
    BY <1>5 DEF ShapeSource
  <2> QED
    BY <1>2, <1>3, <2>1, <2>2, ShapeType
<1>6. ASSUME StartDriver \/ Kill \/ Finished \/ AgentCrash(OnDestination) \/ AgentCrash(OnRegistry) \/ LoseConnection
      PROVE  UNCHANGED tc
  BY <1>6 DEF StartDriver, Kill, Finished, AgentCrash, LoseConnection, vars
<1>7. ASSUME NextIteration \/ CallSetBandwidthLimit \/ ResetSource \/ DockerRun \/ WaitOnSource
      PROVE  UNCHANGED tc
  BY <1>7 DEF NextIteration, CallSetBandwidthLimit, Request, ResetSource, DockerRun, WaitOnSource
<1>8. ASSUME CallPullContainer \/ CallRecordFReset \/ StatFile \/ OpenFile \/ WriteRow
      PROVE  UNCHANGED tc
  BY <1>8 DEF CallPullContainer, CallRecordFReset, Request, StatFile, OpenFile, WriteRow
<1>9. ASSUME NEW c \in Name, ContainerExit(c) PROVE UNCHANGED tc
  BY <1>9 DEF ContainerExit
<1>10. CASE UNCHANGED vars
  BY <1>1, <1>10 DEF vars
<1> QED
  BY <1>1, <1>4, <1>5, <1>6, <1>7, <1>8, <1>9, <1>10, Zenon DEF Next, Step

LEMMA LocalStep ==
  ASSUME Types, [Next]_vars
  PROVE  LocalOK'
<1> USE DEF Types
<1>1. CASE UNCHANGED local
  BY <1>1 DEF local, LocalOK
<1>2. CASE Forget
  BY <1>2, Constants DEF Forget, LocalOK
<1>3. ASSUME NEW s \in Line, Agent(s) PROVE UNCHANGED local
  BY <1>3, AgentFrame, Zenon
<1>4. ASSUME StartDriver \/ Kill PROVE Forget
  BY <1>4 DEF StartDriver, Kill, Stop
<1>5. ASSUME Finished \/ AgentCrash(OnDestination) \/ AgentCrash(OnRegistry) \/ LoseConnection \/ UNCHANGED vars
      PROVE  UNCHANGED local
  BY <1>5 DEF Finished, AgentCrash, LoseConnection, vars, local
<1>6. ASSUME NEW c \in Name, ContainerExit(c) PROVE UNCHANGED local
  BY <1>6 DEF ContainerExit
<1>7. ASSUME NextIteration \/ CallSetBandwidthLimit PROVE Forget \/ UNCHANGED local
  BY <1>7 DEF NextIteration, CallSetBandwidthLimit, Request, Begin, Stop
<1>8. ASSUME ShapeSource \/ ResetSource \/ DockerRun \/ CallRecordFReset
      PROVE  Forget \/ UNCHANGED local
  BY <1>8 DEF ShapeSource, ResetSource, DockerRun, CallRecordFReset, Request, Stop
<1>9. CASE CallPullContainer
  <2>1. session \in Line
    BY <1>9, ThisOrigin, EndNotZero DEF CallPullContainer, Request, Answered, At
  <2>2. Forget \/ UNCHANGED local \/ (UNCHANGED head /\ res' = rpc[session].id)
    BY <1>9 DEF CallPullContainer, Request, Stop, local
  <2> QED
    BY <1>1, <1>2, <2>1, <2>2, CalledName DEF LocalOK
<1>10. CASE StatFile \/ OpenFile
  BY <1>10 DEF StatFile, OpenFile, HeadNeeded, LocalOK, FilesOK
<1>11. CASE WriteRow
  BY <1>1, <1>11 DEF WriteRow
<1>12. CASE WaitOnSource
  <2>1. PICK outcome \in Waited(src[alias]) : res' = outcome.con.id /\ UNCHANGED head
    BY <1>12 DEF WaitOnSource
  <2>2. outcome.con \in Container
    BY ThisOrigin, WaitedType DEF HostsOK
  <2> QED
    BY <2>1, <2>2 DEF Container, LocalOK
<1> QED
  BY <1>1, <1>2, <1>3, <1>4, <1>5, <1>6, <1>7, <1>8, <1>9, <1>10, <1>11, <1>12, Zenon DEF Next, Step

\* How a step moves the calls.
RpcMoves ==
  \/ UNCHANGED rpc /\ (session' = session \/ session' = session + 1)
  \/ UNCHANGED session /\ \E s \in Line : Agent(s)
  \/ UNCHANGED session /\ (AgentCrash(OnDestination) \/ AgentCrash(OnRegistry) \/ LoseConnection)
  \/ UNCHANGED session /\ at # 0 /\ \E stage \in {"del", "inspect", "wait"} : Calls(stage, res)
  \/ UNCHANGED session /\ at # 0 /\ rpc' = [rpc EXCEPT ![session] = Idle]

LEMMA NextCalls ==
  ASSUME Types, [Next]_vars
  PROVE  RpcMoves
<1> USE DEF Types
<1>1. \A step : At(step) => at # 0
  BY EndNotZero DEF At
<1>2. ASSUME NEW s \in Line, Agent(s) PROVE UNCHANGED session
  BY <1>2, AgentFrame DEF loop
<1>3. ASSUME StartDriver \/ Kill \/ Finished \/ UNCHANGED vars PROVE RpcMoves
  BY <1>3 DEF StartDriver, Kill, Stop, Finished, vars, loop, RpcMoves
<1>4. ASSUME AgentCrash(OnDestination) \/ AgentCrash(OnRegistry) \/ LoseConnection PROVE UNCHANGED session
  BY <1>4 DEF AgentCrash, LoseConnection, loop
<1>5. ASSUME NEW c \in Name, ContainerExit(c) PROVE RpcMoves
  BY <1>5 DEF ContainerExit, loop, RpcMoves
<1>6. ASSUME NextIteration \/ ShapeSource \/ ResetSource \/ DockerRun \/ WaitOnSource \/ StatFile
      PROVE  RpcMoves
  BY <1>6 DEF NextIteration, Begin, Stop, ShapeSource, ResetSource, DockerRun, WaitOnSource, StatFile, loop,
     RpcMoves
<1>7. ASSUME OpenFile \/ WriteRow PROVE RpcMoves
  BY <1>7 DEF OpenFile, WriteRow, loop, RpcMoves
<1>8. CASE CallSetBandwidthLimit
  BY <1>1, <1>8 DEF CallSetBandwidthLimit, Request, Answered, Begin, Stop, loop, RpcMoves
<1>9. CASE CallPullContainer
  BY <1>1, <1>9 DEF CallPullContainer, Request, Answered, Stop, loop, RpcMoves
<1>10. CASE CallRecordFReset
  BY <1>1, <1>10 DEF CallRecordFReset, Request, Answered, Stop, loop, RpcMoves
<1> QED
  BY <1>2, <1>3, <1>4, <1>5, <1>6, <1>7, <1>8, <1>9, <1>10, Zenon DEF Next, Step, RpcMoves

\* What an agent makes of a call.
CallMoves(s) ==
  /\ rpc[s].stage \in InProgress
  /\ \E c \in Call :
       /\ c.stage # "idle" /\ c.pos = rpc[s].pos /\ c.file = rpc[s].file
       /\ rpc' = [rpc EXCEPT ![s] = c]

LEMMA AgentCalls ==
  ASSUME Types, NEW s \in Line, Agent(s)
  PROVE  CallMoves(s)
<1> USE DEF Types
<1>1. rpc[s] \in Call /\ Called(s) \in Name /\ src[Called(s)].id \in Origin
  BY CalledName DEF RpcOK, HostsOK, Container
<1>2. ASSUME NEW c \in Call, rpc[s].stage \in InProgress, c.stage # "idle",
             c.pos = rpc[s].pos, c.file = rpc[s].file, rpc' = [rpc EXCEPT ![s] = c]
      PROVE  CallMoves(s)
  BY <1>2 DEF CallMoves
<1>3. ASSUME NEW stage \in Stage \ {"idle"}, rpc[s].stage \in InProgress, Goto(s, stage) PROVE CallMoves(s)
  <2> DEFINE c == [rpc[s] EXCEPT !.stage = stage]
  <2>1. c \in Call /\ c.stage # "idle" /\ c.pos = rpc[s].pos /\ c.file = rpc[s].file
    BY <1>1, <1>3 DEF Call
  <2>2. rpc' = [rpc EXCEPT ![s] = c]
    BY <1>3 DEF Goto
  <2> HIDE DEF c
  <2> QED
    BY <1>2, <1>3, <2>1, <2>2
<1>4. /\ \A k \in DOMAIN SetBW : SetBW[k] \in Stage \ {"idle"} /\ SetBW[k] \in InProgress
      /\ DOMAIN SetBW = 1..5 /\ Len(SetBW) = 5
      /\ {"ok", "failed", "checkpoint", "create", "start", "wipe", "rename"} \subseteq Stage \ {"idle"}
      /\ OnDestination \subseteq InProgress
  BY DEF Stage, InProgress, OnRegistry, OnDestination, SetBW
<1>5. CASE SetBandwidthLimit(s)
  <2>1. PICK k \in DOMAIN SetBW :
          /\ rpc[s].stage = SetBW[k]
          /\ \/ Goto(s, IF k < Len(SetBW) THEN SetBW[k + 1] ELSE "ok")
             \/ Goto(s, "failed")
    BY <1>5 DEF SetBandwidthLimit
  <2>2. k < Len(SetBW) => k + 1 \in DOMAIN SetBW
    BY <1>4
  <2>3. (IF k < Len(SetBW) THEN SetBW[k + 1] ELSE "ok") \in Stage \ {"idle"}
    BY <1>4, <2>2, Zenon
  <2>4. rpc[s].stage \in InProgress /\ "failed" \in Stage \ {"idle"}
    BY <1>4, <2>1
  <2> QED
    BY <1>3, <2>1, <2>3, <2>4
<1>6. ASSUME PullInspect(s) \/ ContainerCreate(s) \/ ContainerStart(s) PROVE CallMoves(s)
  <2>1. /\ rpc[s].stage \in OnDestination
        /\ \E stage \in {"checkpoint", "start", "ok", "failed"} : Goto(s, stage)
    BY <1>6 DEF PullInspect, ContainerCreate, ContainerStart, Reply, OnDestination
  <2> QED
    BY <1>3, <1>4, <2>1
<1>7. CASE CheckpointContainer(s)
  <2>1. rpc[s].stage \in OnDestination
    BY <1>7 DEF CheckpointContainer, OnDestination
  <2> DEFINE c == [rpc[s] EXCEPT !.stage = "create", !.id = src[Called(s)].id]
  <2>2. c \in Call /\ c.stage # "idle" /\ c.pos = rpc[s].pos /\ c.file = rpc[s].file
    BY <1>1, <1>4 DEF Call
  <2>3. Goto(s, "failed") \/ rpc' = [rpc EXCEPT ![s] = c]
    BY <1>7 DEF CheckpointContainer, SendCheckpoint
  <2> HIDE DEF c
  <2> QED
    BY <1>2, <1>3, <1>4, <2>1, <2>2, <2>3
<1>8. CASE RecordWait(s)
  <2>1. rpc[s].stage \in OnDestination
    BY <1>8 DEF RecordWait, OnDestination
  <2>2. PICK outcome \in Waited(dst[Called(s)]) :
          rpc' = [rpc EXCEPT ![s].ok = outcome.ok, ![s].id = outcome.con.id,
                    ![s].stage = IF outcome.ok /\ rpc[s].file THEN "rename" ELSE "wipe"]
    BY <1>8, Zenon DEF RecordWait
  <2>3. outcome.ok \in BOOLEAN /\ outcome.con.id \in Origin
    <3>1. dst[Called(s)] \in Container
      BY <1>1 DEF HostsOK
    <3> QED
      BY <3>1, WaitedType DEF Container
  <2> DEFINE c == [rpc[s] EXCEPT !.ok = outcome.ok, !.id = outcome.con.id,
                     !.stage = IF outcome.ok /\ rpc[s].file THEN "rename" ELSE "wipe"]
  <2>4. c \in Call /\ c.stage # "idle" /\ c.pos = rpc[s].pos /\ c.file = rpc[s].file
    BY <1>1, <1>4, <2>3 DEF Call
  <2>5. rpc' = [rpc EXCEPT ![s] = c]
    BY <2>2
  <2> HIDE DEF c
  <2> QED
    BY <1>2, <1>4, <2>1, <2>4, <2>5
<1>9. CASE RenameRecordFile(s)
  <2>1. rpc[s].stage \in OnDestination
    BY <1>9 DEF RenameRecordFile, OnDestination
  <2> DEFINE c == [rpc[s] EXCEPT !.ok = FALSE, !.stage = "wipe"]
  <2>2. c \in Call /\ c.stage # "idle" /\ c.pos = rpc[s].pos /\ c.file = rpc[s].file
    BY <1>1, <1>4 DEF Call
  <2>3. Goto(s, "wipe") \/ rpc' = [rpc EXCEPT ![s] = c]
    BY <1>9 DEF RenameRecordFile
  <2> HIDE DEF c
  <2> QED
    BY <1>2, <1>3, <1>4, <2>1, <2>2, <2>3
<1>10. CASE DeferredReset(s)
  <2>1. /\ rpc[s].stage \in OnDestination
        /\ \E stage \in {"ok", "failed"} : Goto(s, stage)
    BY <1>10 DEF DeferredReset, Reply, OnDestination
  <2> QED
    BY <1>3, <1>4, <2>1
<1> QED
  BY <1>5, <1>6, <1>7, <1>8, <1>9, <1>10, Zenon DEF Agent

LEMMA RpcStep ==
  ASSUME Types, [Next]_vars
  PROVE  RpcOK'
<1> USE DEF Types
<1>1. /\ session \in 0..MaxSession /\ MaxSession \in Nat /\ MaxLost \in Nat
      /\ at # 0 => session \in Line
  BY Constants, ThisOrigin DEF ControlOK
<1>2. \A stage \in InProgress : stage # "idle"
  BY DEF InProgress, OnRegistry, OnDestination, SetBW
<1>3. Idle.stage = "idle"
  BY DEF Idle
<1>4. CASE UNCHANGED rpc /\ (session' = session \/ session' = session + 1)
  <2>1. \A s \in (session' + 1)..MaxSession : s \in (session + 1)..MaxSession
    BY <1>1, <1>4
  <2> QED
    BY <1>4, <2>1 DEF RpcOK
<1>5. ASSUME UNCHANGED session, NEW s \in Line, NEW c \in Call, rpc' = [rpc EXCEPT ![s] = c],
             s \notin (session + 1)..MaxSession
      PROVE  RpcOK'
  BY <1>5 DEF RpcOK
<1>6. ASSUME UNCHANGED session, NEW s \in Line, Agent(s) PROVE RpcOK'
  <2>1. PICK c \in Call : rpc' = [rpc EXCEPT ![s] = c] /\ rpc[s].stage \in InProgress
    BY <1>6, AgentCalls DEF CallMoves
  <2>2. s \notin (session + 1)..MaxSession
    BY <1>2, <1>3, <2>1 DEF RpcOK
  <2> QED
    BY <1>5, <1>6, <2>1, <2>2
<1>7. ASSUME UNCHANGED session, NEW calls \in SUBSET InProgress, AgentCrash(calls) PROVE RpcOK'
  <2>1. rpc' = [s \in Line |->
          IF rpc[s].stage \in calls THEN [rpc[s] EXCEPT !.stage = "failed"] ELSE rpc[s]]
    BY <1>7 DEF AgentCrash
  <2>2. \A c \in Call : [c EXCEPT !.stage = "failed"] \in Call
    BY DEF Call, Stage
  <2>3. rpc' \in [Line -> Call]
    BY <2>1, <2>2 DEF RpcOK
  <2>4. ASSUME NEW s \in (session + 1)..MaxSession PROVE rpc'[s] = Idle
    <3>1. rpc[s] = Idle /\ rpc[s].stage \notin calls
      BY <1>2, <1>3 DEF RpcOK
    <3>2. s \in Line
      BY <1>1 DEF Line
    <3> QED
      BY <2>1, <3>1, <3>2
  <2> QED
    BY <1>7, <2>3, <2>4 DEF RpcOK
<1>8. at # 0 => session \notin (session + 1)..MaxSession
  BY <1>1
<1>9. ASSUME UNCHANGED session, at # 0, NEW stage \in {"del", "inspect", "wait"}, Calls(stage, res) PROVE RpcOK'
  <2> DEFINE c == [stage |-> stage, pos |-> pos, file |-> Records(driver), ok |-> TRUE, id |-> res]
  <2>1. c \in Call
    BY DEF Call, Stage, InProgress, OnRegistry, OnDestination, SetBW, ControlOK, LocalOK, Records
  <2>2. rpc' = [rpc EXCEPT ![session] = c]
    BY <1>9 DEF Calls
  <2> HIDE DEF c
  <2> QED
    BY <1>1, <1>5, <1>8, <1>9, <2>1, <2>2
<1>10. ASSUME UNCHANGED session, at # 0, rpc' = [rpc EXCEPT ![session] = Idle] PROVE RpcOK'
  BY <1>1, <1>5, <1>8, <1>10, Constants
<1>11. OnDestination \in SUBSET InProgress /\ OnRegistry \in SUBSET InProgress
  BY DEF InProgress
<1>12. ASSUME UNCHANGED session, LoseConnection PROVE RpcOK'
  <2>1. PICK k \in Line :
          /\ k \notin 1..MaxSession /\ session \in 1..MaxSession /\ rpc' \in [Line -> Call]
          /\ \A s \in Line \ {k, session} : rpc'[s] = rpc[s]
    BY <1>12, LostCall
  <2>2. \A s \in (session + 1)..MaxSession : s \in Line \ {k, session}
    BY <1>1, <2>1 DEF Line
  <2> QED
    BY <1>12, <2>1, <2>2 DEF RpcOK
<1> QED
  BY <1>4, <1>6, <1>7, <1>9, <1>10, <1>11, <1>12, NextCalls, Zenon DEF RpcMoves

\* What changes the files and the records.
LEMMA NextFiles ==
  ASSUME [Next]_vars
  PROVE  UNCHANGED files \/ OpenFile \/ WriteRow
<1>1. ASSUME NEW s \in Line, Agent(s) PROVE UNCHANGED files
  BY <1>1, AgentFrame, Zenon
<1>2. ASSUME StartDriver \/ Kill \/ Finished \/ AgentCrash(OnDestination) \/ AgentCrash(OnRegistry) \/ LoseConnection \/ UNCHANGED vars
      PROVE  UNCHANGED files
  BY <1>2 DEF StartDriver, Kill, Finished, AgentCrash, LoseConnection, vars
<1>3. ASSUME NEW c \in Name, ContainerExit(c) PROVE UNCHANGED files
  BY <1>3 DEF ContainerExit
<1>4. ASSUME NextIteration \/ CallSetBandwidthLimit \/ ShapeSource \/ ResetSource \/ DockerRun
      PROVE  UNCHANGED files
  BY <1>4 DEF NextIteration, CallSetBandwidthLimit, Request, ShapeSource, ResetSource, DockerRun
<1>5. ASSUME CallPullContainer \/ CallRecordFReset \/ WaitOnSource \/ StatFile PROVE UNCHANGED files
  BY <1>5 DEF CallPullContainer, CallRecordFReset, Request, WaitOnSource, StatFile
<1> QED
  BY <1>1, <1>2, <1>3, <1>4, <1>5, Zenon DEF Next, Step

LEMMA StepRecs ==
  ASSUME Step
  PROVE  UNCHANGED recs
<1>1. ASSUME NextIteration \/ CallSetBandwidthLimit \/ ShapeSource \/ ResetSource \/ DockerRun
      PROVE  UNCHANGED recs
  BY <1>1 DEF NextIteration, CallSetBandwidthLimit, Request, ShapeSource, ResetSource, DockerRun
<1>2. ASSUME CallPullContainer \/ CallRecordFReset \/ WaitOnSource \/ StatFile \/ OpenFile \/ WriteRow
      PROVE UNCHANGED recs
  BY <1>2 DEF CallPullContainer, CallRecordFReset, Request, WaitOnSource, StatFile, OpenFile, WriteRow
<1> QED
  BY <1>1, <1>2, Zenon DEF Step

LEMMA NextRecs ==
  ASSUME [Next]_vars
  PROVE  UNCHANGED recs \/ \E s \in Line : CheckpointContainer(s) \/ RenameRecordFile(s)
<1>1. ASSUME NEW s \in Line, Agent(s)
      PROVE  UNCHANGED recs \/ CheckpointContainer(s) \/ RenameRecordFile(s)
  BY <1>1, AgentFrame, Zenon
<1>2. ASSUME StartDriver \/ Kill \/ Finished \/ AgentCrash(OnDestination) \/ AgentCrash(OnRegistry) \/ LoseConnection \/ UNCHANGED vars
      PROVE  UNCHANGED recs
  BY <1>2 DEF StartDriver, Kill, Finished, AgentCrash, LoseConnection, vars
<1>3. ASSUME NEW c \in Name, ContainerExit(c) PROVE UNCHANGED recs
  BY <1>3 DEF ContainerExit
<1> QED
  BY <1>1, <1>2, <1>3, StepRecs, Zenon DEF Next

LEMMA FilesStep ==
  ASSUME Types, [Next]_vars
  PROVE  FilesOK'
<1> USE DEF Types
<1>1. CASE UNCHANGED files
  BY <1>1 DEF files, FilesOK
<1>2. CASE OpenFile
  BY <1>2 DEF OpenFile, FilesOK
<1>3. CASE WriteRow
  <2>1. This \in Origin /\ Header \in Origin
    BY ThisOrigin, Constants DEF Header
  <2>2. (IF head THEN <<Header>> ELSE <<>>) \in Seq(Origin) /\ <<This>> \in Seq(Origin)
    BY <2>1
  <2> DEFINE first == IF head THEN <<Header>> ELSE <<>>
  <2> HIDE DEF first
  <2>3. csv' = csv \o first \o <<This>> \/ csv' = csv
    BY <1>3 DEF WriteRow, first
  <2>4. first \in Seq(Origin) /\ csv \in Seq(Origin)
    BY <2>2 DEF first, FilesOK
  <2>5. csv \o first \in Seq(Origin)
    BY <2>4
  <2>6. csv \o first \o <<This>> \in Seq(Origin)
    BY <2>2, <2>5
  <2>7. csv' \in Seq(Origin)
    BY <2>3, <2>4, <2>6
  <2> QED
    BY <1>3, <2>7 DEF WriteRow, FilesOK
<1> QED
  BY <1>1, <1>2, <1>3, NextFiles

LEMMA RecsStep ==
  ASSUME Types, [Next]_vars
  PROVE  RecsOK'
<1> USE DEF Types
<1>1. CASE UNCHANGED recs
  BY <1>1 DEF recs, RecsOK
<1>2. ASSUME NEW s \in Line, CheckpointContainer(s) PROVE RecsOK'
  <2>1. rpc[s].pos \in Position /\ src[Called(s)].id \in Origin
    BY CalledName DEF HostsOK, Container
  <2>2. recP' \in {recP, Kept(recP, s, src[Called(s)])} /\ recF' = recF
    BY <1>2 DEF CheckpointContainer, SendCheckpoint
  <2> QED
    BY <2>1, <2>2 DEF RecsOK, Kept
<1>3. ASSUME NEW s \in Line, RenameRecordFile(s) PROVE RecsOK'
  <2>1. rpc[s].pos \in Position /\ rpc[s].id \in Origin
    BY CalledName
  <2>2. recF' \in {recF, Kept(recF, s, rpc[s])} /\ recP' = recP
    BY <1>3 DEF RenameRecordFile
  <2> QED
    BY <2>1, <2>2 DEF RecsOK, Kept
<1> QED
  BY <1>1, <1>2, <1>3, NextRecs

LEMMA TroubleStep ==
  ASSUME Types, [Next]_vars
  PROVE  trouble' \in BOOLEAN
<1> USE DEF Types
<1> USE DEF Smooth, Trouble
<1>1. ASSUME NEW s \in Line, Agent(s) PROVE trouble' \in BOOLEAN
  <2>1. \A answer : Reply(s, answer) => trouble' \in BOOLEAN
    BY DEF Reply
  <2>2. \A h, command, shape : Tc(h, command, shape) => trouble' \in BOOLEAN
    BY DEF Tc
  <2>3. CASE SetBandwidthLimit(s) \/ PullInspect(s) \/ CheckpointContainer(s)
    BY <2>2, <2>3 DEF SetBandwidthLimit, PullInspect, CheckpointContainer, SendCheckpoint
  <2>4. CASE ContainerCreate(s) \/ ContainerStart(s)
    BY <2>1, <2>4 DEF ContainerCreate, ContainerStart
  <2>5. CASE RecordWait(s)
    BY <2>5 DEF RecordWait, Raced
  <2>6. CASE RenameRecordFile(s) \/ DeferredReset(s)
    BY <2>1, <2>6 DEF RenameRecordFile, DeferredReset
  <2> QED
    BY <1>1, <2>3, <2>4, <2>5, <2>6, Zenon DEF Agent
<1>2. ASSUME StartDriver \/ Kill \/ Finished \/ AgentCrash(OnDestination) \/ AgentCrash(OnRegistry) \/ LoseConnection \/ UNCHANGED vars
      PROVE  trouble' \in BOOLEAN
  BY <1>2 DEF StartDriver, Leftover, Kill, Finished, AgentCrash, LoseConnection, vars
<1>3. ASSUME NEW c \in Name, ContainerExit(c) PROVE trouble' \in BOOLEAN
  BY <1>3 DEF ContainerExit, Pulls
<1>4. ASSUME NextIteration \/ CallSetBandwidthLimit PROVE trouble' \in BOOLEAN
  BY <1>4 DEF NextIteration, CallSetBandwidthLimit, Request, Begin, Leftover
<1>5. ASSUME ShapeSource \/ ResetSource \/ DockerRun \/ CallPullContainer \/ CallRecordFReset
      PROVE  trouble' \in BOOLEAN
  BY <1>5 DEF ShapeSource, Tc, ResetSource, DockerRun, CallPullContainer, CallRecordFReset, Request
<1>6. ASSUME WaitOnSource \/ StatFile \/ OpenFile \/ WriteRow PROVE trouble' \in BOOLEAN
  BY <1>6 DEF WaitOnSource, Raced, StatFile, OpenFile, WriteRow
<1> QED
  BY <1>1, <1>2, <1>3, <1>4, <1>5, <1>6, Zenon DEF Next, Step

LEMMA NextType ==
  ASSUME Types, [Next]_vars
  PROVE  Types'
<1>1. ControlOK'
  BY NextMoves, ControlStep DEF Types
<1> QED
  BY <1>1, LocalStep, HostsStep, TcStep, RpcStep, FilesStep, RecsStep, TroubleStep DEF Types

LEMMA InitType ==
  ASSUME Init
  PROVE  Types
<1>1. ControlOK
  <2>1. End \in Nat
    BY Constants, Ends DEF Init, End
  <2> QED
    BY <2>1, Constants DEF Init, ControlOK
<1>2. LocalOK /\ HostsOK /\ FilesOK /\ RecsOK /\ trouble \in BOOLEAN
  <2>1. LocalOK /\ HostsOK
    BY Constants DEF Init, LocalOK, HostsOK
  <2>2. RecsOK /\ trouble \in BOOLEAN
    BY Constants DEF Init, RecsOK
  <2>3. FilesOK
    <3>1. <<>> \in Seq(Origin)
      OBVIOUS
    <3> QED
      BY <3>1 DEF Init, FilesOK
  <2> QED
    BY <2>1, <2>2, <2>3
<1>3. TcOK
  BY DEF Init, TcOK, Unshaped, Shaped, Rates
<1>4. RpcOK
  BY Constants DEF Init, RpcOK, Line
<1> QED
  BY <1>1, <1>2, <1>3, <1>4 DEF Types

-----------------------------------------------------------------------------
(* The order of a driver's steps. *)

Sequel == {<<"run", "pull">>, <<"pull", "record">>, <<"record", "stat">>, <<"stat", "open">>,
           <<"open", "write">>, <<"run", "wait">>, <<"wait", "keep">>, <<"keep", "stat">>}

Late == {"pull", "record", "stat", "open", "write", "wait", "keep"}

LEMMA Before ==
  ASSUME NEW d \in DOMAIN Program, NEW k \in DOMAIN Program[d], k + 1 \in DOMAIN Program[d],
         Program[d][k + 1] \in Late
  PROVE  <<Program[d][k], Program[d][k + 1]>> \in Sequel
<1> DEFINE j == k + 1
<1>1. k \in Nat
  <2>1. k \in 1..Len(Program[d]) /\ Len(Program[d]) \in Nat
    BY Ends
  <2> QED
    BY <2>1
<1>2. (j = 9 => k = 8) /\ (j = 10 => k = 9) /\ (j = 11 => k = 10) /\ (j = 12 => k = 11) /\ (j = 13 => k = 12)
      /\ (j = 2 => k = 1) /\ (j = 3 => k = 2) /\ (j = 4 => k = 3) /\ (j = 5 => k = 4) /\ (j = 6 => k = 5)
  BY <1>1
<1>3. 3 # 8 /\ 3 # 9 /\ 3 # 10
  OBVIOUS
<1>4. j \in DOMAIN Program[d] /\ Program[d][j] \in Late
  OBVIOUS
<1> HIDE DEF j
<1>5. CASE Pulls(d)
  <2>1. \/ j = 9 /\ Program[d][j] = "pull"
        \/ j = 10 /\ Program[d][j] = "record"
        \/ j = 11 /\ Program[d][j] = "stat"
        \/ j = 12 /\ Program[d][j] = "open"
        \/ j = 13 /\ Program[d][j] = "write"
    BY <1>4, <1>5, PullPlaces, Zenon DEF Late
  <2>2. /\ k = 8 => Program[d][k] = "run"
        /\ k = 9 => Program[d][k] = "pull"
        /\ k = 10 => Program[d][k] = "record"
        /\ k = 11 => Program[d][k] = "stat"
        /\ k = 12 => Program[d][k] = "open"
    BY <1>5, PullPlaces
  <2>3. <<Program[d][k], Program[d][j]>> \in Sequel
    BY <1>2, <2>1, <2>2, Zenon DEF Sequel
  <2> QED
    BY <2>3 DEF j
<1>6. CASE ~Pulls(d)
  <2>1. \/ j = 2 /\ Program[d][j] = "wait"
        \/ j = 3 /\ Program[d][j] = "keep"
        \/ j = 4 /\ Program[d][j] = "stat"
        \/ j = 5 /\ Program[d][j] = "open"
        \/ j = 6 /\ Program[d][j] = "write"
    BY <1>4, <1>6, GroundTruthPlaces, Zenon DEF Late
  <2>2. /\ k = 1 => Program[d][k] = "run"
        /\ k = 2 => Program[d][k] = "wait"
        /\ k = 3 => Program[d][k] = "keep"
        /\ k = 4 => Program[d][k] = "stat"
        /\ k = 5 => Program[d][k] = "open"
    BY <1>6, GroundTruthPlaces
  <2>3. <<Program[d][k], Program[d][j]>> \in Sequel
    BY <1>2, <2>1, <2>2, Zenon DEF Sequel
  <2> QED
    BY <2>3 DEF j
<1> QED
  BY <1>5, <1>6

LEMMA Beginnings ==
  ASSUME NEW d \in DOMAIN Program, NEW k \in {1, Body(d)}
  PROVE  k \in DOMAIN Program[d] /\ Program[d][k] \notin Late
<1>1. k = 1 \/ k = 7
  BY Ends
<1>2. k \in DOMAIN Program[d]
  <2> DEFINE n == Len(Program[d])
  <2>1. n \in Nat /\ n > 5 /\ (Pulls(d) => n > 9) /\ (k = 7 => Pulls(d)) /\ DOMAIN Program[d] = 1..n
    BY Ends
  <2> HIDE DEF n
  <2> QED
    BY <1>1, <2>1
<1>3. CASE Pulls(d)
  <2>1. Program[d][k] \in {"limit", "stargz", "overlay"}
    <3>1. /\ Program[d][1] = "limit"
          /\ Program[d][7] \in {"stargz", "overlay"}
      BY <1>3, PullSteps, Zenon
    <3> QED
      BY <1>1, <3>1
  <2> QED
    BY <1>2, <2>1 DEF Late
<1>4. CASE ~Pulls(d)
  <2>1. k = 1
    BY <1>4, Ends
  <2>2. Program[d][1] = "run"
    BY <1>4, Programs, GroundTruthSteps, Zenon DEF Pulls
  <2> QED
    BY <1>2, <2>1, <2>2 DEF Late
<1> QED
  BY <1>3, <1>4

\* A driver that is at one of the later steps was there, or at the step before it.
LEMMA Arrival ==
  ASSUME Types, [Next]_vars, NEW step \in Late, At(step)'
  PROVE  \/ At(step) /\ UNCHANGED <<loop, at, local>>
         \/ /\ Step /\ at' = at + 1 /\ UNCHANGED loop
            /\ \E before \in StepName : At(before) /\ <<before, step>> \in Sequel
<1> USE DEF Types
<1>1. Moves /\ ControlOK'
  BY NextMoves, ControlStep
<1>2. at' \in DOMAIN Program[driver'] /\ Program[driver'][at'] = step
  BY DEF At
<1>3. driver \in DOMAIN Program /\ driver' \in DOMAIN Program
  BY <1>1, Constants DEF ControlOK
<1>4. CASE UNCHANGED <<loop, at, local>>
  BY <1>2, <1>4 DEF loop, At
<1>5. CASE Step /\ at \in DOMAIN Program[driver] /\ at' = at + 1 /\ UNCHANGED loop
  <2>1. driver' = driver
    BY <1>5 DEF loop
  <2>2. <<Program[driver][at], Program[driver][at + 1]>> \in Sequel
    BY <1>2, <1>3, <1>5, <2>1, Before
  <2>3. At(Program[driver][at]) /\ Program[driver][at] \in StepName
    BY <1>5, <2>2 DEF At, Sequel, StepName
  <2> QED
    BY <1>2, <1>5, <2>1, <2>2, <2>3
<1>6. (at' # End /\ at' # 0) \/ driver' # driver
  BY <1>2, EndNotZero
<1>7. at' \notin {1, Body(driver')}
  BY <1>2, <1>3, Beginnings
<1>8. CASE StartDriver
  BY <1>7, <1>8 DEF StartDriver
<1>9. CASE at \in DOMAIN Program[driver] /\ at' = End /\ UNCHANGED loop
  BY <1>6, <1>9 DEF loop
<1>10. CASE at # 0 /\ at' = 0 /\ UNCHANGED loop /\ Forget
  BY <1>6, <1>10 DEF loop
<1>11. CASE at # 0 /\ at' \in {1, Body(driver)} /\ UNCHANGED <<session, driver>> /\ pos' \in Position /\ Forget
  BY <1>7, <1>11
<1> QED
  BY <1>1, <1>4, <1>5, <1>8, <1>9, <1>10, <1>11, Zenon DEF Moves

\* The action of each step.
LEMMA StepAt ==
  ASSUME Types, Step, NEW step, At(step)
  PROVE  /\ step = "run" => DockerRun
         /\ step = "wait" => WaitOnSource
         /\ step = "pull" => CallPullContainer
         /\ step = "record" => CallRecordFReset
         /\ step = "keep" => ResetSource
         /\ step = "stat" => StatFile
         /\ step = "open" => OpenFile
         /\ step = "write" => WriteRow
<1>1. at # End /\ at \in DOMAIN Program[driver] /\ Program[driver][at] = step
  BY EndNotZero DEF At, Types
<1>2. CASE NextIteration
  BY <1>1, <1>2 DEF NextIteration
<1>3. CASE CallSetBandwidthLimit
  <2>1. step = "limit"
    BY <1>1, <1>3 DEF CallSetBandwidthLimit, Request, Answered, At
  <2> QED
    BY <2>1
<1>4. CASE ShapeSource
  <2>1. step \in {SetBW[k] : k \in DOMAIN SetBW}
    BY <1>1, <1>4 DEF ShapeSource, At
  <2>2. step \in {"del", "root", "class", "netem", "filter"}
    BY <2>1 DEF SetBW
  <2> QED
    BY <2>2
<1>5. CASE ResetSource
  <2>1. step \in {"stargz", "overlay", "keep"}
    BY <1>1, <1>5 DEF ResetSource, At
  <2> QED
    BY <1>5, <2>1
<1>6. CASE DockerRun
  <2>1. step = "run"
    BY <1>1, <1>6 DEF DockerRun, At
  <2> QED
    BY <1>6, <2>1
<1>7. CASE CallPullContainer
  <2>1. step = "pull"
    BY <1>1, <1>7 DEF CallPullContainer, Request, Answered, At
  <2> QED
    BY <1>7, <2>1
<1>8. CASE CallRecordFReset
  <2>1. step = "record"
    BY <1>1, <1>8 DEF CallRecordFReset, Request, Answered, At
  <2> QED
    BY <1>8, <2>1
<1>9. CASE WaitOnSource
  <2>1. step = "wait"
    BY <1>1, <1>9 DEF WaitOnSource, At
  <2> QED
    BY <1>9, <2>1
<1>10. CASE StatFile
  <2>1. step = "stat"
    BY <1>1, <1>10 DEF StatFile, At
  <2> QED
    BY <1>10, <2>1
<1>11. CASE OpenFile
  <2>1. step = "open"
    BY <1>1, <1>11 DEF OpenFile, At
  <2> QED
    BY <1>11, <2>1
<1>12. CASE WriteRow
  <2>1. step = "write"
    BY <1>1, <1>12 DEF WriteRow, At
  <2> QED
    BY <1>12, <2>1
<1> QED
  BY <1>2, <1>3, <1>4, <1>5, <1>6, <1>7, <1>8, <1>9, <1>10, <1>11, <1>12, Zenon DEF Step

-----------------------------------------------------------------------------
(* The CSV file. *)

HeaderInv ==
  /\ HeaderFirst
  /\ csv # <<>> => made
  /\ At("open") /\ head => csv = <<>>
  /\ At("write") => made /\ (head <=> csv = <<>>)

LEMMA HeaderStep ==
  ASSUME Types, HeaderInv, [Next]_vars
  PROVE  HeaderInv'
<1> USE DEF Types
<1>1. At("open")' => \/ At("open") /\ UNCHANGED <<loop, at, local>>
                     \/ At("stat") /\ StatFile
  <2>1. ASSUME At("open")', NEW before \in StepName, At(before), <<before, "open">> \in Sequel, Step
        PROVE  At("stat") /\ StatFile
    <3>1. before = "stat"
      BY <2>1 DEF Sequel
    <3> QED
      BY <2>1, <3>1, StepAt
  <2> QED
    BY <2>1, Arrival DEF Late
<1>2. At("write")' => \/ At("write") /\ UNCHANGED <<loop, at, local>>
                      \/ At("open") /\ made' = TRUE /\ head' = HeadNeeded /\ UNCHANGED csv
  <2>1. ASSUME At("write")', NEW before \in StepName, At(before), <<before, "write">> \in Sequel, Step,
               UNCHANGED loop
        PROVE  At("open") /\ made' = TRUE /\ head' = HeadNeeded /\ UNCHANGED csv
    <3>1. before = "open"
      BY <2>1 DEF Sequel
    <3>2. At("open") /\ OpenFile
      BY <2>1, <3>1, StepAt
    <3>3. at' # End
      BY <2>1, EndNotZero DEF At, loop
    <3> QED
      BY <3>2, <3>3 DEF OpenFile, Continue
  <2> QED
    BY <2>1, Arrival DEF Late
<1>3. CASE UNCHANGED files
  <2>1. HeaderFirst' /\ (csv' # <<>> => made')
    BY <1>3 DEF files, HeaderInv, HeaderFirst
  <2>2. At("open")' /\ head' => csv' = <<>>
    BY <1>1, <1>3 DEF files, HeaderInv, StatFile, local
  <2>3. At("write")' => made' /\ (head' <=> csv' = <<>>)
    <3>1. CASE At("write") /\ UNCHANGED <<loop, at, local>>
      BY <1>3, <3>1 DEF files, HeaderInv, local
    <3>2. CASE At("open") /\ made' = TRUE /\ head' = HeadNeeded /\ UNCHANGED csv
      BY <3>2 DEF HeaderInv, HeadNeeded
    <3> QED
      BY <1>2, <3>1, <3>2
  <2> QED
    BY <2>1, <2>2, <2>3 DEF HeaderInv
<1>4. At("open") => ~At("write") /\ ~At("stat")
  BY DEF At
<1>5. At("write") => ~At("open") /\ ~At("stat")
  BY DEF At
<1>6. CASE OpenFile
  <2>1. At("open") /\ UNCHANGED csv /\ (made' = TRUE \/ UNCHANGED made) /\ (at' = at + 1 \/ at' = End)
    BY <1>6 DEF OpenFile, GoOn, Continue
  <2>2. at' # at
    BY <2>1, EndNotZero DEF At
  <2>3. ~At("open")'
    BY <1>1, <1>4, <2>1, <2>2
  <2>4. At("write")' => made' /\ (head' <=> csv' = <<>>)
    BY <1>2, <1>4, <2>1 DEF HeaderInv, HeadNeeded
  <2> QED
    BY <2>1, <2>3, <2>4 DEF HeaderInv, HeaderFirst
<1>7. CASE WriteRow
  <2>1. At("write") /\ at' = at + 1 /\ UNCHANGED made
    BY <1>7 DEF WriteRow, GoOn
  <2>2. at' # at
    BY <2>1, EndNotZero DEF At
  <2>3. ~At("open")' /\ ~At("write")'
    BY <1>1, <1>2, <1>5, <2>1, <2>2
  <2>4. made /\ (head <=> csv = <<>>) /\ HeaderFirst
    BY <2>1 DEF HeaderInv
  <2>5. This # Header /\ This \in Origin
    BY <2>1, ThisOrigin, EndNotZero DEF At
  <2>6. csv \in Seq(Origin)
    BY DEF FilesOK
  <2>7. HeaderFirst'
    <3>1. CASE UNCHANGED csv
      BY <2>4, <3>1 DEF HeaderFirst
    <3>2. CASE head /\ csv' = csv \o <<Header>> \o <<This>>
      <4>1. csv' = <<Header>> \o <<This>>
        BY <2>4, <3>2
      <4>2. <<Header>> \in Seq(Origin) /\ <<This>> \in Seq(Origin)
        BY <2>5, Constants DEF Header
      <4>3. Len(csv') = 2 /\ csv'[1] = Header /\ csv'[2] = This
        BY <4>1, <4>2
      <4> QED
        BY <2>5, <4>3 DEF HeaderFirst
    <3>3. CASE ~head /\ csv' = csv \o <<>> \o <<This>>
      <4>1. csv' = csv \o <<This>> /\ csv # <<>>
        BY <2>4, <2>6, <3>3
      <4>2. /\ Len(csv') = Len(csv) + 1 /\ Len(csv) \in Nat /\ Len(csv) > 0
            /\ csv'[Len(csv) + 1] = This
            /\ \A k \in 1..Len(csv) : csv'[k] = csv[k]
        BY <2>5, <2>6, <4>1
      <4>3. csv[1] = Header /\ \A k \in 2..Len(csv) : csv[k] # Header
        BY <2>4, <4>1 DEF HeaderFirst
      <4>4. csv'[1] = Header
        BY <4>2, <4>3
      <4>5. ASSUME NEW k \in 2..Len(csv') PROVE csv'[k] # Header
        <5>1. k \in 2..Len(csv) \/ k = Len(csv) + 1
          BY <4>2
        <5> QED
          BY <2>5, <4>2, <4>3, <5>1
      <4> QED
        BY <4>4, <4>5 DEF HeaderFirst
    <3> QED
      BY <1>7, <3>1, <3>2, <3>3 DEF WriteRow
  <2> QED
    BY <2>1, <2>3, <2>4, <2>7 DEF HeaderInv
<1> QED
  BY <1>3, <1>6, <1>7, NextFiles

-----------------------------------------------------------------------------
(* The call that a driver waits for. *)

LimitCall  == OnRegistry \cup {"ok", "failed"}
PullCall   == {"inspect", "checkpoint", "create", "start", "ok", "failed"}
RecordCall == {"wait", "rename", "wipe", "ok", "failed"}

CallInv ==
  at # 0 /\ rpc[session].stage # "idle" =>
    /\ \/ At("limit")  /\ rpc[session].stage \in LimitCall
       \/ At("pull")   /\ rpc[session].stage \in PullCall
       \/ At("record") /\ rpc[session].stage \in RecordCall
    /\ rpc[session].pos = pos /\ rpc[session].file = Records(driver)

LEMMA GotoStage ==
  ASSUME Types, NEW s \in Line, NEW stage, Goto(s, stage)
  PROVE  rpc'[s].stage = stage /\ rpc'[s].id = rpc[s].id /\ rpc'[s].ok = rpc[s].ok
  BY DEF Types, RpcOK, Call, Goto

\* An agent's call goes on with the steps of its kind.
LEMMA AgentStages ==
  ASSUME Types, NEW s \in Line, Agent(s)
  PROVE  /\ rpc[s].stage \in LimitCall => rpc'[s].stage \in LimitCall
         /\ rpc[s].stage \in PullCall => rpc'[s].stage \in PullCall
         /\ rpc[s].stage \in RecordCall => rpc'[s].stage \in RecordCall
<1> USE DEF Types
<1>1. /\ LimitCall = {"del", "root", "class", "netem", "filter", "ok", "failed"}
      /\ \A k \in DOMAIN SetBW : SetBW[k] \in {"del", "root", "class", "netem", "filter"}
      /\ DOMAIN SetBW = 1..5 /\ Len(SetBW) = 5
  BY DEF LimitCall, OnRegistry, SetBW
<1>2. CASE SetBandwidthLimit(s)
  <2>1. PICK k \in DOMAIN SetBW :
          /\ rpc[s].stage = SetBW[k]
          /\ \/ Goto(s, IF k < Len(SetBW) THEN SetBW[k + 1] ELSE "ok")
             \/ Goto(s, "failed")
    BY <1>2 DEF SetBandwidthLimit
  <2>2. k < Len(SetBW) => k + 1 \in DOMAIN SetBW
    BY <1>1
  <2>3. (IF k < Len(SetBW) THEN SetBW[k + 1] ELSE "ok") \in LimitCall
    BY <1>1, <2>2, Zenon
  <2>4. rpc'[s].stage \in LimitCall
    BY <1>1, <2>1, <2>3, GotoStage
  <2>5. rpc[s].stage \in {"del", "root", "class", "netem", "filter"}
    BY <1>1, <2>1
  <2> QED
    BY <2>4, <2>5 DEF PullCall, RecordCall
<1>3. CASE PullInspect(s) \/ ContainerCreate(s) \/ ContainerStart(s)
  <2>1. /\ rpc[s].stage \in {"inspect", "create", "start"}
        /\ \E stage \in {"checkpoint", "start", "ok", "failed"} : Goto(s, stage)
    BY <1>3 DEF PullInspect, ContainerCreate, ContainerStart, Reply
  <2>2. rpc'[s].stage \in {"checkpoint", "start", "ok", "failed"}
    BY <2>1, GotoStage
  <2> QED
    BY <1>1, <2>1, <2>2 DEF PullCall, RecordCall
<1>4. CASE CheckpointContainer(s)
  <2>1. rpc[s].stage = "checkpoint" /\ (Goto(s, "failed") \/ rpc' = [rpc EXCEPT ![s].stage = "create", ![s].id = src[Called(s)].id])
    BY <1>4 DEF CheckpointContainer, SendCheckpoint
  <2>2. rpc'[s].stage \in {"create", "failed"}
    BY <2>1, GotoStage DEF RpcOK, Call
  <2> QED
    BY <1>1, <2>1, <2>2 DEF PullCall, RecordCall
<1>5. CASE RecordWait(s)
  <2>1. rpc[s].stage = "wait" /\ rpc'[s].stage \in {"rename", "wipe"}
    BY <1>5 DEF RecordWait, RpcOK, Call
  <2> QED
    BY <1>1, <2>1 DEF PullCall, RecordCall
<1>6. CASE RenameRecordFile(s)
  <2>1. rpc[s].stage = "rename" /\ (Goto(s, "wipe") \/ rpc' = [rpc EXCEPT ![s].ok = FALSE, ![s].stage = "wipe"])
    BY <1>6 DEF RenameRecordFile
  <2>2. rpc'[s].stage = "wipe"
    BY <2>1, GotoStage DEF RpcOK, Call
  <2> QED
    BY <1>1, <2>1, <2>2 DEF PullCall, RecordCall
<1>7. CASE DeferredReset(s)
  <2>1. rpc[s].stage = "wipe" /\ \E stage \in {"ok", "failed"} : Goto(s, stage)
    BY <1>7 DEF DeferredReset, Reply
  <2>2. rpc'[s].stage \in {"ok", "failed"}
    BY <2>1, GotoStage
  <2> QED
    BY <1>1, <2>1, <2>2 DEF PullCall, RecordCall
<1> QED
  BY <1>2, <1>3, <1>4, <1>5, <1>6, <1>7, Zenon DEF Agent

LEMMA AgentKeeps ==
  ASSUME Types, NEW s \in Line, Agent(s)
  PROVE  /\ UNCHANGED <<loop, at, local>>
         /\ rpc[s].stage \in InProgress
         /\ rpc'[s].pos = rpc[s].pos /\ rpc'[s].file = rpc[s].file
         /\ \A t \in Line \ {s} : rpc'[t] = rpc[t]
<1>1. UNCHANGED <<loop, at, local>>
  BY AgentFrame, Zenon
<1>2. PICK c \in Call : /\ c.pos = rpc[s].pos /\ c.file = rpc[s].file
                        /\ rpc' = [rpc EXCEPT ![s] = c] /\ rpc[s].stage \in InProgress
  BY AgentCalls DEF CallMoves
<1> QED
  BY <1>1, <1>2 DEF Types, RpcOK

\* Where the driver makes a call, and where it does not.
LEMMA StepCalls ==
  ASSUME Types, CallInv, Step
  PROVE  \/ Request("limit", "del") \/ Request("pull", "inspect") \/ Request("record", "wait")
         \/ rpc' = [rpc EXCEPT ![session] = Idle] /\ session' = session
         \/ rpc' = rpc /\ rpc[session].stage = "idle" /\ session' = session
<1> USE DEF Types
<1>1. \A step : At(step) => at # 0 /\ at # End
  BY EndNotZero DEF At
<1>2. CASE CallSetBandwidthLimit
  BY <1>2 DEF CallSetBandwidthLimit, Answered, Begin, Stop, loop
<1>3. CASE CallPullContainer
  BY <1>3 DEF CallPullContainer, Answered, Stop, loop
<1>4. CASE CallRecordFReset
  BY <1>4 DEF CallRecordFReset, Answered, Stop, loop
<1>5. ASSUME at # 0, ~At("limit"), ~At("pull"), ~At("record") PROVE rpc[session].stage = "idle"
  BY <1>5 DEF CallInv
<1>6. CASE NextIteration
  <2>1. at # 0 /\ ~At("limit") /\ ~At("pull") /\ ~At("record")
    BY <1>1, <1>6, EndNotZero DEF NextIteration
  <2> QED
    BY <1>5, <1>6, <2>1 DEF NextIteration, Begin, Stop, loop
<1>7. ASSUME NEW step, At(step), step \notin {"limit", "pull", "record"}
      PROVE  rpc[session].stage = "idle"
  BY <1>1, <1>5, <1>7 DEF At
<1>8. CASE ShapeSource
  <2>1. \E step : At(step) /\ step \notin {"limit", "pull", "record"}
    BY <1>8 DEF ShapeSource, SetBW
  <2> QED
    BY <1>7, <1>8, <2>1 DEF ShapeSource, loop
<1>9. CASE ResetSource \/ DockerRun \/ WaitOnSource
  <2>1. \E step \in {"stargz", "overlay", "keep", "run", "wait"} : At(step)
    BY <1>9 DEF ResetSource, DockerRun, WaitOnSource
  <2>2. rpc' = rpc /\ session' = session
    BY <1>9 DEF ResetSource, DockerRun, WaitOnSource, loop
  <2> QED
    BY <1>7, <2>1, <2>2
<1>10. CASE StatFile \/ OpenFile \/ WriteRow
  <2>1. \E step \in {"stat", "open", "write"} : At(step)
    BY <1>10 DEF StatFile, OpenFile, WriteRow
  <2>2. rpc' = rpc /\ session' = session
    BY <1>10 DEF StatFile, OpenFile, WriteRow, loop
  <2> QED
    BY <1>7, <2>1, <2>2
<1> QED
  BY <1>2, <1>3, <1>4, <1>6, <1>8, <1>9, <1>10, Zenon DEF Step

LEMMA CallStep ==
  ASSUME Types, CallInv, [Next]_vars
  PROVE  CallInv'
<1> USE DEF Types
<1>1. Idle.stage = "idle"
  BY DEF Idle
<1>2. at # 0 => session \in Line
  BY ThisOrigin
<1>3. ASSUME NEW s \in Line, Agent(s) PROVE CallInv'
  <2>1. /\ loop' = loop /\ at' = at /\ rpc[s].stage \in InProgress
        /\ rpc'[s].pos = rpc[s].pos /\ rpc'[s].file = rpc[s].file
        /\ \A t \in Line \ {s} : rpc'[t] = rpc[t]
    BY <1>3, AgentKeeps
  <2>2. session' = session /\ driver' = driver /\ pos' = pos /\ \A step : At(step)' <=> At(step)
    BY <2>1 DEF loop, At
  <2>3. CASE s = session /\ at # 0
    <3>1. rpc[s].stage # "idle"
      BY <2>1 DEF InProgress, OnRegistry, OnDestination, SetBW
    <3> QED
      BY <1>3, <2>1, <2>2, <2>3, <3>1, AgentStages DEF CallInv
  <2>4. CASE s # session /\ at # 0
    BY <1>2, <2>1, <2>2, <2>4 DEF CallInv
  <2> QED
    BY <2>1, <2>3, <2>4 DEF CallInv
<1>4. ASSUME NEW calls \in SUBSET InProgress, AgentCrash(calls) PROVE CallInv'
  <2>1. /\ loop' = loop /\ at' = at
        /\ rpc' = [s \in Line |->
             IF rpc[s].stage \in calls THEN [rpc[s] EXCEPT !.stage = "failed"] ELSE rpc[s]]
    BY <1>4 DEF AgentCrash
  <2>2. session' = session /\ driver' = driver /\ pos' = pos /\ \A step : At(step)' <=> At(step)
    BY <2>1 DEF loop, At
  <2>3. ASSUME at # 0, rpc[session].stage \in calls PROVE CallInv'
    <3>2. rpc[session].stage # "idle"
      BY <2>3 DEF InProgress, OnRegistry, OnDestination, SetBW
    <3>1. rpc'[session].stage = "failed" /\ rpc'[session].pos = rpc[session].pos
          /\ rpc'[session].file = rpc[session].file
      BY <1>2, <2>1, <2>3 DEF RpcOK, Call
    <3> QED
      BY <2>2, <2>3, <3>1, <3>2 DEF CallInv, LimitCall, PullCall, RecordCall
  <2>4. ASSUME at # 0, rpc[session].stage \notin calls PROVE CallInv'
    BY <1>2, <2>1, <2>2, <2>4 DEF CallInv
  <2> QED
    BY <2>1, <2>3, <2>4 DEF CallInv
<1>5. CASE Step
  <2>1. ASSUME NEW step, NEW stage, Request(step, stage),
               \/ step = "limit" /\ stage \in LimitCall
               \/ step = "pull" /\ stage \in PullCall
               \/ step = "record" /\ stage \in RecordCall
        PROVE  CallInv'
    <3>1. At(step) /\ loop' = loop /\ at' = at
          /\ rpc' = [rpc EXCEPT ![session] =
                       [stage |-> stage, pos |-> pos, file |-> Records(driver), ok |-> TRUE, id |-> res]]
      BY <2>1 DEF Request, Calls
    <3>2. session' = session /\ driver' = driver /\ pos' = pos /\ \A other : At(other)' <=> At(other)
      BY <3>1 DEF loop, At
    <3>3. at # 0
      BY <3>1, EndNotZero DEF At
    <3>4. rpc'[session] = [stage |-> stage, pos |-> pos, file |-> Records(driver), ok |-> TRUE, id |-> res]
      BY <1>2, <3>1, <3>3 DEF RpcOK
    <3> QED
      BY <2>1, <3>1, <3>2, <3>4 DEF CallInv
  <2>2. "del" \in LimitCall /\ "inspect" \in PullCall /\ "wait" \in RecordCall
    BY DEF LimitCall, PullCall, RecordCall, OnRegistry, SetBW
  <2>3. CASE Request("limit", "del") \/ Request("pull", "inspect") \/ Request("record", "wait")
    BY <2>1, <2>2, <2>3
  <2>4. CASE rpc' = [rpc EXCEPT ![session] = Idle] /\ session' = session
    <3>1. session \in Line
      BY <1>2, <1>5, StepRuns
    <3> QED
      BY <1>1, <2>4, <3>1 DEF CallInv, RpcOK
  <2>5. CASE rpc' = rpc /\ rpc[session].stage = "idle" /\ session' = session
    BY <2>5 DEF CallInv
  <2> QED
    BY <1>5, <2>3, <2>4, <2>5, StepCalls
<1>6. CASE StartDriver
  <2>1. session' = session + 1 /\ session < MaxSession /\ rpc' = rpc
    BY <1>6 DEF StartDriver
  <2>2. session' \in (session + 1)..MaxSession
    BY <2>1, Constants DEF ControlOK
  <2>3. rpc[session'] = Idle
    BY <2>2 DEF RpcOK
  <2> QED
    BY <1>1, <2>1, <2>3 DEF CallInv
<1>7. CASE Kill
  BY <1>7 DEF Kill, Stop, CallInv
<1>8. ASSUME UNCHANGED <<loop, at, rpc>> PROVE CallInv'
  BY <1>8 DEF loop, At, CallInv
<1>9. ASSUME Finished \/ UNCHANGED vars PROVE UNCHANGED <<loop, at, rpc>>
  BY <1>9 DEF Finished, vars
<1>10. ASSUME NEW c \in Name, ContainerExit(c) PROVE UNCHANGED <<loop, at, rpc>>
  BY <1>10 DEF ContainerExit
<1>11. OnDestination \in SUBSET InProgress /\ OnRegistry \in SUBSET InProgress
  BY DEF InProgress
<1>12. CASE LoseConnection
  <2>1. /\ rpc[session].stage \in InProgress /\ session \in Line
        /\ rpc'[session] = [rpc[session] EXCEPT !.stage = "failed"]
    BY <1>12, LostCall
  <2>2. rpc'[session].stage = "failed" /\ rpc'[session].pos = rpc[session].pos
        /\ rpc'[session].file = rpc[session].file /\ rpc[session].stage # "idle"
    BY <2>1 DEF RpcOK, Call, InProgress, OnRegistry, OnDestination, SetBW
  <2>3. UNCHANGED <<loop, at>>
    BY <1>12 DEF LoseConnection
  <2>4. session' = session /\ driver' = driver /\ pos' = pos /\ at' = at /\ \A step : At(step)' <=> At(step)
    BY <2>3 DEF loop, At
  <2> QED
    BY <2>2, <2>4 DEF CallInv, LimitCall, PullCall, RecordCall
<1> QED
  BY <1>3, <1>4, <1>5, <1>6, <1>7, <1>8, <1>9, <1>10, <1>11, <1>12, Zenon DEF Next

-----------------------------------------------------------------------------
(* The records of the accesses. *)

\* What has become of the containers on the source is known.
Identified == \A c \in Name : src[c].st # "none" => src[c].id # Nobody

\* Only the driver puts other containers on the source.
LEMMA SourceMoves ==
  ASSUME Types, [Next]_vars
  PROVE  \/ UNCHANGED src
         \/ \E c \in Name : src[c].st = "running" /\ src' = [src EXCEPT ![c].st = "exited"]
         \/ ResetSource \/ DockerRun \/ WaitOnSource
<1> USE DEF Types
<1>1. ASSUME NEW s \in Line, Agent(s)
      PROVE  UNCHANGED src \/ \E c \in Name : src[c].st = "running" /\ src' = [src EXCEPT ![c].st = "exited"]
  <2>1. CASE CheckpointContainer(s)
    <3>1. \/ UNCHANGED src
          \/ src[Called(s)].st = "running" /\ src' = [src EXCEPT ![Called(s)].st = "exited"]
      BY <2>1, Zenon DEF CheckpointContainer
    <3> QED
      BY <3>1, CalledName
  <2>2. CASE ContainerCreate(s) \/ ContainerStart(s) \/ RecordWait(s) \/ DeferredReset(s)
    <3>1. UNCHANGED src
      BY <2>2, Zenon DEF ContainerCreate, ContainerStart, RecordWait, DeferredReset
    <3> QED
      BY <3>1
  <2>3. CASE UNCHANGED hosts
    BY <2>3 DEF hosts
  <2> QED
    BY <1>1, <2>1, <2>2, <2>3, AgentFrame, Zenon
<1>3. ASSUME StartDriver \/ Kill \/ Finished \/ AgentCrash(OnDestination) \/ AgentCrash(OnRegistry) \/ LoseConnection \/ UNCHANGED vars
      PROVE  UNCHANGED src
  BY <1>3 DEF StartDriver, Kill, Finished, AgentCrash, LoseConnection, vars, hosts
<1>4. ASSUME NEW c \in Name, ContainerExit(c)
      PROVE  UNCHANGED src \/ (src[c].st = "running" /\ src' = [src EXCEPT ![c].st = "exited"])
  BY <1>4 DEF ContainerExit
<1>5. ASSUME NextIteration \/ CallSetBandwidthLimit \/ ShapeSource \/ CallPullContainer PROVE UNCHANGED src
  BY <1>5 DEF NextIteration, CallSetBandwidthLimit, Request, ShapeSource, CallPullContainer, hosts
<1>6. ASSUME CallRecordFReset \/ StatFile \/ OpenFile \/ WriteRow PROVE UNCHANGED src
  BY <1>6 DEF CallRecordFReset, Request, StatFile, OpenFile, WriteRow, hosts
<1> QED
  BY <1>1, <1>3, <1>4, <1>5, <1>6, Zenon DEF Next, Step

\* Waiting for a container leaves it the same, as does a reset that fails.
LEMMA WaitedSame ==
  ASSUME NEW con \in Container, NEW outcome \in Waited(con)
  PROVE  outcome.con.id = con.id /\ (outcome.con.st = "none" <=> con.st = "none")
<1>1. CASE con.st = "running"
  <2>1. outcome.con = [con EXCEPT !.st = "exited"]
    BY <1>1 DEF Waited
  <2> QED
    BY <1>1, <2>1 DEF Container
<1>2. CASE con.st # "running"
  <2>1. outcome.con = con
    BY <1>2 DEF Waited
  <2> QED
    BY <2>1
<1> QED
  BY <1>1, <1>2

LEMMA HalfSame ==
  ASSUME NEW cons \in [Name -> Container], NEW half \in HalfReset(cons), NEW c \in Name
  PROVE  half[c].id = cons[c].id /\ (half[c].st = "none" <=> cons[c].st = "none")
  BY DEF HalfReset, Container

LEMMA IdentifiedStep ==
  ASSUME Types, Identified, [Next]_vars
  PROVE  Identified'
<1> USE DEF Types
<1>1. ASSUME NEW c \in Name, src[c].st = "running", src' = [src EXCEPT ![c].st = "exited"] PROVE Identified'
  BY <1>1 DEF HostsOK, Container, Identified
<1>2. CASE ResetSource
  <2>1. src' = [c \in Name |-> None] \/ src' \in HalfReset(src)
    BY <1>2 DEF ResetSource
  <2>2. CASE src' = [c \in Name |-> None]
    BY <2>2 DEF None, Identified
  <2>3. CASE src' \in HalfReset(src)
    BY <2>3, HalfSame DEF Identified, HostsOK
  <2> QED
    BY <2>1, <2>2, <2>3
<1>3. CASE DockerRun
  <2>1. This # Nobody /\ alias \in Name
    BY <1>3, ThisOrigin, AtRuns DEF DockerRun, Header
  <2>2. \/ src' = src
        \/ src' = [src EXCEPT ![alias] = [st |-> "running", id |-> This]]
        \/ src' = [src EXCEPT ![alias] = [st |-> "created", id |-> This]]
    BY <1>3 DEF DockerRun
  <2> QED
    BY <2>1, <2>2 DEF Identified, HostsOK
<1>4. CASE WaitOnSource
  <2>1. PICK outcome \in Waited(src[alias]) : src' = [src EXCEPT ![alias] = outcome.con]
    BY <1>4 DEF WaitOnSource
  <2>2. alias \in Name /\ src[alias] \in Container
    BY ThisOrigin DEF HostsOK
  <2>3. outcome.con.id = src[alias].id /\ (outcome.con.st = "none" <=> src[alias].st = "none")
    BY <2>2, WaitedSame
  <2> QED
    BY <2>1, <2>2, <2>3 DEF Identified, HostsOK
<1> QED
  BY <1>1, <1>2, <1>3, <1>4, SourceMoves DEF Identified

Predicted == {"create", "start", "wait", "rename"}

PredictInv ==
  /\ \A s \in Line : rpc[s].file /\ rpc[s].stage \in Predicted => recP[rpc[s].pos] # Nobody
  /\ \A s \in Line : rpc[s].stage = "rename" => rpc[s].file
  /\ Records(driver) /\ At("pull") /\ rpc[session].stage = "ok" => recP[pos] # Nobody
  /\ Records(driver) /\ At("record") => recP[pos] # Nobody
  /\ OutcomePredicted

\* The record of the container that has just been stopped.
LEMMA CheckpointRecords ==
  ASSUME Types, Identified, NEW s \in Line, CheckpointContainer(s)
  PROVE  /\ recF' = recF
         /\ \A p \in Position : recP[p] # Nobody => recP'[p] # Nobody
         /\ \/ rpc'[s].stage = "failed"
            \/ rpc'[s].stage = "create" /\ (rpc[s].file => recP'[rpc[s].pos] # Nobody)
<1> USE DEF Types
<1>1. Called(s) \in Name /\ rpc[s].pos \in Position
  BY CalledName
<1>2. CASE recP' = recP /\ recF' = recF /\ Goto(s, "failed")
  <2>1. rpc'[s].stage = "failed"
    BY <1>2, GotoStage
  <2> QED
    BY <1>2, <2>1
<1>3. CASE src[Called(s)].st = "running" /\ SendCheckpoint(s) /\ recF' = recF
  <2>1. src[Called(s)].id # Nobody
    BY <1>1, <1>3 DEF Identified
  <2>2. CASE recP' = Kept(recP, s, src[Called(s)])
    <3>1. /\ \A p \in Position : recP[p] # Nobody => recP'[p] # Nobody
          /\ rpc[s].file => recP'[rpc[s].pos] # Nobody
      BY <1>1, <2>1, <2>2 DEF Kept, RecsOK
    <3>2. \/ rpc' = [rpc EXCEPT ![s].stage = "create", ![s].id = src[Called(s)].id]
          \/ Goto(s, "failed")
      BY <1>3, Zenon DEF SendCheckpoint
    <3>3. rpc'[s].stage = "create" \/ rpc'[s].stage = "failed"
      BY <3>2, GotoStage DEF RpcOK, Call
    <3> QED
      BY <1>3, <3>1, <3>3
  <2>3. CASE recP' = recP /\ Goto(s, "failed")
    BY <1>2, <1>3, <2>3
  <2> QED
    BY <1>3, <2>2, <2>3 DEF SendCheckpoint
<1> QED
  BY <1>2, <1>3, Zenon DEF CheckpointContainer

LEMMA RecordsGrow ==
  ASSUME Types, Identified, [Next]_vars
  PROVE  \A p \in Position : recP[p] # Nobody => recP'[p] # Nobody
<1>1. CASE UNCHANGED recs
  BY <1>1 DEF recs
<1>2. ASSUME NEW s \in Line, RenameRecordFile(s) PROVE UNCHANGED recP
  BY <1>2, Zenon DEF RenameRecordFile
<1> QED
  BY <1>1, <1>2, NextRecs, CheckpointRecords

\* What an agent's step makes of a call that has got as far as the records.
LEMMA AgentPredicts ==
  ASSUME Types, Identified, PredictInv, NEW s \in Line, Agent(s)
  PROVE  /\ rpc[s].file /\ rpc'[s].stage \in Predicted => recP'[rpc[s].pos] # Nobody
         /\ rpc'[s].stage = "rename" => rpc[s].file
         /\ rpc[s].stage \in PullCall /\ rpc'[s].stage = "ok" => rpc[s].stage = "start"
         /\ OutcomePredicted'
<1> USE DEF Types
<1>1. CASE SetBandwidthLimit(s)
  <2>1. rpc[s].stage \in LimitCall \ {"ok", "failed"} /\ UNCHANGED recs
    BY <1>1 DEF SetBandwidthLimit, LimitCall, OnRegistry, SetBW
  <2>2. rpc'[s].stage \in LimitCall
    BY <2>1, AgentStages
  <2>3. LimitCall = {"del", "root", "class", "netem", "filter", "ok", "failed"}
    BY DEF LimitCall, OnRegistry, SetBW
  <2> QED
    BY <2>1, <2>2, <2>3 DEF Predicted, PullCall, PredictInv, OutcomePredicted, recs
<1>2. CASE PullInspect(s)
  <2>1. (Goto(s, "checkpoint") \/ Goto(s, "failed")) /\ UNCHANGED recs
    BY <1>2 DEF PullInspect
  <2>2. rpc'[s].stage \in {"checkpoint", "failed"}
    BY <2>1, GotoStage
  <2> QED
    BY <2>1, <2>2 DEF Predicted, PredictInv, OutcomePredicted, recs
<1>3. CASE CheckpointContainer(s)
  BY <1>3, CheckpointRecords DEF Predicted, PredictInv, OutcomePredicted
<1>4. CASE ContainerCreate(s)
  <2>1. (Goto(s, "start") \/ Goto(s, "failed")) /\ UNCHANGED recs /\ rpc[s].stage = "create"
    BY <1>4 DEF ContainerCreate
  <2>2. rpc'[s].stage \in {"start", "failed"}
    BY <2>1, GotoStage
  <2> QED
    BY <2>1, <2>2 DEF Predicted, PredictInv, OutcomePredicted, recs
<1>5. CASE ContainerStart(s)
  <2>1. (Goto(s, "ok") \/ Goto(s, "failed")) /\ UNCHANGED recs /\ rpc[s].stage = "start"
    BY <1>5 DEF ContainerStart, Reply
  <2>2. rpc'[s].stage \in {"ok", "failed"}
    BY <2>1, GotoStage
  <2> QED
    BY <2>1, <2>2 DEF Predicted, PredictInv, OutcomePredicted, recs
<1>6. CASE RecordWait(s)
  <2>1. /\ rpc[s].stage = "wait" /\ UNCHANGED recs
        /\ \E ok : rpc'[s].stage = IF ok /\ rpc[s].file THEN "rename" ELSE "wipe"
    BY <1>6 DEF RecordWait, RpcOK, Call
  <2> QED
    BY <2>1 DEF Predicted, PredictInv, OutcomePredicted, recs
<1>7. CASE RenameRecordFile(s)
  <2>1. /\ rpc[s].stage = "rename" /\ UNCHANGED recP
        /\ recF' \in {recF, Kept(recF, s, rpc[s])}
        /\ (Goto(s, "wipe") \/ rpc' = [rpc EXCEPT ![s].ok = FALSE, ![s].stage = "wipe"])
    BY <1>7 DEF RenameRecordFile
  <2>2. rpc'[s].stage = "wipe"
    BY <2>1, GotoStage DEF RpcOK, Call
  <2>3. recP[rpc[s].pos] # Nobody
    BY <2>1 DEF Predicted, PredictInv
  <2>4. \A p \in Position : recF'[p] # Nobody => recF[p] # Nobody \/ p = rpc[s].pos
    BY <2>1, CalledName DEF Kept, RecsOK
  <2>5. OutcomePredicted'
    BY <2>1, <2>3, <2>4 DEF PredictInv, OutcomePredicted
  <2> QED
    BY <2>2, <2>5 DEF Predicted
<1>8. CASE DeferredReset(s)
  <2>1. (Goto(s, "ok") \/ Goto(s, "failed")) /\ UNCHANGED recs /\ rpc[s].stage = "wipe"
    BY <1>8 DEF DeferredReset, Reply
  <2>2. rpc'[s].stage \in {"ok", "failed"}
    BY <2>1, GotoStage
  <2> QED
    BY <2>1, <2>2 DEF Predicted, PullCall, PredictInv, OutcomePredicted, recs
<1> QED
  BY <1>1, <1>2, <1>3, <1>4, <1>5, <1>6, <1>7, <1>8, Zenon DEF Agent

\* PF keeps the accesses on the destination once it has had those on the source kept.
LEMMA BeforeRecord ==
  ASSUME Types, Identified, PredictInv, [Next]_vars, Records(driver'), At("record")'
  PROVE  recP'[pos'] # Nobody
<1> USE DEF Types, ControlOK
<1>1. CASE At("record") /\ UNCHANGED <<loop, at, local>>
  BY <1>1, RecordsGrow DEF PredictInv, loop
<1>2. CASE /\ Step /\ at' = at + 1 /\ UNCHANGED loop
           /\ \E before \in StepName : At(before) /\ <<before, "record">> \in Sequel
  <2>1. At("pull") /\ CallPullContainer
    BY <1>2, StepAt DEF Sequel
  <2>2. at' # at /\ at' # End
    BY <1>2, EndNotZero DEF At, loop
  <2>3. rpc[session].stage = "ok"
    BY <1>2, <2>1, <2>2, EndNotZero DEF CallPullContainer, Request, Answered, Continue, Stop, At
  <2> QED
    BY <1>2, <2>1, <2>3, RecordsGrow DEF PredictInv, loop
<1> QED
  BY <1>1, <1>2, Arrival DEF Late

LEMMA PredictStep ==
  ASSUME Types, CallInv, Identified, PredictInv, [Next]_vars
  PROVE  PredictInv'
<1> USE DEF Types
<1>1. /\ Idle.stage = "idle"
      /\ at # 0 => session \in Line
  BY ThisOrigin DEF Idle
<1>2. /\ \A p \in Position : recP[p] # Nobody => recP'[p] # Nobody
      /\ Records(driver') /\ At("record")' => recP'[pos'] # Nobody
      /\ pos \in Position /\ \A s \in Line : rpc[s].pos \in Position
  BY RecordsGrow, BeforeRecord, CalledName DEF ControlOK
<1>3. ASSUME NEW s \in Line, Agent(s) PROVE PredictInv'
  <2>1. /\ loop' = loop /\ at' = at
        /\ rpc'[s].pos = rpc[s].pos /\ rpc'[s].file = rpc[s].file
        /\ \A t \in Line \ {s} : rpc'[t] = rpc[t]
    BY <1>3, AgentKeeps
  <2>2. session' = session /\ driver' = driver /\ pos' = pos /\ \A step : At(step)' <=> At(step)
    BY <2>1 DEF loop, At
  <2>3. /\ \A t \in Line : rpc'[t].file /\ rpc'[t].stage \in Predicted => recP'[rpc'[t].pos] # Nobody
        /\ \A t \in Line : rpc'[t].stage = "rename" => rpc'[t].file
        /\ OutcomePredicted'
    BY <1>2, <1>3, <2>1, AgentPredicts DEF PredictInv, OutcomePredicted
  <2>4. ASSUME Records(driver), At("pull"), rpc'[session].stage = "ok" PROVE recP'[pos] # Nobody
    <3>1. at # 0
      BY <2>4, EndNotZero DEF At
    <3>2. CASE s = session
      <4>1. rpc[s].stage # "idle"
        BY <1>3, AgentKeeps DEF InProgress, OnRegistry, OnDestination, SetBW
      <4>2. rpc[s].stage \in PullCall /\ rpc[s].pos = pos /\ rpc[s].file
        BY <2>4, <3>1, <3>2, <4>1 DEF CallInv, At
      <4>3. rpc[s].stage = "start"
        BY <1>3, <2>4, <3>2, <4>2, AgentPredicts
      <4> QED
        BY <1>2, <4>2, <4>3 DEF PredictInv, Predicted
    <3>3. CASE s # session
      <4>1. rpc'[session] = rpc[session]
        BY <1>1, <2>1, <3>1, <3>3
      <4> QED
        BY <1>2, <2>4, <4>1 DEF PredictInv
    <3> QED
      BY <3>2, <3>3
  <2> QED
    BY <1>2, <2>2, <2>3, <2>4 DEF PredictInv
<1>4. ASSUME UNCHANGED recs,
             \A t \in Line : \/ rpc'[t] = rpc[t]
                                \/ rpc'[t].stage \notin Predicted \cup {"ok"}
                                \/ /\ rpc'[t].stage = "wait" /\ At("record")
                                   /\ rpc'[t].file = Records(driver) /\ rpc'[t].pos = pos,
             \/ at' = 0
             \/ session' \in Line /\ rpc'[session'].stage # "ok"
             \/ UNCHANGED <<loop, at>>
      PROVE  PredictInv'
  <2>1. /\ recP' = recP /\ recF' = recF
        /\ Records(driver) /\ At("record") => recP[pos] # Nobody
    BY <1>4 DEF recs, PredictInv
  <2>2. OutcomePredicted'
    BY <2>1 DEF PredictInv, OutcomePredicted
  <2>3. ASSUME NEW t \in Line, rpc'[t].file, rpc'[t].stage \in Predicted PROVE recP'[rpc'[t].pos] # Nobody
    BY <1>4, <2>1, <2>3 DEF PredictInv
  <2>4. ASSUME NEW t \in Line, rpc'[t].stage = "rename" PROVE rpc'[t].file
    BY <1>4, <2>4 DEF PredictInv, Predicted
  <2>5. ASSUME Records(driver'), At("pull")', rpc'[session'].stage = "ok" PROVE recP'[pos'] # Nobody
    <3>1. at' # 0
      <4>1. ControlOK'
        BY NextMoves, ControlStep
      <4> QED
        BY <2>5, <4>1, AtRunsNext
    <3>2. UNCHANGED <<loop, at>>
      BY <1>4, <2>5, <3>1
    <3>3. driver' = driver /\ session' = session /\ pos' = pos /\ At("pull")
      BY <2>5, <3>2 DEF loop, At
    <3>4. session \in Line
      BY <1>1, <3>1, <3>2
    <3>5. rpc'[session] = rpc[session]
      BY <1>4, <2>5, <3>3, <3>4 DEF Predicted
    <3> QED
      BY <2>1, <2>5, <3>3, <3>5 DEF PredictInv
  <2> QED
    BY <1>2, <2>2, <2>3, <2>4, <2>5 DEF PredictInv
<1>5. "idle" \notin Predicted \cup {"ok"} /\ "failed" \notin Predicted \cup {"ok"}
  BY DEF Predicted
<1>6. ASSUME NEW calls, AgentCrash(calls) PROVE PredictInv'
  <2>1. /\ UNCHANGED <<loop, at>> /\ UNCHANGED recs
        /\ rpc' = [s \in Line |->
             IF rpc[s].stage \in calls THEN [rpc[s] EXCEPT !.stage = "failed"] ELSE rpc[s]]
    BY <1>6 DEF AgentCrash
  <2>2. \A t \in Line : rpc'[t] = rpc[t] \/ rpc'[t].stage = "failed"
    BY <2>1 DEF RpcOK, Call
  <2> QED
    BY <1>4, <1>5, <2>1, <2>2
<1>7. CASE Step
  <2>1. UNCHANGED recs /\ session \in Line
    BY <1>1, <1>7, StepRecs, StepRuns
  <2>2. ASSUME NEW step, NEW stage, Request(step, stage), stage \notin Predicted \cup {"ok"} PROVE PredictInv'
    <3>1. UNCHANGED <<loop, at>> /\ \A t \in Line : rpc'[t] = rpc[t] \/ rpc'[t].stage = stage
      BY <2>1, <2>2 DEF Request, Calls, RpcOK
    <3> QED
      BY <1>4, <2>1, <2>2, <3>1
  <2>3. CASE Request("record", "wait")
    <3>1. /\ UNCHANGED <<loop, at>> /\ At("record")
          /\ \A t \in Line : \/ rpc'[t] = rpc[t]
                                \/ /\ rpc'[t].stage = "wait"
                                   /\ rpc'[t].file = Records(driver) /\ rpc'[t].pos = pos
      BY <2>1, <2>3 DEF Request, Calls, RpcOK
    <3> QED
      BY <1>4, <2>1, <3>1
  <2>4. CASE rpc' = [rpc EXCEPT ![session] = Idle] /\ session' = session
    <3>1. /\ \A t \in Line : rpc'[t] = rpc[t] \/ rpc'[t].stage = "idle"
          /\ rpc'[session'].stage = "idle" /\ session' \in Line
      BY <1>1, <2>1, <2>4 DEF RpcOK
    <3> QED
      BY <1>4, <1>5, <2>1, <3>1
  <2>5. CASE rpc' = rpc /\ rpc[session].stage = "idle" /\ session' = session
    BY <1>4, <2>1, <2>5
  <2>6. "del" \notin Predicted \cup {"ok"} /\ "inspect" \notin Predicted \cup {"ok"}
    BY DEF Predicted
  <2> QED
    BY <1>7, <2>2, <2>3, <2>4, <2>5, <2>6, StepCalls
<1>8. CASE StartDriver
  <2>1. session' = session + 1 /\ session < MaxSession /\ rpc' = rpc /\ UNCHANGED recs
    BY <1>8 DEF StartDriver
  <2>2. session' \in (session + 1)..MaxSession /\ session' \in Line
    BY <2>1, Constants DEF ControlOK, Line
  <2>3. rpc'[session'].stage = "idle"
    BY <1>1, <2>1, <2>2 DEF RpcOK
  <2> QED
    BY <1>4, <2>1, <2>2, <2>3
<1>9. CASE Kill
  BY <1>4, <1>9 DEF Kill, Stop
<1>10. ASSUME Finished \/ UNCHANGED vars PROVE PredictInv'
  BY <1>4, <1>10 DEF Finished, vars
<1>11. ASSUME NEW c \in Name, ContainerExit(c) PROVE PredictInv'
  BY <1>4, <1>11 DEF ContainerExit
<1>12. CASE LoseConnection
  <2>1. UNCHANGED <<loop, at>> /\ UNCHANGED recs
    BY <1>12 DEF LoseConnection
  <2>2. PICK k \in Line :
          /\ session \in Line /\ k # session
          /\ rpc'[k] = rpc[session] /\ rpc'[session] = [rpc[session] EXCEPT !.stage = "failed"]
          /\ \A t \in Line \ {k, session} : rpc'[t] = rpc[t]
    BY <1>12, LostCall
  <2>3. rpc'[session].stage = "failed"
    BY <2>2 DEF RpcOK, Call
  <2>4. \A t \in Line : rpc'[t].stage = "failed" \/ \E u \in Line : rpc'[t] = rpc[u]
    BY <2>2, <2>3
  <2>5. /\ \A t \in Line : rpc'[t].file /\ rpc'[t].stage \in Predicted => recP[rpc'[t].pos] # Nobody
        /\ \A t \in Line : rpc'[t].stage = "rename" => rpc'[t].file
    BY <1>5, <2>4 DEF PredictInv
  <2>6. recP' = recP /\ recF' = recF /\ session' = session
    BY <2>1 DEF recs, loop
  <2> QED
    BY <1>2, <2>3, <2>5, <2>6 DEF PredictInv, OutcomePredicted
<1> QED
  BY <1>3, <1>6, <1>7, <1>8, <1>9, <1>10, <1>11, <1>12, Zenon DEF Next

-----------------------------------------------------------------------------
(* What a row is about. *)

Carrying == {"create", "start", "ok"}

RunInv ==
  /\ At("pull") \/ At("wait") => src[alias].id = This
  /\ At("pull") /\ rpc[session].stage \in Carrying => rpc[session].id = This
  /\ RecordsThisRun

\* What becomes of the driver's own call.
LEMMA OwnCall ==
  ASSUME Types, CallInv, [Next]_vars, at' # 0
  PROVE  \/ UNCHANGED <<loop, at>> /\ session \in Line /\ Agent(session)
         \/ rpc'[session'].stage \in {"idle", "del", "inspect", "wait", "failed"}
         \/ UNCHANGED <<loop, at>> /\ rpc'[session] = rpc[session]
<1> USE DEF Types
<1>1. /\ Idle.stage = "idle"
      /\ at # 0 => session \in Line
  BY ThisOrigin DEF Idle
<1>2. ASSUME NEW s \in Line, Agent(s), s # session PROVE UNCHANGED <<loop, at>> /\ rpc'[session] = rpc[session]
  <2>1. UNCHANGED <<loop, at>> /\ \A t \in Line \ {s} : rpc'[t] = rpc[t]
    BY <1>2, AgentKeeps
  <2> QED
    BY <1>1, <1>2, <2>1
<1>3. ASSUME NEW s \in Line, Agent(s) PROVE UNCHANGED <<loop, at>>
  BY <1>3, AgentKeeps
<1>4. ASSUME NEW calls, AgentCrash(calls)
      PROVE  /\ UNCHANGED <<loop, at>>
             /\ rpc'[session'].stage = "failed" \/ rpc'[session] = rpc[session]
  <2>1. /\ UNCHANGED <<loop, at>>
        /\ rpc' = [s \in Line |->
             IF rpc[s].stage \in calls THEN [rpc[s] EXCEPT !.stage = "failed"] ELSE rpc[s]]
    BY <1>4 DEF AgentCrash
  <2>2. session' = session /\ session \in Line
    BY <1>1, <2>1 DEF loop
  <2> QED
    BY <2>1, <2>2 DEF RpcOK, Call
<1>5. CASE Step
  <2>1. session \in Line
    BY <1>1, <1>5, StepRuns
  <2>2. ASSUME NEW step, NEW stage, Request(step, stage) PROVE rpc'[session'].stage = stage
    BY <2>1, <2>2 DEF Request, Calls, RpcOK, loop
  <2>3. ASSUME rpc' = [rpc EXCEPT ![session] = Idle] \/ (rpc' = rpc /\ rpc[session].stage = "idle"), session' = session
        PROVE  rpc'[session'].stage = "idle"
    BY <1>1, <2>1, <2>3 DEF RpcOK
  <2> QED
    BY <1>5, <2>2, <2>3, StepCalls
<1>6. CASE StartDriver
  <2>1. session' = session + 1 /\ session < MaxSession /\ rpc' = rpc
    BY <1>6 DEF StartDriver
  <2>2. session' \in (session + 1)..MaxSession
    BY <2>1, Constants DEF ControlOK
  <2> QED
    BY <1>1, <2>1, <2>2 DEF RpcOK
<1>7. ~Kill
  BY DEF Kill, Stop
<1>8. ASSUME Finished \/ UNCHANGED vars PROVE UNCHANGED <<loop, at>> /\ rpc'[session] = rpc[session]
  BY <1>8 DEF Finished, vars
<1>9. ASSUME NEW c \in Name, ContainerExit(c) PROVE UNCHANGED <<loop, at>> /\ rpc'[session] = rpc[session]
  BY <1>9 DEF ContainerExit
<1>10. CASE LoseConnection
  <2>1. session' = session
    BY <1>10 DEF LoseConnection, loop
  <2>2. rpc'[session] = [rpc[session] EXCEPT !.stage = "failed"] /\ session \in Line
    BY <1>10, LostCall
  <2> QED
    BY <2>1, <2>2 DEF RpcOK, Call
<1> QED
  BY <1>2, <1>3, <1>4, <1>5, <1>6, <1>7, <1>8, <1>9, <1>10, Zenon DEF Next

LEMMA SourceIds ==
  ASSUME Types, [Next]_vars
  PROVE  \/ \A c \in Name : src'[c].id = src[c].id
         \/ ResetSource \/ DockerRun \/ WaitOnSource
<1>1. ASSUME NEW c \in Name, src' = [src EXCEPT ![c].st = "exited"] PROVE \A d \in Name : src'[d].id = src[d].id
  BY <1>1 DEF Types, HostsOK, Container
<1> QED
  BY <1>1, SourceMoves

\* At the pull or the wait, the container is the one that the driver has just run.
LEMMA BeforePull ==
  ASSUME Types, RunInv, [Next]_vars, NEW step \in {"pull", "wait"}, At(step)'
  PROVE  src'[alias'].id = This'
<1> USE DEF Types
<1>1. CASE At(step) /\ UNCHANGED <<loop, at, local>>
  <2>1. alias' = alias /\ This' = This /\ alias \in Name
    BY <1>1, ThisOrigin DEF loop, alias, This
  <2>2. at' = at /\ at \in Nat /\ at # End
    BY <1>1, EndNotZero DEF At
  <2>3. ~ResetSource /\ ~DockerRun /\ ~WaitOnSource
    <3>1. ASSUME ResetSource \/ DockerRun \/ WaitOnSource PROVE at' = at + 1 \/ at' = End
      BY <3>1 DEF ResetSource, DockerRun, RunFailed, WaitOnSource, GoOn, Continue
    <3> QED
      BY <2>2, <3>1
  <2> QED
    BY <1>1, <2>1, <2>3, SourceIds DEF RunInv
<1>2. CASE /\ Step /\ at' = at + 1 /\ UNCHANGED loop
           /\ \E before \in StepName : At(before) /\ <<before, step>> \in Sequel
  <2>1. DockerRun
    BY <1>2, StepAt DEF Sequel
  <2>2. at' # End
    BY <1>2, EndNotZero DEF At, loop
  <2>3. alias' = alias /\ This' = This /\ alias \in Name
    BY <1>2, ThisOrigin DEF loop, alias, This
  <2>4. src' = [src EXCEPT ![alias] = [st |-> "running", id |-> This]]
    BY <2>1, <2>2 DEF DockerRun, RunFailed, Continue
  <2> QED
    BY <2>3, <2>4 DEF HostsOK
<1> QED
  BY <1>1, <1>2, Arrival DEF Late

LEMMA BeforeAnswer ==
  ASSUME Types, CallInv, RunInv, [Next]_vars, At("pull")', rpc'[session'].stage \in Carrying
  PROVE  rpc'[session'].id = This'
<1> USE DEF Types
<1>1. at' # 0
  BY NextMoves, ControlStep, AtRunsNext
<1>2. rpc'[session'].stage \notin {"idle", "del", "inspect", "wait", "failed"}
  BY DEF Carrying
<1>3. UNCHANGED <<loop, at>> /\ session' = session /\ At("pull") /\ This' = This
  <2>1. UNCHANGED <<loop, at>>
    BY <1>1, <1>2, OwnCall
  <2> QED
    BY <2>1 DEF loop, This, At
<1>4. CASE rpc'[session] = rpc[session]
  BY <1>3, <1>4 DEF RunInv
<1>5. CASE session \in Line /\ Agent(session)
  <2>1. rpc[session].stage # "idle"
    BY <1>5, AgentKeeps DEF InProgress, OnRegistry, OnDestination, SetBW
  <2>2. rpc[session].stage \in PullCall /\ Called(session) = alias
    BY <1>1, <1>3, <2>1 DEF CallInv, At, Called, alias
  <2>3. CASE SetBandwidthLimit(session)
    <3>1. rpc[session].stage \in OnRegistry
      BY <2>3, Zenon DEF SetBandwidthLimit, OnRegistry
    <3> QED
      BY <2>2, <3>1 DEF OnRegistry, SetBW, PullCall
  <2>4. CASE RecordWait(session) \/ RenameRecordFile(session) \/ DeferredReset(session)
    <3>1. rpc[session].stage \in {"wait", "rename", "wipe"}
      BY <2>4, Zenon DEF RecordWait, RenameRecordFile, DeferredReset
    <3> QED
      BY <2>2, <3>1 DEF PullCall
  <2>5. CASE PullInspect(session)
    <3>1. Goto(session, "checkpoint") \/ Goto(session, "failed")
      BY <2>5 DEF PullInspect
    <3>2. rpc'[session].stage \in {"checkpoint", "failed"}
      BY <1>5, <3>1, GotoStage
    <3> QED
      BY <1>3, <3>2 DEF Carrying
  <2>6. CASE CheckpointContainer(session)
    <3>1. Goto(session, "failed") \/ rpc' = [rpc EXCEPT ![session].stage = "create", ![session].id = src[alias].id]
      BY <2>2, <2>6 DEF CheckpointContainer, SendCheckpoint
    <3>2. ~Goto(session, "failed")
      BY <1>2, <1>3, <1>5, GotoStage
    <3>3. rpc'[session].id = src[alias].id
      BY <1>5, <3>1, <3>2 DEF RpcOK, Call
    <3> QED
      BY <1>3, <3>3 DEF RunInv
  <2>7. CASE ContainerCreate(session) \/ ContainerStart(session)
    <3>1. rpc[session].stage \in Carrying /\ \E stage \in {"start", "ok", "failed"} : Goto(session, stage)
      BY <2>7 DEF ContainerCreate, ContainerStart, Reply, Carrying
    <3>2. rpc'[session].id = rpc[session].id
      BY <1>5, <3>1, GotoStage
    <3> QED
      BY <1>3, <3>1, <3>2 DEF RunInv
  <2> QED
    BY <1>5, <2>3, <2>4, <2>5, <2>6, <2>7, Zenon DEF Agent
<1> QED
  BY <1>1, <1>2, <1>4, <1>5, OwnCall

\* What is read of a response stays that of this iteration.
LEMMA BeforeRow ==
  ASSUME Types, RunInv, [Next]_vars, NEW step \in {"record", "keep", "stat", "open", "write"}, At(step)'
  PROVE  res' = This'
<1> USE DEF Types
<1>1. CASE At(step) /\ UNCHANGED <<loop, at, local>>
  BY <1>1 DEF loop, local, This, RunInv, RecordsThisRun
<1>2. ASSUME Step, at' = at + 1, UNCHANGED loop, NEW before \in StepName, At(before), <<before, step>> \in Sequel
      PROVE  res' = This'
  <2>1. at' # at /\ at' # End /\ at' # 0 /\ This' = This
    BY <1>2, NextMoves, ControlStep, AtRuns, AtRunsNext, EndNotZero DEF At, loop, This
  <2>2. CASE before = "pull"
    <3>1. CallPullContainer
      BY <1>2, <2>2, StepAt
    <3>2. Answered("pull", "ok") /\ res' = rpc[session].id
      BY <2>1, <3>1 DEF CallPullContainer, Request, Continue, Stop
    <3> QED
      BY <2>1, <3>2 DEF RunInv, Answered, Carrying
  <2>3. CASE before = "wait"
    <3>1. WaitOnSource
      BY <1>2, <2>3, StepAt
    <3>2. PICK outcome \in Waited(src[alias]) : res' = outcome.con.id
      BY <3>1 DEF WaitOnSource
    <3>3. outcome.con.id = src[alias].id
      BY ThisOrigin, WaitedSame DEF HostsOK
    <3> QED
      BY <1>2, <2>1, <2>3, <3>2, <3>3 DEF RunInv
  <2>4. CASE before \in {"record", "keep", "stat", "open"}
    <3>1. res = This
      BY <1>2, <2>4 DEF RunInv, RecordsThisRun
    <3>2. res' = res
      <4>1. CallRecordFReset \/ ResetSource \/ StatFile \/ OpenFile
        BY <1>2, <2>4, StepAt
      <4> QED
        BY <2>1, <4>1 DEF CallRecordFReset, Request, Stop, ResetSource, StatFile, OpenFile, local
    <3> QED
      BY <2>1, <3>1, <3>2
  <2>5. before \in {"pull", "wait", "record", "keep", "stat", "open"}
    BY <1>2 DEF Sequel
  <2> QED
    BY <2>2, <2>3, <2>4, <2>5
<1> QED
  BY <1>1, <1>2, Arrival DEF Late

LEMMA RunStep ==
  ASSUME Types, CallInv, RunInv, [Next]_vars
  PROVE  RunInv'
<1>1. RecordsThisRun'
  BY BeforeRow DEF RecordsThisRun, At
<1>2. At("pull")' \/ At("wait")' => src'[alias'].id = This'
  BY BeforePull
<1> QED
  BY <1>1, <1>2, BeforeAnswer DEF RunInv

-----------------------------------------------------------------------------
(* The limits. *)

\* What is there after the first k commands of SetBW, and under which rate.
Upto(k) == {SetBW[i] : i \in 2..k}
Limits(shape, k, rate) == shape.has = Upto(k) /\ (k > 2 => shape.rate = rate)

SourceInv ==
  Pulls(driver) /\ tc["source"].sure =>
    /\ \A k \in 1..4 : at = k + 2 => Limits(tc["source"], k, bw)
    /\ at > 6 => Limits(tc["source"], 5, bw)

RegistryInv ==
  at # 0 /\ Pulls(driver) /\ tc["registry"].sure =>
    /\ \A k \in 1..4 : At("limit") /\ rpc[session].stage = SetBW[k + 1] => Limits(tc["registry"], k, bw)
    /\ ~At("limit") \/ rpc[session].stage = "ok" => Limits(tc["registry"], 5, bw)

LEMMA UptoSets ==
  /\ Upto(1) = {} /\ Upto(2) = {"root"} /\ Upto(3) = {"root", "class"}
  /\ Upto(4) = {"root", "class", "netem"} /\ Upto(5) = {"root", "class", "netem", "filter"}
  /\ OnRegistry \ {"del"} = Upto(5)
<1>1. /\ SetBW[2] = "root" /\ SetBW[3] = "class" /\ SetBW[4] = "netem" /\ SetBW[5] = "filter"
      /\ OnRegistry = {"del", "root", "class", "netem", "filter"}
  BY DEF SetBW, OnRegistry
<1>2. 2..1 = {} /\ 2..2 = {2} /\ 2..3 = {2, 3} /\ 2..4 = {2, 3, 4} /\ 2..5 = {2, 3, 4, 5}
  OBVIOUS
<1>3. Upto(1) = {} /\ Upto(2) = {"root"} /\ Upto(3) = {"root", "class"}
  BY <1>1, <1>2 DEF Upto
<1>4. Upto(4) = {"root", "class", "netem"} /\ Upto(5) = {"root", "class", "netem", "filter"}
  BY <1>1, <1>2 DEF Upto
<1>5. OnRegistry \ {"del"} = {"root", "class", "netem", "filter"}
  BY <1>1
<1> QED
  BY <1>3, <1>4, <1>5

\* A command of SetBW adds what it is for.
LEMMA ShapeNext ==
  ASSUME NEW shape \in Shaped, NEW rate, NEW k \in 1..4, Limits(shape, k, rate)
  PROVE  /\ Limits(Shape(shape, SetBW[k + 1], rate), k + 1, rate)
         /\ Shape(shape, SetBW[k + 1], rate).sure = shape.sure
<1>1. k = 1 \/ k = 2 \/ k = 3 \/ k = 4
  OBVIOUS
<1>2. /\ 1 + 1 = 2 /\ 2 + 1 = 3 /\ 3 + 1 = 4 /\ 4 + 1 = 5
      /\ ~(1 > 2) /\ ~(2 > 2) /\ 3 > 2 /\ 4 > 2 /\ 5 > 2
  OBVIOUS
<1>3. /\ SetBW[2] = "root" /\ SetBW[3] = "class" /\ SetBW[4] = "netem" /\ SetBW[5] = "filter"
  BY DEF SetBW
<1>4. CASE k = 1
  <2>1. SetBW[k + 1] = "root" /\ shape.has = {} /\ Upto(k + 1) = {"root"} /\ ~(k + 1 > 2)
    BY <1>2, <1>3, <1>4, UptoSets DEF Limits
  <2>2. /\ Shape(shape, "root", rate).has = {"root"}
        /\ Shape(shape, "root", rate).sure = shape.sure
    BY <2>1 DEF Shape, Added, Accepted, Needs, Shaped
  <2> QED
    BY <2>1, <2>2 DEF Limits
<1>5. CASE k = 2
  <2>1. SetBW[k + 1] = "class" /\ shape.has = {"root"} /\ Upto(k + 1) = {"root", "class"}
    BY <1>2, <1>3, <1>5, UptoSets DEF Limits
  <2>2. /\ Shape(shape, "class", rate).has = {"root", "class"}
        /\ Shape(shape, "class", rate).rate = rate
        /\ Shape(shape, "class", rate).sure = shape.sure
    BY <2>1 DEF Shape, Added, Accepted, Needs, Shaped
  <2> QED
    BY <2>1, <2>2 DEF Limits
<1>6. CASE k = 3
  <2>1. /\ SetBW[k + 1] = "netem" /\ shape.has = {"root", "class"} /\ Upto(k + 1) = {"root", "class", "netem"}
        /\ shape.rate = rate
    BY <1>2, <1>3, <1>6, UptoSets DEF Limits
  <2>2. /\ Shape(shape, "netem", rate).has = {"root", "class", "netem"}
        /\ Shape(shape, "netem", rate).rate = rate
        /\ Shape(shape, "netem", rate).sure = shape.sure
    BY <2>1 DEF Shape, Added, Accepted, Needs, Shaped
  <2> QED
    BY <2>1, <2>2 DEF Limits
<1>7. CASE k = 4
  <2>1. /\ SetBW[k + 1] = "filter" /\ shape.has = {"root", "class", "netem"}
        /\ Upto(k + 1) = {"root", "class", "netem", "filter"} /\ shape.rate = rate
    BY <1>2, <1>3, <1>7, UptoSets DEF Limits
  <2>2. /\ Shape(shape, "filter", rate).has = {"root", "class", "netem", "filter"}
        /\ Shape(shape, "filter", rate).rate = rate
        /\ Shape(shape, "filter", rate).sure = shape.sure
    BY <2>1 DEF Shape, Added, Accepted, Needs, Shaped
  <2> QED
    BY <2>1, <2>2 DEF Limits
<1> QED
  BY <1>1, <1>4, <1>5, <1>6, <1>7

LEMMA ShapeDel ==
  ASSUME NEW shape, NEW rate
  PROVE  Limits(Shape(shape, "del", rate), 1, rate)
<1>1. ~(1 > 2)
  OBVIOUS
<1> QED
  BY <1>1, UptoSets DEF Shape, Unshaped, Limits

\* The places of SetBW's commands.
LEMMA LimitPlaces ==
  ASSUME ControlOK, Pulls(driver)
  PROVE  /\ At("limit") <=> at = 1
         /\ \A k \in 1..5 : At(SetBW[k]) => at = k + 1
<1>1. driver \in DOMAIN Program
  BY EndNotZero
<1>2. /\ SetBW[1] = "del" /\ SetBW[2] = "root" /\ SetBW[3] = "class" /\ SetBW[4] = "netem" /\ SetBW[5] = "filter"
  BY DEF SetBW
<1>3. At("limit") => at = 1
  BY <1>1, PullPlaces, Zenon DEF At
<1>4. at = 1 => At("limit")
  <2>1. 1 \in DOMAIN Program[driver]
    BY EndNotZero
  <2>2. Program[driver][1] = "limit"
    BY <1>1, PullSteps, Zenon
  <2> QED
    BY <2>1, <2>2 DEF At
<1>5. /\ At("del") => at = 2
      /\ At("root") => at = 3
      /\ At("class") => at = 4
      /\ At("netem") => at = 5
      /\ At("filter") => at = 6
  BY <1>1, PullPlaces, Zenon DEF At
<1>6. ASSUME NEW k \in 1..5, At(SetBW[k]) PROVE at = k + 1
  <2>1. k = 1 \/ k = 2 \/ k = 3 \/ k = 4 \/ k = 5
    OBVIOUS
  <2>2. 1 + 1 = 2 /\ 2 + 1 = 3 /\ 3 + 1 = 4 /\ 4 + 1 = 5 /\ 5 + 1 = 6
    OBVIOUS
  <2> QED
    BY <1>2, <1>5, <1>6, <2>1, <2>2, Zenon
<1> QED
  BY <1>3, <1>4, <1>6

\* What a command on the registry's host makes of its traffic control.
LEMMA RegistryShape ==
  ASSUME NEW s, SetBandwidthLimit(s)
  PROVE  \E k \in 1..5 : \E shape :
           /\ rpc[s].stage = SetBW[k]
           /\ shape = Foreign(s, Shape(tc["registry"], SetBW[k], Bandwidth[rpc[s].pos.bw]))
           /\ \/ tc' = [tc EXCEPT !["registry"] = shape]
              \/ tc' = [tc EXCEPT !["registry"].sure = FALSE]
           /\ \/ Goto(s, IF k < 5 THEN SetBW[k + 1] ELSE "ok")
              \/ k = 5 /\ Goto(s, "failed")
<1>1. DOMAIN SetBW = 1..5 /\ Len(SetBW) = 5
  BY DEF SetBW
<1>2. PICK k \in DOMAIN SetBW :
        LET shape == Foreign(s, Shape(tc["registry"], SetBW[k], Bandwidth[rpc[s].pos.bw]))
        IN /\ rpc[s].stage = SetBW[k]
           /\ \/ /\ Tc("registry", SetBW[k], shape)
                 /\ Goto(s, IF k < Len(SetBW) THEN SetBW[k + 1] ELSE "ok")
              \/ /\ k = Len(SetBW)
                 /\ tc' = [tc EXCEPT !["registry"] = shape]
                 /\ Goto(s, "failed")
  BY Zenon DEF SetBandwidthLimit
<1> DEFINE shape == Foreign(s, Shape(tc["registry"], SetBW[k], Bandwidth[rpc[s].pos.bw]))
<1>3. k \in 1..5 /\ rpc[s].stage = SetBW[k]
  BY <1>1, <1>2
<1>4. /\ \/ Tc("registry", SetBW[k], shape) /\ Goto(s, IF k < 5 THEN SetBW[k + 1] ELSE "ok")
         \/ k = 5 /\ tc' = [tc EXCEPT !["registry"] = shape] /\ Goto(s, "failed")
  BY <1>1, <1>2, Zenon
<1> HIDE DEF shape
<1>5. /\ \/ tc' = [tc EXCEPT !["registry"] = shape]
         \/ tc' = [tc EXCEPT !["registry"].sure = FALSE]
      /\ \/ Goto(s, IF k < 5 THEN SetBW[k + 1] ELSE "ok")
         \/ k = 5 /\ Goto(s, "failed")
  BY <1>4, Zenon DEF Tc
<1>6. shape = Foreign(s, Shape(tc["registry"], SetBW[k], Bandwidth[rpc[s].pos.bw]))
  BY DEF shape
<1> QED
  BY <1>3, <1>5, <1>6, Zenon

\* Where the source's limit is set, and by what.
LEMMA NextSource ==
  ASSUME Types, [Next]_vars
  PROVE  tc'["source"] = tc["source"] \/ ShapeSource
<1> USE DEF Types
<1>1. ASSUME NEW s \in Line, Agent(s) PROVE tc'["source"] = tc["source"]
  <2>1. CASE SetBandwidthLimit(s)
    <3>1. \E shape : \/ tc' = [tc EXCEPT !["registry"] = shape]
                     \/ tc' = [tc EXCEPT !["registry"].sure = FALSE]
      BY <2>1, RegistryShape
    <3> QED
      BY <3>1 DEF TcOK
  <2> QED
    BY <1>1, <2>1, AgentFrame
<1>2. ASSUME StartDriver \/ Kill \/ Finished \/ AgentCrash(OnDestination) \/ AgentCrash(OnRegistry) \/ LoseConnection \/ UNCHANGED vars
      PROVE  UNCHANGED tc
  BY <1>2 DEF StartDriver, Kill, Finished, AgentCrash, LoseConnection, vars
<1>3. ASSUME NEW c \in Name, ContainerExit(c) PROVE UNCHANGED tc
  BY <1>3 DEF ContainerExit
<1>4. ASSUME NextIteration \/ CallSetBandwidthLimit \/ ResetSource \/ DockerRun \/ WaitOnSource
      PROVE  UNCHANGED tc
  BY <1>4 DEF NextIteration, CallSetBandwidthLimit, Request, ResetSource, DockerRun, WaitOnSource
<1>5. ASSUME CallPullContainer \/ CallRecordFReset \/ StatFile \/ OpenFile \/ WriteRow
      PROVE  UNCHANGED tc
  BY <1>5 DEF CallPullContainer, CallRecordFReset, Request, StatFile, OpenFile, WriteRow
<1> QED
  BY <1>1, <1>2, <1>3, <1>4, <1>5, Zenon DEF Next, Step

\* The steps of a driver that leave its limits.
Rest ==
  ResetSource \/ DockerRun \/ CallPullContainer \/ CallRecordFReset \/ WaitOnSource
    \/ StatFile \/ OpenFile \/ WriteRow

LEMMA RestStep ==
  ASSUME Types, Rest
  PROVE  /\ at # 0 /\ at # End /\ UNCHANGED <<loop, tc>>
         /\ ~At("limit") /\ \A k \in DOMAIN SetBW : ~At(SetBW[k])
         /\ at' \in {at, at + 1, End, 0}
<1> USE DEF Types
<1>1. UNCHANGED <<loop, tc>> /\ at' \in {at, at + 1, End, 0}
  <2>1. CASE ResetSource \/ DockerRun \/ WaitOnSource
    BY <2>1 DEF ResetSource, DockerRun, RunFailed, WaitOnSource, GoOn, Continue
  <2>2. CASE CallPullContainer \/ CallRecordFReset
    BY <2>2 DEF CallPullContainer, CallRecordFReset, Request, GoOn, Continue, Stop
  <2>3. CASE StatFile \/ OpenFile \/ WriteRow
    BY <2>3 DEF StatFile, OpenFile, WriteRow, GoOn, Continue
  <2> QED
    BY <2>1, <2>2, <2>3, Zenon DEF Rest
<1>2. PICK step \in {"stargz", "overlay", "keep", "run", "wait", "pull", "record", "stat", "open", "write"} : At(step)
  BY DEF Rest, ResetSource, DockerRun, CallPullContainer, CallRecordFReset, Request, Answered, WaitOnSource,
     StatFile, OpenFile, WriteRow
<1>3. \A k \in DOMAIN SetBW : SetBW[k] \in {"del", "root", "class", "netem", "filter"}
  BY DEF SetBW
<1>4. ~At("limit") /\ \A k \in DOMAIN SetBW : ~At(SetBW[k])
  BY <1>2, <1>3 DEF At
<1> QED
  BY <1>1, <1>2, <1>4, AtRuns

\* One of SetBW's commands on the source.
LEMMA SourceCommand ==
  ASSUME Types, Pulls(driver), SourceInv, ShapeSource
  PROVE  SourceInv'
<1> USE DEF Types
<1>1. PICK k \in 1..5 : At(SetBW[k]) /\ Tc("source", SetBW[k], Shape(tc["source"], SetBW[k], bw))
  <2>1. DOMAIN SetBW = 1..5
    BY DEF SetBW
  <2> QED
    BY <2>1, Zenon DEF ShapeSource
<1>2. at = k + 1 /\ at' = at + 1 /\ UNCHANGED loop
  BY <1>1, LimitPlaces DEF ShapeSource, GoOn
<1>3. driver' = driver /\ bw' = bw
  BY <1>2 DEF loop, bw
<1>4. CASE tc' = [tc EXCEPT !["source"].sure = FALSE]
  BY <1>4 DEF SourceInv, TcOK, Shaped
<1>5. CASE tc' = [tc EXCEPT !["source"] = Shape(tc["source"], SetBW[k], bw)]
  <2> DEFINE shape == tc["source"]
  <2>1. shape \in Shaped /\ tc'["source"] = Shape(shape, SetBW[k], bw)
    BY <1>5 DEF TcOK
  <2>2. CASE k = 1
    <3>1. Limits(tc'["source"], 1, bw) /\ at' = 3
      BY <1>2, <2>1, <2>2, ShapeDel DEF SetBW
    <3>2. \A j \in 1..4 : at' = j + 2 => j = 1
      BY <3>1
    <3>3. ~(at' > 6)
      BY <3>1
    <3> QED
      BY <1>3, <3>1, <3>2, <3>3 DEF SourceInv
  <2>3. CASE k # 1
    <3> DEFINE i == k - 1
    <3>1. i \in 1..4 /\ i + 1 = k /\ at = i + 2 /\ at' = i + 3
      BY <1>2, <2>3
    <3> HIDE DEF i
    <3>2. ASSUME tc'["source"].sure PROVE Limits(tc'["source"], i + 1, bw)
      <4>1. CASE shape.sure
        <5>1. Limits(shape, i, bw)
          BY <3>1, <4>1 DEF SourceInv
        <5>2. Limits(Shape(shape, SetBW[i + 1], bw), i + 1, bw)
          BY <2>1, <3>1, <5>1, ShapeNext
        <5> QED
          BY <2>1, <3>1, <5>2
      <4>2. CASE ~shape.sure
        <5>1. SetBW[k] # "del"
          BY <2>3 DEF SetBW
        <5>2. Shape(shape, SetBW[k], bw).sure = shape.sure
          BY <2>1, <5>1 DEF Shape, Added, Shaped
        <5> QED
          BY <2>1, <3>2, <4>2, <5>2
      <4> QED
        BY <4>1, <4>2
    <3>3. \A j \in 1..4 : at' = j + 2 => j = i + 1
      BY <3>1
    <3>4. at' > 6 => i + 1 = 5
      BY <3>1
    <3> QED
      BY <1>3, <3>2, <3>3, <3>4 DEF SourceInv
  <2> QED
    BY <2>2, <2>3
<1> QED
  BY <1>1, <1>4, <1>5 DEF Tc

\* Where the loops go, the limit is there already or about to be set.
LEMMA LoopLimit ==
  ASSUME Types, NextIteration, at' # 0, Pulls(driver)
  PROVE  driver' = driver /\ (at' = 1 \/ (at' = 7 /\ bw' = bw))
<1>1. pos # Last /\ driver' = driver /\ pos' = After(pos) /\ Body(driver) = 7
      /\ at' = IF After(pos).bw # pos.bw THEN 1 ELSE Body(driver)
  BY Ends, EndNotZero DEF Types, NextIteration, Stop, Begin
<1> QED
  BY <1>1 DEF bw

LEMMA RestPlaces ==
  ASSUME Types, Rest, Pulls(driver)
  PROVE  at > 6 /\ (at' = 0 \/ at' > 6)
<1>1. /\ at \in DOMAIN Program[driver] /\ driver \in DOMAIN Program
      /\ ~At("limit") /\ \A k \in DOMAIN SetBW : ~At(SetBW[k])
      /\ at' \in {at, at + 1, End, 0}
  <2>1. at \in 1..Len(Program[driver])
    BY RestStep, Ends, EndNotZero DEF Types, ControlOK, End
  <2> QED
    BY <2>1, RestStep, Ends, EndNotZero DEF Types
<1>2. ~At("limit") /\ ~At("del") /\ ~At("root") /\ ~At("class") /\ ~At("netem") /\ ~At("filter")
  BY <1>1 DEF SetBW
<1>3. at = 7 \/ at = 8 \/ at = 9 \/ at = 10 \/ at = 11 \/ at = 12 \/ at = 13
  BY <1>1, <1>2, PullPlaces, Zenon DEF At
<1>4. End > 6
  <2> DEFINE n == Len(Program[driver])
  <2>1. n \in Nat /\ n > 9 /\ End = n + 1
    BY <1>1, Ends DEF End
  <2> HIDE DEF n
  <2> QED
    BY <2>1
<1> QED
  BY <1>1, <1>3, <1>4

LEMMA SourceStep ==
  ASSUME Types, SourceInv, [Next]_vars
  PROVE  SourceInv'
<1> USE DEF Types
<1>1. ASSUME tc'["source"] = tc["source"], UNCHANGED loop,
             \/ at' = at
             \/ at' \in {0, 1, 2}
             \/ Pulls(driver) => at > 6 /\ at' > 6
      PROVE  SourceInv'
  <2>1. driver' = driver /\ bw' = bw
    BY <1>1 DEF loop, bw
  <2>2. CASE at' = at
    BY <1>1, <2>1, <2>2 DEF SourceInv
  <2>3. CASE at' \in {0, 1, 2}
    BY <2>3 DEF SourceInv
  <2>4. CASE Pulls(driver) => at > 6 /\ at' > 6
    <3>1. Pulls(driver) /\ tc["source"].sure => Limits(tc["source"], 5, bw)
      BY <2>4 DEF SourceInv
    <3>2. \A k \in 1..4 : at' > 6 => at' # k + 2
      OBVIOUS
    <3> QED
      BY <1>1, <2>1, <2>4, <3>1, <3>2 DEF SourceInv
  <2> QED
    BY <1>1, <2>2, <2>3, <2>4
<1>2. ASSUME at' \in {0, 1} PROVE SourceInv'
  BY <1>2 DEF SourceInv
<1>3. ASSUME NEW s \in Line, Agent(s) PROVE SourceInv'
  <2>1. UNCHANGED <<loop, at>> /\ ~ShapeSource
    <3>1. UNCHANGED <<loop, at>>
      BY <1>3, AgentKeeps
    <3>2. at \in Nat
      BY EndNotZero DEF ControlOK
    <3>3. ShapeSource => at' = at + 1
      BY DEF ShapeSource, GoOn
    <3> QED
      BY <3>1, <3>2, <3>3
  <2> QED
    BY <1>1, <2>1, NextSource
<1>4. ASSUME Finished \/ AgentCrash(OnDestination) \/ AgentCrash(OnRegistry) \/ LoseConnection \/ UNCHANGED vars
      PROVE  SourceInv'
  BY <1>1, <1>4 DEF Finished, AgentCrash, LoseConnection, vars
<1>5. ASSUME NEW c \in Name, ContainerExit(c) PROVE SourceInv'
  BY <1>1, <1>5 DEF ContainerExit
<1>6. CASE StartDriver \/ Kill
  BY <1>2, <1>6 DEF StartDriver, Kill, Stop
<1>7. CASE NextIteration
  <2>1. UNCHANGED tc /\ at = End
    BY <1>7 DEF NextIteration
  <2>2. CASE at' = 0 \/ ~Pulls(driver)
    <3>1. at' = 0 \/ driver' = driver
      BY <1>7 DEF NextIteration, Begin, Stop, loop
    <3> QED
      BY <1>2, <2>2, <3>1 DEF SourceInv
  <2>3. CASE at' # 0 /\ Pulls(driver)
    <3>1. driver' = driver /\ (at' = 1 \/ (at' = 7 /\ bw' = bw))
      BY <1>7, <2>3, LoopLimit
    <3>2. at > 6
      <4> DEFINE n == Len(Program[driver])
      <4>1. n \in Nat /\ n > 9 /\ End = n + 1
        BY <2>3, Ends, EndNotZero DEF End
      <4> HIDE DEF n
      <4> QED
        BY <2>1, <4>1
    <3>3. tc["source"].sure => Limits(tc["source"], 5, bw)
      BY <2>3, <3>2 DEF SourceInv
    <3>4. \A k \in 1..4 : 7 # k + 2
      OBVIOUS
    <3> QED
      BY <1>2, <2>1, <2>3, <3>1, <3>3, <3>4 DEF SourceInv
  <2> QED
    BY <2>2, <2>3
<1>8. CASE CallSetBandwidthLimit
  <2>1. UNCHANGED tc /\ At("limit") /\ driver' = driver
        /\ ((UNCHANGED loop /\ at' \in {at, at + 1, 0}) \/ at' = 1)
    BY <1>8 DEF CallSetBandwidthLimit, Request, Answered, Begin, Stop, GoOn, loop
  <2>2. CASE Pulls(driver)
    <3>1. at = 1
      BY <2>1, <2>2, LimitPlaces
    <3>2. at' \in {0, 1, 2}
      BY <2>1, <3>1
    <3> QED
      BY <3>2 DEF SourceInv
  <2>3. CASE ~Pulls(driver)
    BY <2>1, <2>3 DEF SourceInv
  <2> QED
    BY <2>2, <2>3
<1>9. CASE ShapeSource
  <2>1. driver' = driver
    BY <1>9 DEF ShapeSource, loop
  <2> QED
    BY <1>9, <2>1, SourceCommand DEF SourceInv
<1>10. CASE Rest
  <2>1. UNCHANGED <<loop, tc>>
    BY <1>10, RestStep
  <2>2. Pulls(driver) => at > 6 /\ (at' = 0 \/ at' > 6)
    BY <1>10, RestPlaces
  <2> QED
    BY <1>1, <2>1, <2>2
<1> QED
  BY <1>3, <1>4, <1>5, <1>6, <1>7, <1>8, <1>9, <1>10, Zenon DEF Next, Step, Rest

LEMMA NextRegistry ==
  ASSUME Types, [Next]_vars
  PROVE  tc'["registry"] = tc["registry"] \/ \E s \in Line : SetBandwidthLimit(s)
<1> USE DEF Types
<1>1. ASSUME NEW s \in Line, Agent(s) PROVE SetBandwidthLimit(s) \/ UNCHANGED tc
  BY <1>1, AgentFrame, Zenon
<1>2. ASSUME StartDriver \/ Kill \/ Finished \/ AgentCrash(OnDestination) \/ AgentCrash(OnRegistry) \/ LoseConnection \/ UNCHANGED vars
      PROVE  UNCHANGED tc
  BY <1>2 DEF StartDriver, Kill, Finished, AgentCrash, LoseConnection, vars
<1>3. ASSUME NEW c \in Name, ContainerExit(c) PROVE UNCHANGED tc
  BY <1>3 DEF ContainerExit
<1>4. ASSUME NextIteration \/ CallSetBandwidthLimit PROVE UNCHANGED tc
  BY <1>4 DEF NextIteration, CallSetBandwidthLimit, Request
<1>5. CASE Rest
  BY <1>5, RestStep
<1>6. CASE ShapeSource
  BY <1>6 DEF ShapeSource, Tc, TcOK
<1> QED
  BY <1>1, <1>2, <1>3, <1>4, <1>5, <1>6, Zenon DEF Next, Step, Rest

\* One of SetBW's commands on the registry's host, for the driver's call.
LEMMA RegistryCommand ==
  ASSUME Types, CallInv, RegistryInv, at # 0, session \in Line, SetBandwidthLimit(session)
  PROVE  RegistryInv'
<1> USE DEF Types
<1>1. PICK k \in 1..5 :
        /\ rpc[session].stage = SetBW[k]
        /\ \/ tc' = [tc EXCEPT !["registry"] =
                               Foreign(session, Shape(tc["registry"], SetBW[k], Bandwidth[rpc[session].pos.bw]))]
           \/ tc' = [tc EXCEPT !["registry"].sure = FALSE]
        /\ \/ Goto(session, IF k < 5 THEN SetBW[k + 1] ELSE "ok")
           \/ k = 5 /\ Goto(session, "failed")
  BY RegistryShape
<1>2. SetBW[k] \in {"del", "root", "class", "netem", "filter"}
  BY DEF SetBW
<1>3. At("limit") /\ Bandwidth[rpc[session].pos.bw] = bw
  BY <1>1, <1>2 DEF CallInv, PullCall, RecordCall, bw
<1>4. UNCHANGED <<loop, at>>
  BY AgentFrame DEF Agent
<1>5. driver' = driver /\ bw' = bw /\ session' = session /\ At("limit")'
  BY <1>3, <1>4 DEF loop, bw, At
<1>6. \/ k < 5 /\ rpc'[session].stage = SetBW[k + 1]
      \/ k = 5 /\ rpc'[session].stage \in {"ok", "failed"}
  BY <1>1, GotoStage
<1>8. CASE tc' = [tc EXCEPT !["registry"].sure = FALSE]
  BY <1>8 DEF RegistryInv, TcOK, Shaped
<1>9. CASE tc' = [tc EXCEPT !["registry"] = Shape(tc["registry"], SetBW[k], bw)]
  <2> DEFINE shape == tc["registry"]
  <2>1. shape \in Shaped /\ tc'["registry"] = Shape(shape, SetBW[k], bw)
    BY <1>9 DEF TcOK
  <2> SUFFICES ASSUME Pulls(driver), tc'["registry"].sure
               PROVE  /\ \A j \in 1..4 : rpc'[session].stage = SetBW[j + 1] => Limits(tc'["registry"], j, bw)
                      /\ rpc'[session].stage = "ok" => Limits(tc'["registry"], 5, bw)
    BY <1>5 DEF RegistryInv
  <2>2. CASE k = 1
    <3>1. Limits(tc'["registry"], 1, bw) /\ rpc'[session].stage = "root"
      BY <1>6, <2>1, <2>2, ShapeDel DEF SetBW
    <3>2. \A j \in 1..4 : SetBW[j + 1] = "root" => j = 1
      BY DEF SetBW
    <3> QED
      BY <3>1, <3>2
  <2>3. CASE k # 1
    <3> DEFINE i == k - 1
    <3>1. i \in 1..4 /\ i + 1 = k
      BY <2>3
    <3> HIDE DEF i
    <3>2. Limits(tc'["registry"], i + 1, bw)
      <4>1. SetBW[k] # "del"
        BY <2>3 DEF SetBW
      <4>2. shape.sure
        BY <2>1, <4>1 DEF Shape, Added, Shaped
      <4>3. Limits(shape, i, bw)
        BY <1>1, <1>3, <3>1, <4>2 DEF RegistryInv
      <4> QED
        BY <2>1, <3>1, <4>3, ShapeNext
    <3>3. ASSUME NEW j \in 1..4, rpc'[session].stage = SetBW[j + 1] PROVE j = i + 1
      <4>1. SetBW[j + 1] \notin {"ok", "failed"}
        BY DEF SetBW
      <4>2. k < 5 /\ SetBW[j + 1] = SetBW[k + 1]
        BY <1>6, <3>3, <4>1
      <4>3. k = 1 \/ k = 2 \/ k = 3 \/ k = 4
        BY <4>2
      <4>4. j = 1 \/ j = 2 \/ j = 3 \/ j = 4
        OBVIOUS
      <4>5. j = k
        <5>1. SetBW[2] = "root" /\ SetBW[3] = "class" /\ SetBW[4] = "netem" /\ SetBW[5] = "filter"
          BY DEF SetBW
        <5>2. 1 + 1 = 2 /\ 2 + 1 = 3 /\ 3 + 1 = 4 /\ 4 + 1 = 5
          OBVIOUS
        <5> HIDE DEF SetBW
        <5> QED
          BY <4>2, <4>3, <4>4, <5>1, <5>2
      <4> QED
        BY <3>1, <4>5
    <3>4. ASSUME rpc'[session].stage = "ok" PROVE i + 1 = 5
      <4>1. k < 5 => SetBW[k + 1] # "ok"
        BY DEF SetBW
      <4> QED
        BY <1>6, <3>1, <3>4, <4>1
    <3> QED
      BY <3>2, <3>3, <3>4
  <2> QED
    BY <2>2, <2>3
<1> QED
  BY <1>1, <1>3, <1>8, <1>9 DEF Foreign

LEMMA LimitPlaceNext ==
  ASSUME ControlOK', Pulls(driver')
  PROVE  At("limit")' <=> at' = 1
<1>1. driver' \in DOMAIN Program
  BY Constants DEF ControlOK
<1>2. At("limit")' => at' = 1
  BY <1>1, PullPlaces, Zenon DEF At
<1>3. at' = 1 => At("limit")'
  <2>1. 1 \in DOMAIN Program[driver']
    BY <1>1, Beginnings
  <2>2. Program[driver'][1] = "limit"
    BY <1>1, PullSteps, Zenon
  <2> QED
    BY <2>1, <2>2 DEF At
<1> QED
  BY <1>2, <1>3

LEMMA RegistryStep ==
  ASSUME Types, CallInv, RegistryInv, [Next]_vars
  PROVE  RegistryInv'
<1> USE DEF Types
<1>1. /\ Idle.stage = "idle"
      /\ at # 0 => session \in Line
  BY ThisOrigin DEF Idle
<1>2. \A k \in 1..4 : SetBW[k + 1] \notin {"idle", "ok", "failed", "del", "inspect", "wait"}
  BY DEF SetBW
\* While the driver is at another step, nothing but its own position matters.
<1>3. ASSUME at # 0, tc'["registry"] = tc["registry"], session' = session, driver' = driver,
             Pulls(driver) => bw' = bw, ~At("limit"),
             At("limit")' => rpc'[session].stage = "idle"
      PROVE  RegistryInv'
  <2> SUFFICES ASSUME at' # 0, Pulls(driver), tc'["registry"].sure
               PROVE  /\ \A k \in 1..4 : At("limit")' /\ rpc'[session].stage = SetBW[k + 1]
                           => Limits(tc'["registry"], k, bw')
                      /\ ~At("limit")' \/ rpc'[session].stage = "ok" => Limits(tc'["registry"], 5, bw')
    BY <1>3 DEF RegistryInv
  <2>1. Limits(tc["registry"], 5, bw)
    BY <1>3 DEF RegistryInv
  <2> QED
    BY <1>2, <1>3, <2>1
\* Nor does anything once it is at the call of SetBandwidthLimit and has not made it.
<1>4. ASSUME At("limit")' /\ rpc'[session'].stage \in {"idle", "del", "failed"}
      PROVE  RegistryInv'
  BY <1>2, <1>4 DEF RegistryInv
<1>5. ASSUME NEW s \in Line, Agent(s) PROVE RegistryInv'
  <2>1. /\ UNCHANGED <<loop, at>>
        /\ rpc[s].stage \in InProgress /\ \A t \in Line \ {s} : rpc'[t] = rpc[t]
    BY <1>5, AgentKeeps
  <2>2. session' = session /\ driver' = driver /\ bw' = bw /\ \A step : At(step)' <=> At(step)
    BY <2>1 DEF loop, bw, At
  <2>3. rpc[s].stage # "idle" /\ rpc'[s].stage # "idle"
    <3>1. rpc[s].stage # "idle"
      BY <2>1 DEF InProgress, OnRegistry, OnDestination, SetBW
    <3>2. PICK c \in Call : c.stage # "idle" /\ rpc' = [rpc EXCEPT ![s] = c]
      BY <1>5, AgentCalls DEF CallMoves
    <3> QED
      BY <3>1, <3>2 DEF RpcOK
  <2>4. CASE at = 0
    BY <2>1, <2>4 DEF RegistryInv
  <2>5. CASE s # session /\ at # 0
    <3>1. rpc'[session] = rpc[session]
      BY <1>1, <2>1, <2>5
    <3>2. CASE SetBandwidthLimit(s)
      <4>1. PICK shape : \/ tc' = [tc EXCEPT !["registry"] = [shape EXCEPT !.sure = FALSE]]
                         \/ tc' = [tc EXCEPT !["registry"].sure = FALSE]
        BY <2>5, <3>2, RegistryShape, Zenon DEF Foreign
      <4>2. CASE tc' = [tc EXCEPT !["registry"].sure = FALSE]
        <5>1. ~tc'["registry"].sure
          BY <4>2 DEF TcOK, Shaped
        <5> QED
          BY <5>1 DEF RegistryInv
      <4>3. CASE tc' = [tc EXCEPT !["registry"] = [shape EXCEPT !.sure = FALSE]]
        <5>1. tc'["registry"] = [shape EXCEPT !.sure = FALSE] /\ tc'["registry"] \in Shaped
          BY <4>3, TcStep DEF TcOK
        <5>2. ~tc'["registry"].sure
          BY <5>1 DEF Shaped
        <5> QED
          BY <5>2 DEF RegistryInv
      <4> QED
        BY <4>1, <4>2, <4>3
    <3>3. CASE UNCHANGED tc
      BY <2>1, <2>2, <3>1, <3>3 DEF RegistryInv
    <3> QED
      BY <1>5, <3>2, <3>3, AgentFrame
  <2>6. CASE s = session /\ at # 0 /\ SetBandwidthLimit(s)
    BY <2>6, RegistryCommand
  <2>7. CASE s = session /\ at # 0 /\ ~SetBandwidthLimit(s)
    <3>1. rpc[s].stage \in OnDestination /\ UNCHANGED tc
      <4>1. UNCHANGED tc
        BY <1>5, <2>7, AgentFrame
      <4>2. rpc[s].stage \in {"inspect", "checkpoint", "create", "start", "wait", "rename", "wipe"}
        BY <1>5, <2>7, Zenon DEF Agent, PullInspect, CheckpointContainer, ContainerCreate, ContainerStart,
           RecordWait, RenameRecordFile, DeferredReset
      <4> QED
        BY <4>1, <4>2 DEF OnDestination
    <3>2. rpc[s].stage \notin LimitCall
      BY <3>1 DEF OnDestination, LimitCall, OnRegistry, SetBW
    <3>3. ~At("limit")
      BY <2>3, <2>7, <3>2 DEF CallInv, At
    <3> QED
      BY <1>3, <2>2, <2>7, <3>1, <3>3
  <2> QED
    BY <2>4, <2>5, <2>6, <2>7
<1>6. ASSUME NEW calls \in SUBSET InProgress, AgentCrash(calls) PROVE RegistryInv'
  <2>1. /\ UNCHANGED <<loop, at, tc>>
        /\ rpc' = [s \in Line |->
             IF rpc[s].stage \in calls THEN [rpc[s] EXCEPT !.stage = "failed"] ELSE rpc[s]]
    BY <1>6 DEF AgentCrash
  <2>2. session' = session /\ driver' = driver /\ bw' = bw /\ \A step : At(step)' <=> At(step)
    BY <2>1 DEF loop, bw, At
  <2>4. CASE at = 0
    BY <2>1, <2>4 DEF RegistryInv
  <2>5. CASE at # 0 /\ rpc[session].stage \in calls
    <3>1. rpc'[session].stage = "failed"
      BY <1>1, <2>1, <2>5 DEF RpcOK, Call
    <3>2. CASE At("limit")
      BY <1>4, <2>2, <3>1, <3>2
    <3>3. CASE ~At("limit")
      BY <1>3, <2>1, <2>2, <2>5, <3>3
    <3> QED
      BY <3>2, <3>3
  <2>6. CASE at # 0 /\ rpc[session].stage \notin calls
    <3>1. rpc'[session] = rpc[session]
      BY <1>1, <2>1, <2>6
    <3> QED
      BY <2>1, <2>2, <2>6, <3>1 DEF RegistryInv
  <2> QED
    BY <2>4, <2>5, <2>6
<1>7. CASE LoseConnection
  <2>1. rpc'[session].stage = "failed" /\ session \in Line
    BY <1>7, LostCall DEF RpcOK, Call
  <2>2. UNCHANGED <<loop, at, tc>> /\ at # 0
    BY <1>7 DEF LoseConnection
  <2>3. session' = session /\ driver' = driver /\ bw' = bw /\ \A step : At(step)' <=> At(step)
    BY <2>2 DEF loop, bw, At
  <2>4. CASE At("limit")
    BY <1>4, <2>1, <2>3, <2>4
  <2>5. CASE ~At("limit")
    BY <1>3, <2>2, <2>3, <2>5
  <2> QED
    BY <2>4, <2>5
<1>8. ControlOK'
  BY NextMoves, ControlStep
<1>9. CASE at' = 0 \/ ~Pulls(driver')
  BY <1>9 DEF RegistryInv
<1>10. ASSUME at' = 1, rpc'[session'].stage = "idle" PROVE RegistryInv'
  BY <1>4, <1>8, <1>9, <1>10, LimitPlaceNext
<1>11. CASE StartDriver
  <2>1. session' = session + 1 /\ session < MaxSession /\ rpc' = rpc /\ at' = 1
    BY <1>11 DEF StartDriver
  <2>2. session' \in (session + 1)..MaxSession
    BY <2>1, Constants DEF ControlOK
  <2> QED
    BY <1>1, <1>10, <2>1, <2>2 DEF RpcOK
<1>12. CASE Kill
  BY <1>9, <1>12 DEF Kill, Stop
<1>13. ASSUME UNCHANGED <<loop, at, rpc, tc>> PROVE RegistryInv'
  BY <1>13 DEF loop, bw, At, RegistryInv
<1>14. ASSUME Finished \/ UNCHANGED vars PROVE RegistryInv'
  BY <1>13, <1>14 DEF Finished, vars
<1>15. ASSUME NEW c \in Name, ContainerExit(c) PROVE RegistryInv'
  BY <1>13, <1>15 DEF ContainerExit
<1>16. CASE NextIteration
  <2>1. UNCHANGED <<tc, rpc>> /\ session' = session /\ driver' = driver /\ at = End
    BY <1>16 DEF NextIteration, Begin, Stop, loop
  <2>2. at # 0 /\ ~At("limit") /\ ~At("pull") /\ ~At("record")
    BY <2>1, AtRuns, EndNotZero
  <2>3. rpc[session].stage = "idle"
    BY <2>2 DEF CallInv
  <2>4. CASE at' = 7 /\ bw' = bw
    BY <1>3, <2>1, <2>2, <2>3, <2>4
  <2> QED
    BY <1>9, <1>10, <1>16, <2>1, <2>3, <2>4, LoopLimit
<1>17. CASE CallSetBandwidthLimit
  <2>1. /\ At("limit") /\ at # 0 /\ session' = session /\ driver' = driver /\ UNCHANGED tc
    BY <1>17, AtRuns DEF CallSetBandwidthLimit, Request, Answered, Begin, Stop, loop
  <2>2. CASE Request("limit", "del")
    <3>1. rpc'[session].stage = "del" /\ At("limit")'
      BY <1>1, <2>1, <2>2 DEF Request, Calls, RpcOK, At, loop
    <3> QED
      BY <1>4, <2>1, <3>1
  <2>3. CASE Answered("limit", "ok") /\ GoOn /\ UNCHANGED <<loop, local>>
    <3>2. rpc[session].stage = "ok" /\ bw' = bw
      BY <2>3 DEF Answered, loop, bw
    <3>3. rpc'[session].stage = "idle"
      BY <1>1, <2>1, <2>3 DEF Answered, RpcOK
    <3>4. Pulls(driver) /\ tc["registry"].sure => Limits(tc["registry"], 5, bw)
      BY <2>1, <3>2 DEF RegistryInv
    <3> QED
      BY <1>2, <2>1, <3>2, <3>3, <3>4 DEF RegistryInv
  <2>4. CASE Answered("limit", "failed") /\ (at' = 0 \/ at' = 1)
    <3>1. rpc'[session].stage = "idle"
      BY <1>1, <2>1, <2>4 DEF Answered, RpcOK
    <3> QED
      BY <1>9, <1>10, <2>1, <2>4, <3>1
  <2> QED
    BY <1>17, <2>2, <2>3, <2>4 DEF CallSetBandwidthLimit, Begin, Stop
<1>18. CASE ShapeSource /\ Pulls(driver)
  <2>1. PICK k \in 1..5 : At(SetBW[k])
    BY <1>18 DEF ShapeSource, SetBW
  <2>2. at = k + 1 /\ at' = at + 1 /\ UNCHANGED <<loop, rpc>>
    BY <1>18, <2>1, LimitPlaces DEF ShapeSource, GoOn
  <2>3. at # 1 /\ at' # 1 /\ at # 0
    BY <2>2
  <2>4. tc'["registry"] = tc["registry"]
    BY <1>18 DEF ShapeSource, Tc, TcOK
  <2>5. session' = session /\ driver' = driver /\ bw' = bw
    BY <2>2 DEF loop, bw
  <2>6. ~At("limit") /\ ~At("limit")'
    BY <1>8, <1>18, <2>3, <2>5, LimitPlaces, LimitPlaceNext
  <2> QED
    BY <1>3, <2>3, <2>4, <2>5, <2>6
<1>19. CASE Rest /\ Pulls(driver)
  <2>1. UNCHANGED <<loop, tc>> /\ at # 0 /\ ~At("limit") /\ (at' = 0 \/ at' > 6)
    BY <1>19, RestStep, RestPlaces
  <2>2. session' = session /\ driver' = driver /\ bw' = bw
    BY <2>1 DEF loop, bw
  <2>4. ~At("limit")'
    BY <1>8, <1>19, <2>1, <2>2, LimitPlaceNext
  <2> QED
    BY <1>3, <2>1, <2>2, <2>4
<1>20. CASE (ShapeSource \/ Rest) /\ ~Pulls(driver)
  <2>1. UNCHANGED loop
    BY <1>20, RestStep DEF ShapeSource
  <2> QED
    BY <1>9, <1>20, <2>1 DEF loop
<1>21. OnDestination \in SUBSET InProgress /\ OnRegistry \in SUBSET InProgress
  BY DEF InProgress
<1> QED
  BY <1>5, <1>6, <1>7, <1>11, <1>12, <1>14, <1>15, <1>16, <1>17, <1>18, <1>19, <1>20, <1>21, Zenon DEF Next, Step, Rest

-----------------------------------------------------------------------------
(* What an iteration that meets no trouble comes to. *)

Ran == {"running", "exited"}
AllNone(h) == \A c \in Name : h[c].st = "none"

\* Of a driver that has containers pulled, by the places of its program: those of the
\* reset of the source (7), docker run (8), the pull (9), RecordFReset (10), the row.
PullClear ==
  LET call == rpc[session]
  IN /\ at < 9 => dst[alias].st = "none"
     /\ at = 8 => src[alias].st = "none"
     /\ at = 9 =>
          /\ call.stage \in {"idle", "inspect", "checkpoint"} => src[alias].st = "running"
          /\ call.stage \in {"idle", "inspect", "checkpoint", "create"} => dst[alias].st = "none"
          /\ call.stage = "start" => dst[alias] = [st |-> "created", id |-> call.id]
          /\ call.stage = "ok" => dst[alias].st \in Ran /\ dst[alias].id = This
     /\ at = 10 =>
          /\ call.stage \in {"idle", "wait"} => dst[alias].st \in Ran /\ dst[alias].id = This
          /\ call.stage \in {"rename", "wipe"} => call.ok
          /\ call.stage = "rename" => call.id = This
          /\ call.stage = "ok" => AllNone(dst)
     /\ at > 10 => AllNone(dst)

\* Of PF, the records of this iteration's container that have been kept by then.
KeptClear ==
  LET call == rpc[session]
  IN /\ at = 9 /\ call.stage \in Carrying => recP[pos] = This
     /\ at > 9 => recP[pos] = This
     /\ at = 10 /\ call.stage \in {"wipe", "ok"} => recF[pos] = This
     /\ at > 10 => recF[pos] = This

\* Of getgroundtruth: docker run (1), Wait (2), the reset (3).
TruthClear ==
  /\ at = 1 => src[alias].st = "none"
  /\ at = 2 => src[alias].st \in Ran
  /\ at > 3 => AllNone(src)

OthersDone == \A s \in Line \ {session} : rpc[s].stage \notin InProgress
Written    == at = End /\ ~Records(driver) => csv # <<>> /\ csv[Len(csv)] = This

Clear ==
  /\ OthersDone /\ rpc[session].stage # "failed"
  /\ Pulls(driver) => PullClear
  /\ Records(driver) => KeptClear
  /\ ~Pulls(driver) => TruthClear
  /\ Written

UntroubledInv ==
  /\ ~trouble /\ at # 0 => Clear
  /\ ~trouble /\ at = 0 => pos = Last

LEMMA PullSites ==
  ASSUME ControlOK, Pulls(driver)
  PROVE  /\ At("limit") => at = 1
         /\ At("stargz") \/ At("overlay") => at = 7
         /\ At("run") => at = 8
         /\ At("pull") => at = 9
         /\ At("record") => at = 10
         /\ At("stat") => at = 11
         /\ At("open") => at = 12
         /\ At("write") => at = 13
         /\ ~At("wait") /\ ~At("keep")
         /\ End = IF Records(driver) THEN 11 ELSE 14
<1>1. driver \in DOMAIN Program
  BY EndNotZero
<1>2. /\ At("limit") => at = 1
      /\ At("stargz") \/ At("overlay") => at = 7
      /\ At("run") => at = 8
      /\ At("pull") => at = 9
  BY <1>1, PullPlaces, Zenon DEF At
<1>3. /\ At("record") => at = 10
      /\ At("stat") => at = 11
      /\ At("open") => at = 12
      /\ At("write") => at = 13
  BY <1>1, PullPlaces, Zenon DEF At
<1>4. ~At("wait") /\ ~At("keep")
  BY <1>1, PullPlaces, Zenon DEF At
<1>5. End = IF Records(driver) THEN 11 ELSE 14
  <2> DEFINE n == Len(Program[driver])
  <2>1. driver = "PF" => n = 10
    BY <1>1, PullSteps, Zenon
  <2>2. driver # "PF" => n = 13
    BY <1>1, PullSteps, Zenon
  <2>3. End = n + 1
    BY DEF End
  <2> HIDE DEF n
  <2> QED
    BY <2>1, <2>2, <2>3 DEF Records
<1> QED
  BY <1>2, <1>3, <1>4, <1>5, Zenon

LEMMA TruthSites ==
  ASSUME ControlOK, ~Pulls(driver)
  PROVE  /\ At("run") => at = 1
         /\ At("wait") => at = 2
         /\ At("keep") => at = 3
         /\ At("stat") => at = 4
         /\ At("open") => at = 5
         /\ At("write") => at = 6
         /\ ~At("limit") /\ ~At("stargz") /\ ~At("overlay") /\ ~At("pull") /\ ~At("record")
         /\ \A k \in 1..5 : ~At(SetBW[k])
         /\ End = 7 /\ ~Records(driver)
<1>1. driver \in DOMAIN Program
  BY EndNotZero
<1>2. /\ At("run") => at = 1
      /\ At("wait") => at = 2
      /\ At("keep") => at = 3
      /\ At("stat") => at = 4
      /\ At("open") => at = 5
      /\ At("write") => at = 6
  BY <1>1, GroundTruthPlaces, Zenon DEF At
<1>3. ~At("limit") /\ ~At("stargz") /\ ~At("overlay") /\ ~At("pull") /\ ~At("record")
  BY <1>1, GroundTruthPlaces, Zenon DEF At
<1>4. ASSUME NEW k \in 1..5 PROVE ~At(SetBW[k])
  <2>1. SetBW[k] \in {"del", "root", "class", "netem", "filter"}
    BY DEF SetBW
  <2>2. ~At("del") /\ ~At("root") /\ ~At("class") /\ ~At("netem") /\ ~At("filter")
    BY <1>1, GroundTruthPlaces, Zenon DEF At
  <2> QED
    BY <2>1, <2>2
<1>5. End = 7 /\ ~Records(driver)
  <2>1. Len(Program[driver]) = 6 /\ driver = "groundtruth"
    BY <1>1, Programs, GroundTruthSteps, Zenon DEF Pulls
  <2> QED
    BY <2>1 DEF End, Records
<1> QED
  BY <1>2, <1>3, <1>4, <1>5, Zenon

\* A command on the registry's host goes on to the next, or is in trouble.
LEMMA LimitTrouble ==
  ASSUME NEW s, SetBandwidthLimit(s)
  PROVE  \/ Smooth /\ \E k \in 1..5 : Goto(s, IF k < 5 THEN SetBW[k + 1] ELSE "ok")
         \/ Trouble
<1>1. DOMAIN SetBW = 1..5 /\ Len(SetBW) = 5
  BY DEF SetBW
<1>2. PICK k \in DOMAIN SetBW :
        LET shape == Foreign(s, Shape(tc["registry"], SetBW[k], Bandwidth[rpc[s].pos.bw]))
        IN \/ /\ Tc("registry", SetBW[k], shape)
              /\ Goto(s, IF k < Len(SetBW) THEN SetBW[k + 1] ELSE "ok")
           \/ Trouble
  BY Zenon DEF SetBandwidthLimit
<1>3. \/ Smooth /\ Goto(s, IF k < 5 THEN SetBW[k + 1] ELSE "ok")
      \/ Trouble
  BY <1>1, <1>2, Zenon DEF Tc
<1>4. k \in 1..5
  BY <1>1, <1>2
<1> QED
  BY <1>3, <1>4, Zenon

\* Trouble does not end with a step of an agent.
LEMMA AgentTrouble ==
  ASSUME Types, NEW s \in Line, Agent(s), ~trouble'
  PROVE  ~trouble
<1>1. CASE SetBandwidthLimit(s)
  <2>1. trouble' = trouble \/ trouble' = TRUE
    BY <1>1, LimitTrouble DEF Smooth, Trouble
  <2> QED
    BY <2>1
<1>2. CASE PullInspect(s)
  BY <1>2 DEF PullInspect, Smooth, Trouble
<1>3. CASE CheckpointContainer(s)
  BY <1>3 DEF CheckpointContainer, SendCheckpoint, Smooth, Trouble
<1>4. CASE ContainerCreate(s) \/ ContainerStart(s)
  BY <1>4 DEF ContainerCreate, ContainerStart, Reply, Smooth, Trouble
<1>5. CASE RecordWait(s)
  BY <1>5 DEF RecordWait, Raced
<1>6. CASE RenameRecordFile(s) \/ DeferredReset(s)
  BY <1>6 DEF RenameRecordFile, DeferredReset, Reply, Smooth, Trouble
<1> QED
  BY <1>1, <1>2, <1>3, <1>4, <1>5, <1>6, Zenon DEF Agent

\* An untroubled call that is the driver's own.
LEMMA OwnAgent ==
  ASSUME Types, CallInv, UntroubledInv, NEW s \in Line, Agent(s), ~trouble', at # 0
  PROVE  /\ s = session /\ Clear /\ UNCHANGED <<loop, at, local>>
         /\ Called(s) = alias /\ alias \in Name
         /\ rpc[s].file = Records(driver) /\ rpc[s].pos = pos
         /\ OthersDone'
         /\ \/ at = 1 /\ Pulls(driver) /\ rpc[s].stage \in LimitCall
            \/ at = 9 /\ Pulls(driver) /\ rpc[s].stage \in PullCall /\ At("pull")
            \/ at = 10 /\ Pulls(driver) /\ rpc[s].stage \in RecordCall
<1> USE DEF Types
<1>1. Clear
  BY AgentTrouble DEF UntroubledInv
<1>2. /\ UNCHANGED <<loop, at, local>> /\ rpc[s].stage \in InProgress
      /\ \A t \in Line \ {s} : rpc'[t] = rpc[t]
  BY AgentKeeps
<1>3. s = session
  BY <1>1, <1>2 DEF Clear, OthersDone
<1>4. rpc[s].stage # "idle"
  BY <1>2 DEF InProgress, OnRegistry, OnDestination, SetBW
<1>5. /\ \/ At("limit")  /\ rpc[s].stage \in LimitCall
         \/ At("pull")   /\ rpc[s].stage \in PullCall
         \/ At("record") /\ rpc[s].stage \in RecordCall
      /\ rpc[s].pos = pos /\ rpc[s].file = Records(driver)
  BY <1>3, <1>4 DEF CallInv
<1>6. Pulls(driver)
  BY <1>5, TruthSites
<1>7. /\ At("limit") => at = 1
      /\ At("pull") => at = 9
      /\ At("record") => at = 10
  BY <1>6, PullSites
<1>8. OthersDone'
  BY <1>1, <1>2, <1>3 DEF Clear, OthersDone, loop
<1>9. Called(s) = alias /\ alias \in Name
  BY <1>5, ThisOrigin DEF Called, alias
<1> QED
  BY <1>1, <1>2, <1>3, <1>5, <1>6, <1>7, <1>8, <1>9

\* What is left to show of such a step.
LEMMA AgentClear ==
  ASSUME Types, CallInv, UntroubledInv, NEW s \in Line, Agent(s), ~trouble', at # 0,
         rpc'[session].stage # "failed", PullClear', Records(driver) => KeptClear'
  PROVE  Clear'
<1>1. /\ s = session /\ Clear /\ UNCHANGED <<loop, at, local>> /\ OthersDone' /\ Pulls(driver)
      /\ at = 1 \/ at = 9 \/ at = 10
  BY OwnAgent
<1>2. session' = session /\ driver' = driver /\ pos' = pos /\ at' = at
  BY <1>1 DEF loop
<1>3. at # End
  BY <1>1, PullSites DEF Types
<1>4. End' = End
  BY <1>2 DEF End
<1>5. Written'
  BY <1>2, <1>3, <1>4 DEF Written
<1> QED
  BY <1>1, <1>2, <1>5 DEF Clear

LEMMA AgentUntroubled ==
  ASSUME Types, CallInv, RunInv, UntroubledInv, NEW s \in Line, Agent(s), ~trouble', at # 0
  PROVE  Clear'
<1> USE DEF Types
<1>1. /\ s = session /\ Clear /\ UNCHANGED <<loop, at, local>>
      /\ Called(s) = alias /\ alias \in Name
      /\ rpc[s].file = Records(driver) /\ rpc[s].pos = pos /\ Pulls(driver)
      /\ \/ at = 1 /\ rpc[s].stage \in LimitCall
         \/ at = 9 /\ rpc[s].stage \in PullCall /\ At("pull")
         \/ at = 10 /\ rpc[s].stage \in RecordCall
  BY OwnAgent
<1>2. /\ session' = session /\ driver' = driver /\ pos' = pos /\ alias' = alias /\ at' = at /\ This' = This
      /\ at \in Nat
  BY <1>1 DEF loop, alias, This, ControlOK
<1>3. PullClear /\ (Records(driver) => KeptClear)
  BY <1>1 DEF Clear
<1>4. /\ LimitCall = {"del", "root", "class", "netem", "filter", "ok", "failed"}
      /\ \A k \in DOMAIN SetBW : SetBW[k] \in {"del", "root", "class", "netem", "filter"}
      /\ DOMAIN SetBW = 1..5 /\ Len(SetBW) = 5
  BY DEF LimitCall, OnRegistry, SetBW
<1>5. src[alias] \in Container /\ dst[alias] \in Container /\ rpc[s] \in Call
  BY <1>1 DEF HostsOK, RpcOK
<1>6. CASE SetBandwidthLimit(s)
  <2>1. PICK k \in 1..5 : Goto(s, IF k < 5 THEN SetBW[k + 1] ELSE "ok")
    BY <1>6, LimitTrouble DEF Trouble
  <2>2. k < 5 => k + 1 \in 1..5
    OBVIOUS
  <2>3. (IF k < 5 THEN SetBW[k + 1] ELSE "ok") # "failed"
    BY <1>4, <2>2, Zenon
  <2>4. rpc'[s].stage # "failed"
    BY <2>1, <2>3, GotoStage
  <2>5. rpc[s].stage \in OnRegistry
    BY <1>6, Zenon DEF SetBandwidthLimit, OnRegistry
  <2>6. at = 1
    BY <1>1, <2>5 DEF PullCall, RecordCall, OnRegistry, SetBW
  <2>7. UNCHANGED hosts
    BY <1>6, Zenon DEF SetBandwidthLimit
  <2>8. PullClear' /\ KeptClear'
    BY <1>2, <1>3, <2>6, <2>7 DEF PullClear, KeptClear, hosts
  <2> QED
    BY <1>1, <2>4, <2>8, AgentClear
<1>7. CASE PullInspect(s)
  <2>1. rpc[s].stage = "inspect" /\ UNCHANGED hosts
    BY <1>7 DEF PullInspect
  <2>2. at = 9
    BY <1>1, <1>4, <2>1 DEF RecordCall
  <2>3. src[alias].st = "running" /\ dst[alias].st = "none"
    BY <1>1, <1>3, <2>1, <2>2 DEF PullClear
  <2>4. Goto(s, "checkpoint")
    BY <1>1, <1>7, <2>3 DEF PullInspect, Trouble
  <2>5. rpc'[s].stage = "checkpoint"
    BY <2>4, GotoStage
  <2>6. PullClear' /\ KeptClear'
    BY <1>1, <1>2, <2>1, <2>2, <2>3, <2>5 DEF PullClear, KeptClear, Carrying, hosts
  <2> QED
    BY <1>1, <2>5, <2>6, AgentClear
<1>8. CASE CheckpointContainer(s)
  <2>1. rpc[s].stage = "checkpoint" /\ UNCHANGED dst
    BY <1>8 DEF CheckpointContainer
  <2>2. at = 9 /\ At("pull")
    BY <1>1, <1>4, <2>1 DEF RecordCall
  <2>3. src[alias].st = "running" /\ dst[alias].st = "none" /\ src[alias].id = This
    BY <1>1, <1>3, <2>1, <2>2 DEF PullClear, RunInv
  <2>4. /\ recP' = Kept(recP, s, src[alias])
        /\ rpc' = [rpc EXCEPT ![s].stage = "create", ![s].id = src[alias].id]
    BY <1>1, <1>8, <2>3 DEF CheckpointContainer, SendCheckpoint, Trouble
  <2>5. rpc'[s].stage = "create"
    BY <2>4 DEF RpcOK, Call
  <2>6. PullClear'
    BY <1>1, <1>2, <2>1, <2>2, <2>3, <2>5 DEF PullClear
  <2>7. ASSUME Records(driver) PROVE KeptClear'
    <3>1. recP'[pos] = This
      BY <1>1, <2>3, <2>4, <2>7 DEF Kept, RecsOK, ControlOK
    <3> QED
      BY <1>1, <1>2, <2>2, <3>1 DEF KeptClear
  <2> QED
    BY <1>1, <2>5, <2>6, <2>7, AgentClear
<1>9. CASE ContainerCreate(s)
  <2>1. rpc[s].stage = "create" /\ UNCHANGED recs
    BY <1>9 DEF ContainerCreate
  <2>2. at = 9
    BY <1>1, <1>4, <2>1 DEF RecordCall
  <2>3. dst[alias].st = "none"
    BY <1>1, <1>3, <2>1, <2>2 DEF PullClear
  <2>4. dst' = [dst EXCEPT ![alias] = [st |-> "created", id |-> rpc[s].id]] /\ Goto(s, "start")
    BY <1>1, <1>9, <2>3 DEF ContainerCreate
  <2>5. rpc'[s].stage = "start" /\ rpc'[s].id = rpc[s].id
    BY <2>4, GotoStage
  <2>6. dst'[alias] = [st |-> "created", id |-> rpc'[s].id]
    BY <1>1, <2>4, <2>5 DEF HostsOK
  <2>7. PullClear'
    BY <1>1, <1>2, <2>2, <2>5, <2>6 DEF PullClear
  <2>8. Records(driver) => KeptClear'
    BY <1>1, <1>2, <1>3, <2>1, <2>2, <2>5 DEF KeptClear, Carrying, recs
  <2> QED
    BY <1>1, <2>5, <2>7, <2>8, AgentClear
<1>10. CASE ContainerStart(s)
  <2>1. rpc[s].stage = "start" /\ UNCHANGED recs
    BY <1>10 DEF ContainerStart
  <2>2. at = 9 /\ At("pull")
    BY <1>1, <1>4, <2>1 DEF RecordCall
  <2>3. dst[alias] = [st |-> "created", id |-> rpc[s].id] /\ rpc[s].id = This
    BY <1>1, <1>3, <2>1, <2>2 DEF PullClear, RunInv, Carrying
  <2>4. dst' = [dst EXCEPT ![alias].st = "running"] /\ Goto(s, "ok")
    BY <1>1, <1>10, <2>3 DEF ContainerStart, Reply, Trouble
  <2>5. rpc'[s].stage = "ok"
    BY <2>4, GotoStage
  <2>6. dst'[alias].st \in Ran /\ dst'[alias].id = This
    BY <1>1, <1>5, <2>3, <2>4 DEF HostsOK, Container, Ran
  <2>7. PullClear'
    BY <1>1, <1>2, <2>2, <2>5, <2>6 DEF PullClear
  <2>8. Records(driver) => KeptClear'
    BY <1>1, <1>2, <1>3, <2>1, <2>2, <2>5 DEF KeptClear, Carrying, recs
  <2> QED
    BY <1>1, <2>5, <2>7, <2>8, AgentClear
<1>11. CASE RecordWait(s)
  <2>1. rpc[s].stage = "wait" /\ UNCHANGED recs
    BY <1>11 DEF RecordWait
  <2>2. at = 10
    BY <1>1, <1>4, <2>1 DEF PullCall
  <2>3. dst[alias].st \in Ran /\ dst[alias].id = This
    BY <1>1, <1>3, <2>1, <2>2 DEF PullClear
  <2>4. PICK outcome \in Waited(dst[alias]) :
          /\ trouble' = (trouble \/ (~outcome.ok /\ outcome.con.st # "none"))
          /\ rpc' = [rpc EXCEPT ![s].ok = outcome.ok, ![s].id = outcome.con.id,
                       ![s].stage = IF outcome.ok /\ rpc[s].file THEN "rename" ELSE "wipe"]
    <3>1. \E outcome \in Waited(dst[Called(s)]) :
            /\ Raced(outcome)
            /\ rpc' = [rpc EXCEPT ![s].ok = outcome.ok, ![s].id = outcome.con.id,
                         ![s].stage = IF outcome.ok /\ rpc[s].file THEN "rename" ELSE "wipe"]
      BY <1>11, Zenon DEF RecordWait
    <3> QED
      BY <1>1, <3>1, Zenon DEF Raced
  <2>5. outcome.ok
    <3>1. CASE dst[alias].st = "running"
      <4>1. outcome = [con |-> [dst[alias] EXCEPT !.st = "exited"], ok |-> TRUE]
        BY <3>1 DEF Waited
      <4> QED
        BY <4>1
    <3>2. CASE dst[alias].st = "exited"
      <4>1. PICK answer \in BOOLEAN : outcome = [con |-> dst[alias], ok |-> answer]
        BY <3>2 DEF Waited
      <4>2. outcome.con.st # "none"
        BY <3>2, <4>1
      <4> QED
        BY <2>4, <4>2
    <3> QED
      BY <2>3, <3>1, <3>2 DEF Ran
  <2>6. outcome.con.id = This
    BY <1>5, <2>3, WaitedSame
  <2> DEFINE answer == outcome.ok
             id     == outcome.con.id
  <2>7. answer /\ id = This
    BY <2>5, <2>6
  <2>8. rpc' = [rpc EXCEPT ![s].ok = answer, ![s].id = id,
                  ![s].stage = IF answer /\ rpc[s].file THEN "rename" ELSE "wipe"]
    BY <2>4
  <2> HIDE DEF answer, id
  <2>9. rpc'[s].ok /\ rpc'[s].stage = (IF Records(driver) THEN "rename" ELSE "wipe") /\ rpc'[s].id = This
    BY <1>1, <2>7, <2>8 DEF RpcOK, Call
  <2>10. PullClear'
    BY <1>1, <1>2, <2>2, <2>9 DEF PullClear
  <2>11. Records(driver) => KeptClear'
    BY <1>1, <1>2, <1>3, <2>1, <2>2, <2>9 DEF KeptClear, recs
  <2> QED
    BY <1>1, <2>9, <2>10, <2>11, AgentClear
<1>12. CASE RenameRecordFile(s)
  <2>1. rpc[s].stage = "rename" /\ UNCHANGED recP
    BY <1>12 DEF RenameRecordFile
  <2>2. at = 10
    BY <1>1, <1>4, <2>1 DEF PullCall
  <2>3. rpc[s].ok /\ rpc[s].id = This
    BY <1>1, <1>3, <2>1, <2>2 DEF PullClear
  <2>4. recF' = Kept(recF, s, rpc[s]) /\ Goto(s, "wipe")
    BY <1>12 DEF RenameRecordFile, Trouble
  <2>5. rpc'[s].stage = "wipe" /\ rpc'[s].ok
    BY <2>3, <2>4, GotoStage
  <2>6. PullClear'
    BY <1>1, <1>2, <2>2, <2>5 DEF PullClear
  <2>7. ASSUME Records(driver) PROVE KeptClear'
    <3>1. recF'[pos] = This
      BY <1>1, <2>3, <2>4, <2>7 DEF Kept, RecsOK, ControlOK
    <3> QED
      BY <1>1, <1>2, <1>3, <2>1, <2>2, <2>7, <3>1 DEF KeptClear
  <2> QED
    BY <1>1, <2>5, <2>6, <2>7, AgentClear
<1>13. CASE DeferredReset(s)
  <2>1. rpc[s].stage = "wipe" /\ UNCHANGED recs
    BY <1>13 DEF DeferredReset
  <2>2. at = 10
    BY <1>1, <1>4, <2>1 DEF PullCall
  <2>3. rpc[s].ok
    BY <1>1, <1>3, <2>1, <2>2 DEF PullClear
  <2>4. Goto(s, "ok") /\ dst' = [c \in Name |-> None]
    BY <1>13, <2>3 DEF DeferredReset, Reply, Wipe, Trouble
  <2>5. rpc'[s].stage = "ok"
    BY <2>4, GotoStage
  <2>6. AllNone(dst')
    BY <2>4 DEF AllNone, None
  <2>7. PullClear'
    BY <1>1, <1>2, <2>2, <2>5, <2>6 DEF PullClear, AllNone
  <2>8. Records(driver) => KeptClear'
    BY <1>1, <1>2, <1>3, <2>1, <2>2, <2>5 DEF KeptClear, recs
  <2> QED
    BY <1>1, <2>5, <2>7, <2>8, AgentClear
<1> QED
  BY <1>6, <1>7, <1>8, <1>9, <1>10, <1>11, <1>12, <1>13, Zenon DEF Agent

\* An iteration begins in the clear.
LEMMA BeginClear ==
  ASSUME ControlOK', at' \in {1, Body(driver')}, OthersDone', rpc'[session'].stage = "idle",
         Pulls(driver') => dst'[alias'].st = "none",
         ~Pulls(driver') => src'[alias'].st = "none"
  PROVE  Clear'
<1>1. driver' \in DOMAIN Program
  BY Constants DEF ControlOK
<1>2. (Pulls(driver') => at' \in {1, 7}) /\ (~Pulls(driver') => at' = 1)
  BY <1>1, Ends
<1>3. at' # End'
  <2> DEFINE n == Len(Program[driver'])
  <2>1. n \in Nat /\ n > 5 /\ (Pulls(driver') => n > 9) /\ End' = n + 1
    BY <1>1, Ends DEF End
  <2> HIDE DEF n
  <2> QED
    BY <1>2, <2>1
<1>4. Pulls(driver') => PullClear'
  BY <1>2 DEF PullClear
<1>5. ~Pulls(driver') => TruthClear'
  BY <1>2 DEF TruthClear
<1>6. Records(driver') => KeptClear'
  BY <1>2 DEF KeptClear, Records, Pulls
<1> QED
  BY <1>3, <1>4, <1>5, <1>6 DEF Clear, Written

LEMMA StartUntroubled ==
  ASSUME Types, StartDriver, ~trouble', ControlOK'
  PROVE  Clear'
<1> USE DEF Types
<1>1. /\ session' = session + 1 /\ session < MaxSession /\ pos' = First /\ at' = 1
      /\ UNCHANGED <<hosts, rpc>> /\ ~Leftover(driver', First)
  BY DEF StartDriver
<1>2. session' \in (session + 1)..MaxSession
  BY <1>1, Constants DEF ControlOK
<1>3. rpc'[session'].stage = "idle"
  BY <1>1, <1>2 DEF RpcOK, Idle
<1>4. OthersDone'
  BY <1>1 DEF OthersDone, Leftover
<1>5. /\ Pulls(driver') => dst'[alias'].st = "none"
      /\ ~Pulls(driver') => src'[alias'].st = "none"
  BY <1>1 DEF Leftover, alias, hosts
<1> QED
  BY <1>1, <1>3, <1>4, <1>5, BeginClear

\* Where the loops go on at p.
LEMMA BeginUntroubled ==
  ASSUME Types, NEW p, NEW first \in {1, Body(driver)}, Begin(p, first), ~trouble', UNCHANGED hosts, ControlOK',
         \A s \in Line \ {session} : rpc'[s] = rpc[s], rpc'[session].stage = "idle",
         trouble \/ (OthersDone /\ (Pulls(driver) => AllNone(dst)) /\ (~Pulls(driver) => AllNone(src)))
  PROVE  Clear'
<1> USE DEF Types
<1>1. /\ session' = session /\ driver' = driver /\ pos' = p /\ at' = first
      /\ trouble => ~Leftover(driver, p)
  BY DEF Begin
<1>2. alias' = ContainerList[p.image] /\ alias' \in Name
  BY <1>1, Constants DEF alias, ControlOK
<1>3. CASE trouble
  BY <1>1, <1>2, <1>3, BeginClear DEF Leftover, OthersDone, hosts
<1>4. CASE ~trouble
  BY <1>1, <1>2, <1>4, BeginClear DEF OthersDone, AllNone, hosts
<1> QED
  BY <1>3, <1>4

LEMMA LoopUntroubled ==
  ASSUME Types, CallInv, UntroubledInv, NextIteration, ~trouble', at' # 0, ControlOK'
  PROVE  Clear'
<1> USE DEF Types
<1>1. /\ at = End /\ at # 0 /\ ~At("limit") /\ ~At("pull") /\ ~At("record")
      /\ UNCHANGED <<hosts, rpc>>
  BY AtRuns, EndNotZero DEF NextIteration
<1>2. rpc'[session].stage = "idle"
  BY <1>1 DEF CallInv
<1>3. ASSUME ~trouble
      PROVE  OthersDone /\ (Pulls(driver) => AllNone(dst)) /\ (~Pulls(driver) => AllNone(src))
  <2>1. Clear
    BY <1>1, <1>3 DEF UntroubledInv
  <2>2. Pulls(driver) => at > 10
    BY <1>1, PullSites
  <2>3. ~Pulls(driver) => at > 3
    BY <1>1, TruthSites
  <2> QED
    BY <2>1, <2>2, <2>3 DEF Clear, PullClear, TruthClear
<1>4. PICK first \in {1, Body(driver)} : Begin(After(pos), first)
  BY DEF NextIteration, Stop
<1> QED
  BY <1>1, <1>2, <1>3, <1>4, BeginUntroubled

LEMMA LimitUntroubled ==
  ASSUME Types, CallInv, UntroubledInv, CallSetBandwidthLimit, ~trouble', at' # 0, ControlOK'
  PROVE  Clear'
<1> USE DEF Types
<1>1. /\ At("limit") /\ at # 0 /\ UNCHANGED <<hosts, files, recs>> /\ session' = session /\ driver' = driver
  BY AtRuns DEF CallSetBandwidthLimit, Request, Answered, Begin, Stop, loop
<1>2. Pulls(driver) /\ at = 1
  BY <1>1, PullSites, TruthSites
<1>3. session \in Line
  BY <1>1, ThisOrigin
<1>4. ASSUME Clear, UNCHANGED <<loop, rpc>> \/ \E c : UNCHANGED loop /\ rpc' = [rpc EXCEPT ![session] = c],
             rpc'[session].stage # "failed", at' \in {1, 2}
      PROVE  Clear'
  <2>1. OthersDone'
    BY <1>1, <1>4 DEF Clear, OthersDone, RpcOK
  <2>2. PullClear' /\ KeptClear'
    BY <1>1, <1>2, <1>4 DEF Clear, PullClear, KeptClear, hosts, loop, alias
  <2>3. Written'
    <3>1. End' = End /\ End > 2
      BY <1>1, <1>2, PullSites DEF End
    <3> QED
      BY <1>4, <3>1 DEF Written
  <2> QED
    BY <1>1, <1>2, <1>4, <2>1, <2>2, <2>3 DEF Clear
<1>5. CASE Request("limit", "del")
  <2>1. Clear
    BY <1>1, <1>5 DEF UntroubledInv, Request, Smooth
  <2>2. /\ UNCHANGED loop /\ at' = 1 /\ rpc'[session].stage = "del"
        /\ \E c : rpc' = [rpc EXCEPT ![session] = c]
    BY <1>2, <1>3, <1>5 DEF Request, Calls, RpcOK
  <2> QED
    BY <1>4, <2>1, <2>2
<1>6. CASE Answered("limit", "ok") /\ GoOn /\ Smooth /\ UNCHANGED <<loop, local>>
  <2>1. Clear
    BY <1>1, <1>6 DEF UntroubledInv, Smooth
  <2>2. UNCHANGED loop /\ at' = 2 /\ rpc'[session].stage = "idle"
        /\ rpc' = [rpc EXCEPT ![session] = Idle]
    BY <1>2, <1>3, <1>6 DEF Answered, RpcOK, GoOn, Idle
  <2> QED
    BY <1>4, <2>1, <2>2
<1>7. CASE Answered("limit", "failed") /\ Begin([First EXCEPT !.bw = pos.bw + 1], 1)
  <2>1. trouble
    BY <1>1, <1>7 DEF UntroubledInv, Clear, Answered
  <2>2. /\ rpc'[session].stage = "idle"
        /\ \A s \in Line \ {session} : rpc'[s] = rpc[s]
    BY <1>3, <1>7 DEF Answered, RpcOK, Idle
  <2> QED
    BY <1>1, <1>7, <2>1, <2>2, BeginUntroubled
<1>8. ~Stop
  BY DEF Stop
<1> QED
  BY <1>5, <1>6, <1>7, <1>8 DEF CallSetBandwidthLimit

\* The steps between, which leave the loops and the calls of others.
LEMMA GoneOn ==
  ASSUME Types, Clear, UNCHANGED loop, at # 0,
         UNCHANGED rpc \/ \E c : rpc' = [rpc EXCEPT ![session] = c],
         rpc'[session].stage # "failed",
         Pulls(driver) => PullClear', Records(driver) => KeptClear',
         ~Pulls(driver) => TruthClear', Written'
  PROVE  Clear'
<1>1. session' = session /\ driver' = driver /\ session \in Line
  BY ThisOrigin DEF loop, Types
<1>2. OthersDone'
  BY <1>1 DEF Clear, OthersDone, Types, RpcOK
<1> QED
  BY <1>1, <1>2 DEF Clear

LEMMA SourceUntroubled ==
  ASSUME Types, CallInv, Clear, ~trouble', ShapeSource
  PROVE  Clear'
<1> USE DEF Types
<1>1. PICK k \in 1..5 : At(SetBW[k])
  BY DEF ShapeSource, SetBW
<1>2. Pulls(driver) /\ at = k + 1
  BY <1>1, LimitPlaces, TruthSites
<1>3. at' = at + 1 /\ UNCHANGED <<loop, rpc, hosts, files, recs>>
  BY DEF ShapeSource, GoOn
<1>4. at < 8 /\ at' \in 1..7 /\ at # 0
  BY <1>2, <1>3
<1>5. PullClear'
  <2>1. dst[alias].st = "none" /\ alias' = alias /\ dst' = dst
    BY <1>2, <1>3, <1>4 DEF Clear, PullClear, loop, alias, hosts
  <2> QED
    BY <1>4, <2>1 DEF PullClear
<1>7. KeptClear'
  BY <1>4 DEF KeptClear
<1>6. Written'
  <2>1. End' = End /\ End > 8
    BY <1>2, <1>3, PullSites DEF End, loop
  <2> QED
    BY <1>4, <2>1 DEF Written
<1> QED
  BY <1>2, <1>3, <1>4, <1>5, <1>6, <1>7, GoneOn DEF Clear

LEMMA ResetUntroubled ==
  ASSUME Types, CallInv, Clear, ~trouble', ResetSource
  PROVE  Clear'
<1> USE DEF Types
<1>1. /\ at' = at + 1 /\ UNCHANGED <<loop, dst, rpc, files, recs>> /\ src' = [c \in Name |-> None]
      /\ At("stargz") \/ At("overlay") \/ At("keep")
  BY DEF ResetSource, GoOn, Trouble
<1>2. AllNone(src') /\ alias' = alias /\ alias \in Name /\ at # 0 /\ End' = End
  BY <1>1, ThisOrigin, AtRuns DEF AllNone, None, loop, alias, End
<1>3. CASE Pulls(driver)
  <2>1. at = 7 /\ at' = 8 /\ End > 8
    BY <1>1, <1>3, PullSites
  <2>2. PullClear' /\ KeptClear'
    BY <1>1, <1>2, <1>3, <2>1 DEF Clear, PullClear, KeptClear, AllNone
  <2>3. Written'
    BY <1>2, <2>1 DEF Written
  <2> QED
    BY <1>1, <1>2, <1>3, <2>2, <2>3, GoneOn DEF Clear
<1>4. CASE ~Pulls(driver)
  <2>1. at = 3 /\ at' = 4 /\ End = 7
    BY <1>1, <1>4, TruthSites
  <2>2. TruthClear'
    BY <1>2, <2>1 DEF TruthClear
  <2>3. Written'
    BY <1>2, <2>1 DEF Written
  <2> QED
    BY <1>1, <1>2, <1>4, <2>2, <2>3, GoneOn DEF Clear, Records, Pulls
<1> QED
  BY <1>3, <1>4

LEMMA RunUntroubled ==
  ASSUME Types, CallInv, Clear, ~trouble', DockerRun
  PROVE  Clear'
<1> USE DEF Types
<1>1. At("run") /\ UNCHANGED <<loop, dst, rpc, files, recs>>
  BY DEF DockerRun
<1>2. alias' = alias /\ alias \in Name /\ at # 0 /\ End' = End
  BY <1>1, ThisOrigin, AtRuns DEF loop, alias, End
<1>3. ASSUME src[alias].st = "none"
      PROVE  at' = at + 1 /\ src'[alias].st = "running"
  <2>1. at' = at + 1 /\ src' = [src EXCEPT ![alias] = [st |-> "running", id |-> This]]
    BY <1>3 DEF DockerRun, GoOn, Trouble
  <2> QED
    BY <1>2, <2>1 DEF HostsOK
<1>4. CASE Pulls(driver)
  <2>1. at = 8 /\ End > 9
    BY <1>1, <1>4, PullSites
  <2>2. src[alias].st = "none" /\ dst[alias].st = "none"
    BY <1>4, <2>1 DEF Clear, PullClear
  <2>3. rpc[session].stage = "idle"
    BY <1>1, <1>2 DEF CallInv, At
  <2>4. PullClear' /\ KeptClear'
    BY <1>1, <1>2, <1>3, <2>1, <2>2, <2>3 DEF PullClear, KeptClear, Carrying, loop
  <2>5. Written'
    BY <1>2, <1>3, <2>1, <2>2 DEF Written
  <2> QED
    BY <1>1, <1>2, <1>4, <2>4, <2>5, GoneOn DEF Clear
<1>5. CASE ~Pulls(driver)
  <2>1. at = 1 /\ End = 7
    BY <1>1, <1>5, TruthSites
  <2>2. src[alias].st = "none"
    BY <1>5, <2>1 DEF Clear, TruthClear
  <2>3. TruthClear'
    BY <1>2, <1>3, <2>1, <2>2 DEF TruthClear, Ran
  <2>4. Written'
    BY <1>2, <1>3, <2>1, <2>2 DEF Written
  <2> QED
    BY <1>1, <1>2, <1>5, <2>3, <2>4, GoneOn DEF Clear, Records, Pulls
<1> QED
  BY <1>4, <1>5

LEMMA WaitUntroubled ==
  ASSUME Types, CallInv, Clear, ~trouble', WaitOnSource
  PROVE  Clear'
<1> USE DEF Types
<1>1. At("wait") /\ UNCHANGED <<loop, dst, rpc, files, recs>>
  BY DEF WaitOnSource
<1>2. alias' = alias /\ alias \in Name /\ at # 0 /\ End' = End
  BY <1>1, ThisOrigin, AtRuns DEF loop, alias, End
<1>3. ~Pulls(driver)
  BY <1>1, PullSites
<1>4. at = 2 /\ End = 7
  BY <1>1, <1>3, TruthSites
<1>5. PICK outcome \in Waited(src[alias]) :
        /\ trouble' = (trouble \/ (~outcome.ok /\ outcome.con.st # "none"))
        /\ IF outcome.ok THEN GoOn ELSE Continue
  BY Zenon DEF WaitOnSource, Raced
<1>6. src[alias].st \in Ran
  BY <1>3, <1>4 DEF Clear, TruthClear
<1>7. outcome.ok
  <2>1. CASE src[alias].st = "running"
    <3>1. outcome = [con |-> [src[alias] EXCEPT !.st = "exited"], ok |-> TRUE]
      BY <2>1 DEF Waited
    <3> QED
      BY <3>1
  <2>2. CASE src[alias].st = "exited"
    <3>1. PICK answer \in BOOLEAN : outcome = [con |-> src[alias], ok |-> answer]
      BY <2>2 DEF Waited
    <3>2. outcome.con.st # "none"
      BY <2>2, <3>1
    <3> QED
      BY <1>5, <3>2
  <2> QED
    BY <1>6, <2>1, <2>2 DEF Ran
<1>8. at' = 3
  BY <1>4, <1>5, <1>7 DEF GoOn
<1>9. TruthClear' /\ Written'
  BY <1>2, <1>4, <1>8 DEF TruthClear, Written
<1> QED
  BY <1>1, <1>2, <1>3, <1>9, GoneOn DEF Clear, Records, Pulls

\* recordMigrationData.
LEMMA FileUntroubled ==
  ASSUME Types, CallInv, Clear, ~trouble', StatFile \/ OpenFile \/ WriteRow
  PROVE  Clear'
<1> USE DEF Types
<1>1. /\ UNCHANGED <<loop, hosts, rpc, recs>> /\ at' = at + 1
      /\ At("stat") \/ At("open") \/ (At("write") /\ WriteRow)
  BY DEF StatFile, OpenFile, WriteRow, GoOn, Trouble
<1>2. /\ alias' = alias /\ alias \in Name /\ at # 0 /\ End' = End /\ driver' = driver /\ pos' = pos
      /\ This' = This
  BY <1>1, ThisOrigin, AtRuns DEF loop, alias, End, This
<1>3. ASSUME WriteRow PROVE csv' # <<>> /\ csv'[Len(csv')] = This'
  <2> DEFINE first == IF head THEN <<Header>> ELSE <<>>
  <2>1. csv' = csv \o first \o <<This>> /\ This' = This
    BY <1>1, <1>3 DEF WriteRow, Trouble, loop, This
  <2>2. first \in Seq(Origin) /\ csv \in Seq(Origin) /\ This \in Origin
    BY ThisOrigin, Constants DEF FilesOK, Header
  <2> HIDE DEF first
  <2>3. csv \o first \in Seq(Origin)
    BY <2>2
  <2> DEFINE s == csv \o first
  <2> HIDE DEF s
  <2>4. s \in Seq(Origin) /\ csv' = s \o <<This>>
    BY <2>1, <2>3 DEF s
  <2>5. Len(csv') = Len(s) + 1 /\ Len(s) \in Nat /\ csv'[Len(s) + 1] = This
    BY <2>2, <2>4
  <2> QED
    BY <2>1, <2>4, <2>5
<1>4. CASE Pulls(driver)
  <2>1. at > 10 /\ at' > 10 /\ (at' = End => WriteRow \/ Records(driver))
    BY <1>1, <1>4, PullSites
  <2>2. PullClear'
    BY <1>1, <1>2, <1>4, <2>1 DEF Clear, PullClear, hosts, AllNone
  <2>3. ASSUME Records(driver) PROVE KeptClear'
    <3>1. at > 9 /\ at > 10
      BY <2>1 DEF ControlOK
    <3>2. recP[pos] = This /\ recF[pos] = This
      BY <2>3, <3>1 DEF Clear, KeptClear
    <3>3. recP'[pos'] = This' /\ recF'[pos'] = This'
      BY <1>1, <1>2, <3>2 DEF recs
    <3> QED
      BY <3>3 DEF KeptClear
  <2>4. Written'
    BY <1>2, <1>3, <2>1 DEF Written
  <2> QED
    BY <1>1, <1>2, <1>4, <2>2, <2>3, <2>4, GoneOn DEF Clear
<1>5. CASE ~Pulls(driver)
  <2>1. at > 3 /\ at' > 3 /\ (at' = End => WriteRow)
    BY <1>1, <1>5, TruthSites
  <2>2. TruthClear'
    BY <1>1, <1>5, <2>1 DEF Clear, TruthClear, hosts, AllNone
  <2>3. Written'
    BY <1>2, <1>3, <2>1 DEF Written
  <2> QED
    BY <1>1, <1>2, <1>5, <2>2, <2>3, GoneOn DEF Clear, Records, Pulls
<1> QED
  BY <1>4, <1>5

LEMMA PullUntroubled ==
  ASSUME Types, CallInv, Clear, ~trouble', CallPullContainer, at' # 0
  PROVE  Clear'
<1> USE DEF Types
<1>1. /\ At("pull") /\ at # 0 /\ UNCHANGED <<loop, hosts, files, recs>> /\ session \in Line
  BY ThisOrigin, AtRuns DEF CallPullContainer, Request, Answered, Stop
<1>2. Pulls(driver) /\ at = 9 /\ End > 10 /\ End' = End
  BY <1>1, PullSites, TruthSites DEF loop, End
<1>3. alias' = alias /\ session' = session /\ driver' = driver /\ pos' = pos /\ This' = This
  BY <1>1 DEF loop, alias, This
<1>4. rpc[session].stage # "failed" /\ PullClear /\ (Records(driver) => KeptClear)
  BY <1>2 DEF Clear
<1>5. CASE Request("pull", "inspect")
  <2>1. /\ at' = at /\ rpc'[session].stage = "inspect" /\ rpc[session].stage = "idle"
        /\ \E c : rpc' = [rpc EXCEPT ![session] = c]
    BY <1>1, <1>5 DEF Request, Calls, RpcOK
  <2>2. PullClear'
    BY <1>1, <1>2, <1>3, <1>4, <2>1 DEF PullClear, hosts
  <2>3. Records(driver) => KeptClear'
    BY <1>1, <1>2, <1>3, <1>4, <2>1 DEF KeptClear, Carrying, recs
  <2>4. Written'
    BY <1>2, <2>1 DEF Written
  <2> QED
    BY <1>1, <1>2, <2>1, <2>2, <2>3, <2>4, GoneOn
<1>6. CASE Answered("pull", "ok") /\ GoOn
  <2>1. /\ at' = 10 /\ rpc[session].stage = "ok"
        /\ rpc' = [rpc EXCEPT ![session] = Idle] /\ rpc'[session].stage = "idle"
    BY <1>1, <1>2, <1>6 DEF Answered, GoOn, RpcOK, Idle
  <2>2. PullClear'
    BY <1>1, <1>2, <1>3, <1>4, <2>1 DEF PullClear, hosts
  <2>3. Records(driver) => KeptClear'
    BY <1>1, <1>2, <1>3, <1>4, <2>1 DEF KeptClear, Carrying, recs
  <2>4. Written'
    BY <1>2, <2>1 DEF Written
  <2> QED
    BY <1>1, <1>2, <2>1, <2>2, <2>3, <2>4, GoneOn
<1>7. ~Answered("pull", "failed")
  BY <1>4 DEF Answered
<1> QED
  BY <1>5, <1>6, <1>7 DEF CallPullContainer

LEMMA RecordUntroubled ==
  ASSUME Types, CallInv, Clear, ~trouble', CallRecordFReset, at' # 0
  PROVE  Clear'
<1> USE DEF Types
<1>1. /\ At("record") /\ at # 0 /\ UNCHANGED <<loop, hosts, files, recs>> /\ session \in Line
  BY ThisOrigin, AtRuns DEF CallRecordFReset, Request, Answered, Stop
<1>2. Pulls(driver) /\ at = 10 /\ End > 10 /\ (~Records(driver) => End > 11) /\ End' = End
  BY <1>1, PullSites, TruthSites DEF loop, End
<1>3. alias' = alias /\ session' = session /\ driver' = driver /\ pos' = pos /\ This' = This
  BY <1>1 DEF loop, alias, This
<1>4. rpc[session].stage # "failed" /\ PullClear /\ (Records(driver) => KeptClear)
  BY <1>2 DEF Clear
<1>5. CASE Request("record", "wait")
  <2>1. /\ at' = at /\ rpc'[session].stage = "wait" /\ rpc[session].stage = "idle"
        /\ \E c : rpc' = [rpc EXCEPT ![session] = c]
    BY <1>1, <1>5 DEF Request, Calls, RpcOK
  <2>2. PullClear'
    BY <1>1, <1>2, <1>3, <1>4, <2>1 DEF PullClear, hosts
  <2>3. Records(driver) => KeptClear'
    BY <1>1, <1>2, <1>3, <1>4, <2>1 DEF KeptClear, Carrying, recs
  <2>4. Written'
    BY <1>2, <2>1 DEF Written
  <2> QED
    BY <1>1, <1>2, <2>1, <2>2, <2>3, <2>4, GoneOn
<1>6. CASE Answered("record", "ok") /\ GoOn
  <2>1. /\ at' = 11 /\ rpc[session].stage = "ok"
        /\ rpc' = [rpc EXCEPT ![session] = Idle] /\ rpc'[session].stage = "idle"
    BY <1>1, <1>2, <1>6 DEF Answered, GoOn, RpcOK, Idle
  <2>2. PullClear'
    BY <1>1, <1>2, <1>3, <1>4, <2>1 DEF PullClear, hosts, AllNone
  <2>3. Records(driver) => KeptClear'
    BY <1>1, <1>2, <1>3, <1>4, <2>1 DEF KeptClear, recs
  <2>4. Written'
    BY <1>2, <1>3, <2>1 DEF Written
  <2> QED
    BY <1>1, <1>2, <2>1, <2>2, <2>3, <2>4, GoneOn
<1>7. ~Answered("record", "failed")
  BY <1>4 DEF Answered
<1> QED
  BY <1>5, <1>6, <1>7 DEF CallRecordFReset

\* A container that ends by itself.
LEMMA ExitUntroubled ==
  ASSUME Types, Clear, at # 0, NEW e \in Name, ContainerExit(e), ~trouble'
  PROVE  Clear'
<1> USE DEF Types
<1>1. /\ UNCHANGED <<loop, at, rpc, files, recs>>
      /\ \/ src[e].st = "running" /\ src' = [src EXCEPT ![e].st = "exited"] /\ ~Pulls(driver)
         \/ dst[e].st = "running" /\ dst' = [dst EXCEPT ![e].st = "exited"] /\ UNCHANGED src
  BY DEF ContainerExit
<1>2. alias' = alias /\ alias \in Name /\ session' = session /\ driver' = driver /\ pos' = pos /\ This' = This
  BY <1>1, ThisOrigin DEF loop, alias, This
<1>3. Written'
  BY <1>1 DEF Clear, Written, End, This, loop, files
<1>4. ASSUME Pulls(driver) PROVE PullClear'
  <2>1. /\ dst[e].st = "running" /\ dst' = [dst EXCEPT ![e].st = "exited"] /\ src' = src
    BY <1>1, <1>4 DEF PullClear
  <2>2. /\ \A c \in Name \ {e} : dst'[c] = dst[c]
        /\ dst'[e].st = "exited" /\ dst'[e].id = dst[e].id
    BY <2>1 DEF HostsOK, Container
  <2>3. PullClear
    BY <1>4 DEF Clear
  <2>4. AllNone(dst) => FALSE
    BY <2>1 DEF AllNone
  <2>5. \/ dst'[alias] = dst[alias]
        \/ dst[alias].st = "running" /\ dst'[alias].st = "exited" /\ dst'[alias].id = dst[alias].id
    BY <1>2, <2>1, <2>2
  <2>6. at' = at /\ rpc' = rpc
    BY <1>1
  <2>7. /\ at < 9 => dst'[alias].st = "none"
        /\ at = 8 => src[alias].st = "none"
        /\ ~(at > 10)
    BY <2>3, <2>4, <2>5 DEF PullClear
  <2>8. at = 9 =>
          /\ rpc[session].stage \in {"idle", "inspect", "checkpoint"} => src[alias].st = "running"
          /\ rpc[session].stage \in {"idle", "inspect", "checkpoint", "create"} => dst'[alias].st = "none"
          /\ rpc[session].stage = "start" => dst'[alias] = [st |-> "created", id |-> rpc[session].id]
          /\ rpc[session].stage = "ok" => dst'[alias].st \in Ran /\ dst'[alias].id = This
    BY <2>3, <2>5 DEF PullClear, Ran
  <2>9. at = 10 =>
          /\ rpc[session].stage \in {"idle", "wait"} => dst'[alias].st \in Ran /\ dst'[alias].id = This
          /\ rpc[session].stage \in {"rename", "wipe"} => rpc[session].ok
          /\ rpc[session].stage = "rename" => rpc[session].id = This
          /\ rpc[session].stage # "ok"
    BY <2>3, <2>4, <2>5 DEF PullClear, Ran
  <2> QED
    BY <1>2, <2>1, <2>6, <2>7, <2>8, <2>9 DEF PullClear
<1>5. ASSUME ~Pulls(driver) PROVE TruthClear'
  <2>1. TruthClear
    BY <1>5 DEF Clear
  <2>2. CASE src' = src
    BY <1>1, <1>2, <2>1, <2>2 DEF TruthClear, AllNone
  <2>3. CASE src[e].st = "running" /\ src' = [src EXCEPT ![e].st = "exited"]
    <3>1. /\ \A c \in Name \ {e} : src'[c] = src[c]
          /\ src'[e].st = "exited"
      BY <2>3 DEF HostsOK, Container
    <3> QED
      BY <1>1, <1>2, <2>1, <2>3, <3>1 DEF TruthClear, AllNone, Ran
  <2> QED
    BY <1>1, <2>2, <2>3
<1>6. Records(driver) => KeptClear'
  BY <1>1, <1>2 DEF Clear, KeptClear, recs
<1> QED
  BY <1>1, <1>2, <1>3, <1>4, <1>5, <1>6 DEF Clear, OthersDone

LEMMA UntroubledStep ==
  ASSUME Types, CallInv, RunInv, UntroubledInv, [Next]_vars
  PROVE  UntroubledInv'
<1> USE DEF Types
<1>1. ControlOK'
  BY NextMoves, ControlStep
<1> SUFFICES ASSUME ~trouble' PROVE (at' # 0 => Clear') /\ (at' = 0 => pos' = Last)
  BY DEF UntroubledInv
<1>2. ASSUME UNCHANGED <<vars>> PROVE (at' # 0 => Clear') /\ (at' = 0 => pos' = Last)
  BY <1>2 DEF vars, loop, local, hosts, files, recs, UntroubledInv, Clear, OthersDone, PullClear, KeptClear, TruthClear, Written,
     AllNone, alias, This, End
<1>3. ASSUME NEW s \in Line, Agent(s) PROVE (at' # 0 => Clear') /\ (at' = 0 => pos' = Last)
  BY <1>3, AgentUntroubled, AgentTrouble, AgentKeeps DEF UntroubledInv, loop
<1>4. CASE StartDriver
  BY <1>1, <1>4, StartUntroubled DEF StartDriver
<1>5. ~Kill /\ ~AgentCrash(OnDestination) /\ ~AgentCrash(OnRegistry) /\ ~LoseConnection
  BY DEF Kill, AgentCrash, LoseConnection, Trouble
<1>6. ASSUME NEW e \in Name, ContainerExit(e) PROVE (at' # 0 => Clear') /\ (at' = 0 => pos' = Last)
  BY <1>6, ExitUntroubled DEF ContainerExit, UntroubledInv, Smooth, loop
<1>7. CASE NextIteration
  <2>1. at' = 0 => pos' = Last
    BY <1>7, Ends, EndNotZero DEF NextIteration, Begin, Stop, loop
  <2> QED
    BY <1>1, <1>7, <2>1, LoopUntroubled
<1>8. CASE CallSetBandwidthLimit
  <2>1. at' # 0
    <3>1. ASSUME at' = 0 PROVE Answered("limit", "failed") /\ Smooth
      <4>1. at \in Nat /\ at # 0
        BY <1>8, EndNotZero, StepRuns DEF Step, ControlOK
      <4> QED
        BY <1>8, <3>1, <4>1 DEF CallSetBandwidthLimit, Request, Begin, GoOn
    <3>2. ASSUME at' = 0 PROVE FALSE
      <4>1. Clear
        BY <1>8, <3>1, <3>2, StepRuns DEF Step, UntroubledInv, Smooth
      <4> QED
        BY <3>1, <3>2, <4>1 DEF Clear, Answered
    <3> QED
      BY <3>2
  <2> QED
    BY <1>1, <1>8, <2>1, LimitUntroubled
<1>9. ASSUME ShapeSource \/ Rest PROVE ~trouble /\ at # 0 /\ Clear
  <2>1. ~trouble
    BY <1>9 DEF ShapeSource, Tc, Rest, ResetSource, DockerRun, CallPullContainer, CallRecordFReset, Request,
       WaitOnSource, Raced, StatFile, OpenFile, WriteRow, Smooth, Trouble
  <2>2. at # 0
    BY <1>9, StepRuns DEF Step, Rest
  <2> QED
    BY <2>1, <2>2 DEF UntroubledInv
<1>10. ASSUME ShapeSource \/ Rest PROVE at' # 0
  <2>1. /\ at \in Nat /\ End # 0 /\ Clear
    BY <1>9, <1>10, EndNotZero DEF ControlOK
  <2>2. ~(Answered("pull", "failed") \/ Answered("record", "failed"))
    BY <2>1 DEF Clear, Answered
  <2>3. at' = at + 1 \/ at' = at \/ at' = End
    <3>1. CASE ShapeSource \/ ResetSource \/ DockerRun \/ WaitOnSource
      BY <3>1 DEF ShapeSource, ResetSource, DockerRun, RunFailed, WaitOnSource, GoOn, Continue
    <3>2. CASE CallPullContainer \/ CallRecordFReset
      BY <2>2, <3>2 DEF CallPullContainer, CallRecordFReset, Request, GoOn
    <3>3. CASE StatFile \/ OpenFile \/ WriteRow
      BY <3>3 DEF StatFile, OpenFile, WriteRow, GoOn, Continue
    <3> QED
      BY <1>10, <3>1, <3>2, <3>3, Zenon DEF Rest
  <2> QED
    BY <1>9, <1>10, <2>1, <2>3
<1>11. CASE ShapeSource \/ Rest
  BY <1>9, <1>10, <1>11, SourceUntroubled, ResetUntroubled, RunUntroubled, PullUntroubled, RecordUntroubled,
     WaitUntroubled, FileUntroubled DEF Rest
<1> QED
  BY <1>2, <1>3, <1>4, <1>5, <1>6, <1>7, <1>8, <1>11, Zenon DEF Next, Step, Rest, Finished

-----------------------------------------------------------------------------
(* The theorems. *)

LEMMA TypesAlways == Spec => []Types
<1>1. Init => Types
  BY InitType
<1>2. Types /\ [Next]_vars => Types'
  BY NextType
<1> QED
  BY <1>1, <1>2, PTL DEF Spec

LEMMA CallsAlways == Spec => []CallInv
<1>1. Init => CallInv
  BY DEF Init, CallInv
<1>2. Types /\ CallInv /\ [Next]_vars => CallInv'
  BY CallStep
<1> QED
  BY <1>1, <1>2, TypesAlways, PTL DEF Spec

LEMMA HeaderAlways == Spec => []HeaderInv
<1>1. Init => HeaderInv
  <2>1. ASSUME Init PROVE \A step : ~At(step)
    BY <2>1, InitType, AtRuns DEF Init, Types
  <2> QED
    BY <2>1 DEF Init, HeaderInv, HeaderFirst
<1>2. Types /\ HeaderInv /\ [Next]_vars => HeaderInv'
  BY HeaderStep
<1> QED
  BY <1>1, <1>2, TypesAlways, PTL DEF Spec

\* The state of the drivers, the agents' calls, the hosts and the files has the type
\* that the code gives it: in particular a driver is at a place of its own program,
\* the loops are at positions that the configuration has, no call exists of a driver
\* that has not been started, and the CSV file exists once it has a line.
THEOREM TypeCorrect == Spec => []TypeOK
<1>1. Types /\ HeaderInv => TypeOK
  BY DEF Types, ControlOK, LocalOK, HostsOK, TcOK, RpcOK, FilesOK, RecsOK, HeaderInv, TypeOK, Shaped, Rates, Call, Stage
<1> QED
  BY <1>1, TypesAlways, HeaderAlways, PTL

\* recordMigrationData writes the header once, as the first line, whatever drivers
\* write to the file one after the other, and wherever in between one was killed or
\* the disk was full.
THEOREM HeaderOnce == Spec => []HeaderFirst
<1>1. HeaderInv => HeaderFirst
  BY DEF HeaderInv
<1> QED
  BY <1>1, HeaderAlways, PTL

LEMMA RunAlways == Spec => []RunInv
<1>1. Init => RunInv
  <2>1. ASSUME Init PROVE \A step : ~At(step)
    BY <2>1, InitType, AtRuns DEF Init, Types
  <2> QED
    BY <2>1 DEF RunInv, RecordsThisRun
<1>2. Types /\ CallInv /\ RunInv /\ [Next]_vars => RunInv'
  BY RunStep
<1> QED
  BY <1>1, <1>2, TypesAlways, CallsAlways, PTL DEF Spec

\* What a row is made of, and the pull after which a driver has the destination record
\* accesses, is of the container that this iteration of this driver started on the
\* source, in all four drivers.  Whose accesses the destination then records is not
\* said here: RecordFReset waits for a container by name, and a call that an earlier
\* driver left behind may have put another there; NothingSkipped has the rest.
THEOREM RowsOfThisRun == Spec => []RecordsThisRun
<1>1. RunInv => RecordsThisRun
  BY DEF RunInv
<1> QED
  BY <1>1, RunAlways, PTL

\* From its reset of the source to its row an iteration runs under the limit of its
\* own bandwidth, on the source and on the registry's host, unless a command failed
\* that tc would not have refused or, on the registry's host, a command for somebody
\* else was run there since this driver's own call began: of a killed driver, or of
\* an earlier call of this one whose connection broke.
THEOREM LimitsHold == Spec => []UnderLimit
<1>1. Init => SourceInv /\ RegistryInv
  BY DEF Init, SourceInv, RegistryInv
<1>2. Types /\ SourceInv /\ [Next]_vars => SourceInv'
  BY SourceStep
<1>3. Types /\ CallInv /\ RegistryInv /\ [Next]_vars => RegistryInv'
  BY RegistryStep
<1>4. Types /\ SourceInv /\ RegistryInv => UnderLimit
  <2> SUFFICES ASSUME Types, SourceInv, RegistryInv, Pulls(driver), at >= Body(driver)
               PROVE  /\ tc["source"].sure => InForce("source", bw)
                      /\ tc["registry"].sure => InForce("registry", bw)
    BY DEF UnderLimit
  <2>1. at > 6 /\ at # 0 /\ at # 1
    BY Ends, EndNotZero DEF Types, ControlOK
  <2>2. ~At("limit")
    BY <2>1, LimitPlaces DEF Types
  <2>3. /\ tc["source"].sure => Limits(tc["source"], 5, bw)
        /\ tc["registry"].sure => Limits(tc["registry"], 5, bw)
    BY <2>1, <2>2 DEF SourceInv, RegistryInv
  <2> QED
    BY <2>3, UptoSets DEF Limits, InForce
<1> QED
  BY <1>1, <1>2, <1>3, <1>4, TypesAlways, CallsAlways, PTL DEF Spec

LEMMA PredictAlways == Spec => []PredictInv
<1>1. Init => PredictInv
  <2>1. ASSUME Init PROVE \A step : ~At(step)
    BY <2>1, InitType, AtRuns DEF Init, Types
  <2>2. Init => \A s \in Line : rpc[s].stage = "idle"
    BY DEF Init, Idle
  <2> QED
    BY <2>1, <2>2 DEF Init, PredictInv, OutcomePredicted, Predicted
<1>2. Init => Identified
  BY DEF Init, Identified, None
<1>3. Types /\ CallInv /\ Identified /\ PredictInv /\ [Next]_vars => PredictInv' /\ Identified'
  BY PredictStep, IdentifiedStep
<1> QED
  BY <1>1, <1>2, <1>3, TypesAlways, CallsAlways, PTL DEF Spec

\* PF keeps the accesses of a container on the destination only where those on the
\* source have been kept, of the same position: CheckpointContainer, which keeps
\* those, comes before the answer that RecordFReset is called upon, and a failure to
\* keep them ends the pull.
THEOREM Predictions == Spec => []OutcomePredicted
<1>1. PredictInv => OutcomePredicted
  BY DEF PredictInv
<1> QED
  BY <1>1, PredictAlways, PTL

\* An iteration that neither fails nor begins with something in its way is recorded:
\* by the end of its loop body the last line of the file is its own or, of PF, both
\* of its records have been kept.  A driver that meets no failure ends only behind
\* the last position of its loops.
THEOREM NothingSkipped == Spec => []Recorded
<1>1. Init => UntroubledInv
  BY DEF Init, UntroubledInv
<1>2. Types /\ CallInv /\ RunInv /\ UntroubledInv /\ [Next]_vars => UntroubledInv'
  BY UntroubledStep
<1>3. Types /\ UntroubledInv => Recorded
  <2> SUFFICES ASSUME Types, UntroubledInv, ~trouble
               PROVE  /\ at # 0 /\ at = End =>
                            IF Records(driver) THEN recP[pos] = This /\ recF[pos] = This
                            ELSE csv # <<>> /\ csv[Len(csv)] = This
                      /\ at = 0 => pos = Last
    BY DEF Recorded
  <2>1. ASSUME at # 0, at = End, Records(driver) PROVE recP[pos] = This /\ recF[pos] = This
    <3>1. Pulls(driver) /\ Clear
      BY <2>1 DEF Records, Pulls, UntroubledInv
    <3>2. at > 10
      BY <2>1, <3>1, PullSites DEF Types
    <3> QED
      BY <2>1, <3>1, <3>2 DEF Types, ControlOK, Clear, KeptClear
  <2>2. ASSUME at # 0, at = End, ~Records(driver) PROVE csv # <<>> /\ csv[Len(csv)] = This
    BY <2>2 DEF UntroubledInv, Clear, Written
  <2> QED
    BY <2>1, <2>2 DEF UntroubledInv
<1> QED
  BY <1>1, <1>2, <1>3, TypesAlways, CallsAlways, RunAlways, PTL DEF Spec

=============================================================================
