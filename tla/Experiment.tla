------------------------------ MODULE Experiment -----------------------------
(***************************************************************************)
(* The experiment drivers (cmd/expCollectPF, expCollectT, getthroughput,   *)
(* getgroundtruth): loops over bandwidths, images and iterations that run  *)
(* on the source host.  Most of them limit the bandwidth (exputils/        *)
(* setbw.go), reset the source, run a container, have the destination's    *)
(* agent pull it, have that agent let it run, keep a record and wipe the   *)
(* destination, and append a row to a CSV file.                            *)
(*                                                                         *)
(* The drivers are started one after the other, by hand, and may be killed *)
(* at any point, and their connections to the agents may break.  The       *)
(* agents do not notice: a call that a driver has made is carried out to   *)
(* its end, beside the next calls of that driver or of the next one.  Here *)
(* a pull is what ContainerMigration shows of it in four steps, and the    *)
(* wipe of the destination, which HostReset opens, is one.                 *)
(***************************************************************************)
EXTENDS Naturals, Sequences

CONSTANTS
  Driver,         \* the drivers that are used in this instance
  Bandwidth,      \* cfg.BandwidthLimit, a sequence
  ContainerList,  \* cfg.ContainerList, a sequence of the images' aliases
  Iteration,      \* cfg.Iteration
  Faults,         \* the operations that may fail in this instance
  TcFaults,       \* the tc commands of a host that may fail in this instance
  Events,         \* what else may happen in this instance
  MaxSession,     \* bound on the drivers that are started; the last is not killed
  MaxLost         \* bound on the calls that go on after their connection broke

FaultKind == {"rpc", "reset", "run", "pull", "start", "rename", "disk"}
EventKind == {"kill", "crash", "exit"}

ASSUME ExperimentAssumption ==
  /\ Driver \subseteq {"PF", "T", "throughput", "groundtruth"}
  /\ Bandwidth \in Seq(Nat \ {0}) /\ Len(Bandwidth) > 0
  /\ ContainerList \in Seq(STRING) /\ Len(ContainerList) > 0
  /\ Iteration \in Nat \ {0}
  /\ Faults \subseteq FaultKind
  /\ TcFaults \subseteq {"source", "registry"} \X {"del", "root", "class", "netem", "filter"}
  /\ Events \subseteq EventKind
  /\ MaxSession \in Nat /\ MaxLost \in Nat

(***************************************************************************)
(* The drivers: the commands of SetBW, and what each loop does.            *)
(***************************************************************************)
SetBW == <<"del", "root", "class", "netem", "filter">>
Limit == <<"limit">> \o SetBW

ExpCollectPF   == Limit \o <<"stargz", "run", "pull", "record">>
ExpCollectT    == Limit \o <<"stargz", "run", "pull", "record", "stat", "open", "write">>
GetThroughput  == Limit \o <<"overlay", "run", "pull", "record", "stat", "open", "write">>
GetGroundTruth == <<"run", "wait", "keep", "stat", "open", "write">>

Program == [PF |-> ExpCollectPF, T |-> ExpCollectT,
            throughput |-> GetThroughput, groundtruth |-> GetGroundTruth]

Pulls(d)   == d # "groundtruth"
\* Only PF has records of file accesses kept, and only the others write rows.
Records(d) == d = "PF"
\* Where a loop begins anew for the next container.
Body(d)    == IF Pulls(d) THEN Len(Limit) + 1 ELSE 1

Position == [bw : DOMAIN Bandwidth, image : DOMAIN ContainerList, i : 1..Iteration]
First == [bw |-> 1, image |-> 1, i |-> 1]
Last  == [bw |-> Len(Bandwidth), image |-> Len(ContainerList), i |-> Iteration]

\* Variant: the inner loop runs once too often.
AfterOneMore(p) ==
  IF p.i <= Iteration THEN [p EXCEPT !.i = @ + 1] ELSE [First EXCEPT !.bw = p.bw + 1]

\* The position after p in the three loops.
After(p) ==
  IF p.i < Iteration THEN [p EXCEPT !.i = @ + 1]
  ELSE IF p.image < Len(ContainerList) THEN [p EXCEPT !.image = @ + 1, !.i = 1]
  ELSE [First EXCEPT !.bw = p.bw + 1]

Session   == 1..MaxSession
\* Calls: the one that a driver waits for, and those whose connection broke.
Line      == 1..(MaxSession + MaxLost)
Lost      == (MaxSession + 1)..(MaxSession + MaxLost)
\* A driver's iteration, by which its container and its row are told from others.
Origin    == [time : 0..MaxSession, pos : Position]
Nobody    == [time |-> 0, pos |-> First]
Container == [st : {"none", "created", "running", "exited"}, id : Origin]
None      == [st |-> "none", id |-> Nobody]
Name      == {ContainerList[k] : k \in DOMAIN ContainerList}
Header    == Nobody
Unshaped  == [has |-> {}, rate |-> 0, sure |-> TRUE]

OnRegistry    == {SetBW[k] : k \in DOMAIN SetBW}
OnDestination == {"inspect", "checkpoint", "create", "start", "wait", "rename", "wipe"}
InProgress    == OnRegistry \cup OnDestination
Idle == [stage |-> "idle", pos |-> First, file |-> FALSE, ok |-> TRUE, id |-> Nobody]

VARIABLES
  session,  \* the number of drivers started so far
  driver,   \* the last of them
  at,       \* its place in its program; 0 if it has ended
  pos,      \* where its loops are
  head,     \* recordMigrationData: whether the header is still to be written
  res,      \* the container that its last pull brought over, or that it waited for
  src,      \* src[c]: the container named c on the source
  dst,      \* dst[c]: the container named c on the destination
  tc,       \* the traffic control of the source and of the registry's host
  rpc,      \* rpc[s]: the call that an agent carries out, for the driver s or nobody
  made,     \* whether the CSV file exists
  csv,      \* its lines
  recP,     \* recP[p]: the container whose accesses on the source have been kept for p
  recF,     \* recF[p]: that whose accesses on the destination have been kept for p
  trouble   \* whether something that went wrong may still affect this iteration

loop  == <<session, driver, pos>>
local == <<head, res>>
hosts == <<src, dst>>
files == <<made, csv>>
recs  == <<recP, recF>>
vars  == <<loop, at, local, hosts, tc, rpc, files, recs, trouble>>

alias      == ContainerList[pos.image]
bw         == Bandwidth[pos.bw]
This       == [time |-> session, pos |-> pos]
At(step)   == at \in DOMAIN Program[driver] /\ Program[driver][at] = step
End        == Len(Program[driver]) + 1
MayFail(k) == k \in Faults
Smooth     == UNCHANGED trouble
Trouble    == trouble' = TRUE
GoOn       == at' = at + 1
Continue   == at' = End

\* The local variables of an iteration go with it.
Forget == head' = FALSE /\ res' = Nobody

\* The driver ends, or dies.
Stop == at' = 0 /\ Forget /\ UNCHANGED loop

Init ==
  /\ session = 0 /\ driver \in Driver /\ at = 0 /\ pos = Last
  /\ head = FALSE /\ res = Nobody
  /\ src = [c \in Name |-> None] /\ dst = [c \in Name |-> None]
  /\ tc = [h \in {"source", "registry"} |-> Unshaped]
  /\ rpc = [s \in Line |-> Idle]
  /\ made = FALSE /\ csv = <<>>
  /\ recP = [p \in Position |-> Nobody] /\ recF = [p \in Position |-> Nobody]
  /\ trouble = FALSE

(***************************************************************************)
(* SetBW, which the driver runs on the source and SetBandwidthLimit on the *)
(* registry's host.  It logs a command that fails and goes on.             *)
(***************************************************************************)
Needs == [root |-> {}, class |-> {"root"}, netem |-> {"class"}, filter |-> {"root"}]

\* What tc accepts: nothing is added twice, or to what is not there.
Accepted(has, command) ==
  IF command = "del" THEN "root" \in has
  ELSE command \notin has /\ Needs[command] \subseteq has

Added(shape, command, rate) ==
  IF Accepted(shape.has, command)
    THEN [shape EXCEPT !.has  = @ \cup {command},
                       !.rate = IF command = "class" THEN rate ELSE @]
    ELSE shape

\* Variant: the old qdisc is not deleted.
ShapeOver(shape, command, rate) ==
  IF command = "del" THEN [shape EXCEPT !.sure = TRUE] ELSE Added(shape, command, rate)

\* The traffic control of a host after one command of SetBW.
Shape(shape, command, rate) ==
  IF command = "del" THEN Unshaped ELSE Added(shape, command, rate)

\* The command leaves that shape, or fails, besides those that the kernel refuses;
\* one of a host at a time.
Tc(h, command, shape) ==
  /\ \/ tc' = [tc EXCEPT ![h] = shape]
     \/ <<h, command>> \in TcFaults /\ (\A g \in DOMAIN tc : tc[g].sure) /\ tc' = [tc EXCEPT ![h].sure = FALSE]
  /\ Smooth

\* tc holds traffic to the destination to a rate once all of it is there.
InForce(h, rate) == tc[h].has = OnRegistry \ {"del"} /\ tc[h].rate = rate

(***************************************************************************)
(* The agents.  A call goes on whatever becomes of the driver.             *)
(***************************************************************************)
Goto(s, stage)   == rpc' = [rpc EXCEPT ![s].stage = stage]
Calls(stage, id) ==
  rpc' = [rpc EXCEPT ![session] =
            [stage |-> stage, pos |-> pos, file |-> Records(driver), ok |-> TRUE, id |-> id]]

\* The container a call is about, by name.
Called(s) == ContainerList[rpc[s].pos.image]

\* An agent answers, and the answer may be lost; or the connection has broken
\* before (LoseConnection), and nobody is there to take it.
Reply(s, answer) ==
  \/ Goto(s, answer) /\ Smooth
  \/ MayFail("rpc") /\ Goto(s, "failed") /\ Trouble

\* A command on the registry's host for somebody else than the driver who counts
\* on its limit.
Foreign(s, shape) == IF s = session THEN shape ELSE [shape EXCEPT !.sure = FALSE]

\* On the registry: the next command of SetBW, which never reports a failure; only
\* the answer may be lost.
SetBandwidthLimit(s) ==
  \E k \in DOMAIN SetBW :
    LET shape == Foreign(s, Shape(tc["registry"], SetBW[k], Bandwidth[rpc[s].pos.bw]))
    IN /\ rpc[s].stage = SetBW[k]
       /\ \/ /\ Tc("registry", SetBW[k], shape)
             /\ Goto(s, IF k < Len(SetBW) THEN SetBW[k + 1] ELSE "ok")
          \/ /\ k = Len(SetBW) /\ MayFail("rpc")
             /\ tc' = [tc EXCEPT !["registry"] = shape]
             /\ Goto(s, "failed") /\ Trouble
       /\ UNCHANGED <<loop, at, local, hosts, files, recs>>

\* pullContainer up to the checkpoint: it needs the container to be there.
PullInspect(s) ==
  /\ rpc[s].stage = "inspect"
  /\ \/ src[Called(s)].st # "none" /\ Goto(s, "checkpoint") /\ Smooth
     \/ src[Called(s)].st = "none" /\ Goto(s, "failed") /\ Smooth
     \/ MayFail("pull") /\ Goto(s, "failed") /\ Trouble
  /\ UNCHANGED <<loop, at, local, hosts, tc, files, recs>>

\* The record of a container's accesses, if the request names a file for it.
Kept(rec, s, con) == IF rpc[s].file THEN [rec EXCEPT ![rpc[s].pos] = con.id] ELSE rec

\* Variant: a failure to keep the record is passed over.
RenameUnchecked(s) ==
  \/ /\ recP' = Kept(recP, s, src[Called(s)])
     /\ rpc' = [rpc EXCEPT ![s].stage = "create", ![s].id = src[Called(s)].id]
     /\ Smooth
  \/ /\ rpc[s].file /\ MayFail("rename")
     /\ rpc' = [rpc EXCEPT ![s].stage = "create", ![s].id = src[Called(s)].id]
     /\ Trouble /\ UNCHANGED recP

\* CheckpointContainer, once the process is stopped: the record of its accesses
\* is kept, if the request names a file for it, and the image sent.
SendCheckpoint(s) ==
  \/ /\ recP' = Kept(recP, s, src[Called(s)])
     /\ \/ /\ rpc' = [rpc EXCEPT ![s].stage = "create", ![s].id = src[Called(s)].id]
           /\ Smooth
        \/ MayFail("rpc") /\ Goto(s, "failed") /\ Trouble
  \/ /\ rpc[s].file /\ MayFail("rename")
     /\ Goto(s, "failed") /\ Trouble /\ UNCHANGED recP

\* The process is stopped, which Docker refuses if it is not running.
CheckpointContainer(s) ==
  /\ rpc[s].stage = "checkpoint"
  /\ \/ /\ src[Called(s)].st = "running"
        /\ src' = [src EXCEPT ![Called(s)].st = "exited"]
        /\ SendCheckpoint(s)
     \/ /\ src[Called(s)].st # "running"
        /\ Goto(s, "failed") /\ Smooth /\ UNCHANGED <<src, recP>>
  /\ UNCHANGED <<loop, at, local, dst, tc, files, recF>>

\* RestoreContainer: the container is created, if its name is free, ...
ContainerCreate(s) ==
  /\ rpc[s].stage = "create"
  /\ IF dst[Called(s)].st = "none"
       THEN /\ dst' = [dst EXCEPT ![Called(s)] = [st |-> "created", id |-> rpc[s].id]]
            /\ Goto(s, "start")
       ELSE Goto(s, "failed") /\ UNCHANGED dst
  /\ Smooth /\ UNCHANGED <<loop, at, local, src, tc, files, recs>>

\* ... and started from the checkpoint, if it is still there.
ContainerStart(s) ==
  /\ rpc[s].stage = "start"
  /\ \/ /\ dst[Called(s)] = [st |-> "created", id |-> rpc[s].id]
        /\ dst' = [dst EXCEPT ![Called(s)].st = "running"]
        /\ Reply(s, "ok")
     \/ /\ dst[Called(s)] # [st |-> "created", id |-> rpc[s].id]
        /\ Goto(s, "failed") /\ Smooth /\ UNCHANGED dst
     \/ MayFail("start") /\ Goto(s, "failed") /\ Trouble /\ UNCHANGED dst
  /\ UNCHANGED <<loop, at, local, src, tc, files, recs>>

\* Variant: no timer.
WaitedForExit(con) ==
  IF con.st = "running" THEN {} ELSE {[con |-> con, ok |-> con.st # "none"]}

\* What Wait (exputils/wait.go) makes of a container: whichever branch its select
\* takes, one that runs is stopped, and docker kill refuses one that has stopped.
Waited(con) ==
  CASE con.st = "running" -> {[con |-> [con EXCEPT !.st = "exited"], ok |-> TRUE]}
    [] con.st = "none"    -> {[con |-> con, ok |-> FALSE]}
    [] OTHER              -> {[con |-> con, ok |-> answer] : answer \in BOOLEAN}

\* Losing the race of timer and exit is what may go wrong here.
Raced(outcome) == trouble' = (trouble \/ (~outcome.ok /\ outcome.con.st # "none"))

\* RecordFReset: Wait, ...
RecordWait(s) ==
  /\ rpc[s].stage = "wait"
  /\ \E outcome \in Waited(dst[Called(s)]) :
       /\ dst' = [dst EXCEPT ![Called(s)] = outcome.con]
       /\ Raced(outcome)
       /\ rpc' = [rpc EXCEPT ![s].ok = outcome.ok, ![s].id = outcome.con.id,
                    ![s].stage = IF outcome.ok /\ rpc[s].file THEN "rename" ELSE "wipe"]
  /\ UNCHANGED <<loop, at, local, src, tc, files, recs>>

\* ... the record, if the request names a file for it, ...
RenameRecordFile(s) ==
  /\ rpc[s].stage = "rename"
  /\ \/ recF' = Kept(recF, s, rpc[s]) /\ Goto(s, "wipe") /\ Smooth
     \/ /\ MayFail("rename")
        /\ rpc' = [rpc EXCEPT ![s].ok = FALSE, ![s].stage = "wipe"]
        /\ Trouble /\ UNCHANGED recF
  /\ UNCHANGED <<loop, at, local, hosts, tc, files, recP>>

\* Variant: a reset only where something failed.
WipeAfterFailure(s) ==
  dst' = IF rpc[s].ok THEN dst ELSE [c \in Name |-> None]

Wipe(s) == dst' = [c \in Name |-> None]

\* A reset whose commands fail may stop the containers without removing them.
HalfReset(cons) ==
  {cons, [c \in Name |-> IF cons[c].st = "running" THEN [cons[c] EXCEPT !.st = "exited"] ELSE cons[c]]}

\* ... and the deferred reset of the destination.
DeferredReset(s) ==
  /\ rpc[s].stage = "wipe"
  /\ LET answer == IF rpc[s].ok THEN "ok" ELSE "failed"
     IN \/ Wipe(s) /\ Reply(s, answer)
        \/ MayFail("reset") /\ dst' \in HalfReset(dst) /\ Goto(s, answer) /\ Trouble
  /\ UNCHANGED <<loop, at, local, src, tc, files, recs>>

Agent(s) ==
  \/ SetBandwidthLimit(s)
  \/ PullInspect(s) \/ CheckpointContainer(s) \/ ContainerCreate(s) \/ ContainerStart(s)
  \/ RecordWait(s) \/ RenameRecordFile(s) \/ DeferredReset(s)

(***************************************************************************)
(* The drivers.                                                            *)
(***************************************************************************)

\* What earlier iterations or drivers have left in the way of one at p.
Leftover(d, p) ==
  \/ \E s \in Line : rpc[s].stage \in InProgress
  \/ (IF Pulls(d) THEN dst ELSE src)[ContainerList[p.image]].st # "none"

StartDriver ==
  /\ at = 0 /\ session < MaxSession
  /\ session' = session + 1
  /\ driver' \in Driver
  /\ pos' = First /\ at' = 1 /\ Forget
  /\ trouble' = Leftover(driver', First)
  /\ UNCHANGED <<hosts, tc, rpc, files, recs>>

\* The loops go on at position p, there being one.
Begin(p, first) ==
  /\ pos' = p /\ at' = first /\ Forget
  /\ trouble' = (trouble /\ Leftover(driver, p))
  /\ UNCHANGED <<session, driver>>

\* Once the loops are through, the driver ends.
NextIteration ==
  /\ at = End
  /\ IF pos = Last
       THEN Stop /\ Smooth
       ELSE LET p == After(pos)
            IN Begin(p, IF p.bw # pos.bw THEN 1 ELSE Body(driver))
  /\ UNCHANGED <<hosts, tc, rpc, files, recs>>

\* The client's side of an RPC: it is made, and later answered.  The response of
\* a call that failed is nil.
Request(step, stage) ==
  /\ At(step) /\ rpc[session].stage = "idle"
  /\ Calls(stage, res)
  /\ Smooth /\ UNCHANGED <<loop, at, local, hosts, tc, files, recs>>

Answered(step, answer) ==
  At(step) /\ rpc[session].stage = answer /\ rpc' = [rpc EXCEPT ![session] = Idle]

\* Without a limit on the registry the whole bandwidth is skipped.
CallSetBandwidthLimit ==
  \/ Request("limit", "del")
  \/ /\ \/ Answered("limit", "ok") /\ GoOn /\ Smooth /\ UNCHANGED <<loop, local>>
        \/ /\ Answered("limit", "failed")
           /\ IF pos.bw < Len(Bandwidth)
                THEN Begin([First EXCEPT !.bw = pos.bw + 1], 1)
                ELSE Stop /\ Smooth
     /\ UNCHANGED <<hosts, tc, files, recs>>

ShapeSource ==
  /\ \E k \in DOMAIN SetBW : At(SetBW[k]) /\ Tc("source", SetBW[k], Shape(tc["source"], SetBW[k], bw))
  /\ GoOn
  /\ UNCHANGED <<loop, local, hosts, rpc, files, recs>>

\* ResetStargz, ResetOverlay or, with the images kept, ResetOverlay(false).
ResetSource ==
  /\ At("stargz") \/ At("overlay") \/ At("keep")
  /\ \/ src' = [c \in Name |-> None] /\ Smooth
     \/ MayFail("reset") /\ src' \in HalfReset(src) /\ Trouble
  /\ GoOn
  /\ UNCHANGED <<loop, local, dst, tc, rpc, files, recs>>

\* Variant: a docker run that fails is logged and passed over.
RunOtherwise == GoOn

RunFailed == Continue

\* docker run; a name that is taken ends the iteration.
DockerRun ==
  /\ At("run")
  /\ \/ /\ src[alias].st = "none"
        /\ src' = [src EXCEPT ![alias] = [st |-> "running", id |-> This]]
        /\ GoOn /\ Smooth
     \/ src[alias].st # "none" /\ RunFailed /\ Smooth /\ UNCHANGED src
     \/ /\ MayFail("run") /\ src[alias].st = "none"
        /\ src' \in {src, [src EXCEPT ![alias] = [st |-> "created", id |-> This]]}
        /\ RunFailed /\ Trouble
  /\ UNCHANGED <<loop, local, dst, tc, rpc, files, recs>>

\* expCollectPF reads the response of the failed call, which ends it; the others
\* go on with the next iteration.
CallPullContainer ==
  \/ Request("pull", "inspect")
  \/ /\ \/ Answered("pull", "ok") /\ res' = rpc[session].id /\ GoOn /\ UNCHANGED <<loop, head>>
        \/ /\ Answered("pull", "failed")
           /\ IF Records(driver) THEN Stop ELSE Continue /\ UNCHANGED <<loop, local>>
     /\ Smooth /\ UNCHANGED <<hosts, tc, files, recs>>

\* The others also go on when this call fails: the row is written all the same.
CallRecordFReset ==
  \/ Request("record", "wait")
  \/ /\ \/ Answered("record", "ok") /\ GoOn /\ UNCHANGED <<loop, local>>
        \/ /\ Answered("record", "failed")
           /\ IF Records(driver) THEN Stop ELSE GoOn /\ UNCHANGED <<loop, local>>
     /\ Smooth /\ UNCHANGED <<hosts, tc, files, recs>>

\* getgroundtruth lets the container run where it is.
WaitOnSource ==
  /\ At("wait")
  /\ \E outcome \in Waited(src[alias]) :
       /\ src' = [src EXCEPT ![alias] = outcome.con]
       /\ Raced(outcome)
       /\ res' = outcome.con.id
       /\ IF outcome.ok THEN GoOn ELSE Continue
  /\ UNCHANGED <<loop, head, dst, tc, rpc, files, recs>>

(***************************************************************************)
(* recordMigrationData: the file is looked for, opened or made, and written*)
(* to in one go when the function returns.                                 *)
(***************************************************************************)
StatFile ==
  /\ At("stat")
  /\ head' = ~made
  /\ GoOn /\ Smooth
  /\ UNCHANGED <<loop, res, hosts, tc, rpc, files, recs>>

\* Variant: an empty file is taken for one that has its header.
HeadIfNew == head

\* A file that was there needs the header all the same if it is empty.
HeadNeeded == head \/ csv = <<>>

OpenFile ==
  /\ At("open")
  /\ \/ made' = TRUE /\ head' = HeadNeeded /\ GoOn /\ Smooth
     \/ MayFail("disk") /\ Continue /\ Trouble /\ UNCHANGED <<made, head>>
  /\ UNCHANGED <<loop, res, hosts, tc, rpc, csv, recs>>

\* A Flush that fails goes unnoticed.
WriteRow ==
  /\ At("write")
  /\ \/ csv' = csv \o (IF head THEN <<Header>> ELSE <<>>) \o <<This>> /\ Smooth
     \/ MayFail("disk") /\ Trouble /\ UNCHANGED csv
  /\ GoOn
  /\ UNCHANGED <<loop, local, hosts, tc, rpc, made, recs>>

Step ==
  \/ NextIteration
  \/ CallSetBandwidthLimit \/ ShapeSource \/ ResetSource \/ DockerRun
  \/ CallPullContainer \/ CallRecordFReset \/ WaitOnSource
  \/ StatFile \/ OpenFile \/ WriteRow

(***************************************************************************)
(* What else may happen.                                                   *)
(***************************************************************************)

\* A driver other than the last is killed; what it asked of an agent goes on.
Kill ==
  /\ "kill" \in Events /\ at # 0 /\ session < MaxSession
  /\ Stop /\ Trouble
  /\ UNCHANGED <<hosts, tc, rpc, files, recs>>

\* The connection of the driver's call breaks: the driver sees it fail, while the
\* agent, which does not look at the context of the call, goes on.
LoseConnection ==
  /\ MayFail("rpc") /\ at # 0 /\ rpc[session].stage \in InProgress
  /\ \E k \in Lost :
       /\ rpc[k] = Idle
       /\ rpc' = [rpc EXCEPT ![k] = rpc[session], ![session].stage = "failed"]
  /\ Trouble
  /\ UNCHANGED <<loop, at, local, hosts, tc, files, recs>>

\* An agent dies and is started again; its callers are told.
AgentCrash(calls) ==
  /\ "crash" \in Events
  /\ \E s \in Line : rpc[s].stage \in calls
  /\ rpc' = [s \in Line |->
       IF rpc[s].stage \in calls THEN [rpc[s] EXCEPT !.stage = "failed"] ELSE rpc[s]]
  /\ Trouble
  /\ UNCHANGED <<loop, at, local, hosts, tc, files, recs>>

\* A container ends by itself, which is in the way of a pull of it.
ContainerExit(c) ==
  /\ "exit" \in Events
  /\ \/ /\ src[c].st = "running" /\ src' = [src EXCEPT ![c].st = "exited"]
        /\ trouble' = (trouble \/ Pulls(driver)) /\ UNCHANGED dst
     \/ /\ dst[c].st = "running" /\ dst' = [dst EXCEPT ![c].st = "exited"]
        /\ Smooth /\ UNCHANGED src
  /\ UNCHANGED <<loop, at, local, tc, rpc, files, recs>>

\* Every driver has been used.
Finished == at = 0 /\ session = MaxSession /\ UNCHANGED vars

Next ==
  \/ StartDriver \/ Step \/ Kill \/ Finished
  \/ \E s \in Line : Agent(s)
  \/ LoseConnection
  \/ AgentCrash(OnDestination) \/ AgentCrash(OnRegistry)
  \/ \E c \in Name : ContainerExit(c)

Spec == Init /\ [][Next]_vars

Progress == Step \/ \E s \in Line : Agent(s)

\* Commands and calls end: docker run and docker wait (with its timer) do, and an
\* agent's death ends the calls made to it.  Drivers and agents do not wait for each
\* other but for an answer, so that it is enough that one of them goes on.
FairSpec == Spec /\ WF_vars(Progress)

-----------------------------------------------------------------------------
TypeOK ==
  /\ session \in 0..MaxSession /\ driver \in Driver
  /\ at \in 0..End /\ pos \in Position
  /\ head \in BOOLEAN /\ res \in Origin
  /\ src \in [Name -> Container] /\ dst \in [Name -> Container]
  /\ tc \in [{"source", "registry"} ->
               [has : SUBSET OnRegistry, rate : {0} \cup {Bandwidth[k] : k \in DOMAIN Bandwidth},
                sure : BOOLEAN]]
  /\ rpc \in [Line -> [stage : {"idle", "ok", "failed"} \cup InProgress, pos : Position,
                       file : BOOLEAN, ok : BOOLEAN, id : Origin]]
  /\ made \in BOOLEAN /\ csv \in Seq(Origin)
  /\ recP \in [Position -> Origin] /\ recF \in [Position -> Origin]
  /\ trouble \in BOOLEAN
  /\ csv # <<>> => made
  /\ at # 0 => \A s \in (session + 1)..MaxSession : rpc[s] = Idle

(***************************************************************************)
(* The CSV file that the drivers share begins with the header and has it   *)
(* nowhere else, wherever in recordMigrationData a driver was killed and   *)
(* whoever writes the next row.                                            *)
(***************************************************************************)
HeaderFirst ==
  csv # <<>> => csv[1] = Header /\ \A k \in 2..Len(csv) : csv[k] # Header

(***************************************************************************)
(* The figures a row is made of, and the pull after which a driver has the *)
(* destination record accesses, are of the container that this very        *)
(* iteration started: never of one that an earlier iteration, whose pull   *)
(* or reset failed, or another driver left behind under the same name.     *)
(* (Whose accesses the destination then records, Recorded says.)           *)
(***************************************************************************)
RecordsThisRun ==
  \/ At("stat") \/ At("open") \/ At("write")
  \/ At("record") \/ At("keep")
  => res = This

(***************************************************************************)
(* An experiment runs under the limit it is recorded under: from its reset *)
(* of the source to its row the rate of the interfaces is that of the      *)
(* iteration, whatever limit, complete or half set, was there before.  Not *)
(* so where a command failed that tc would not have refused; nor on the    *)
(* registry's host, if since this driver's own call has begun commands of  *)
(* another were run there, of a call that a killed driver made or whose    *)
(* connection broke.                                                       *)
(***************************************************************************)
UnderLimit ==
  Pulls(driver) /\ at >= Body(driver) =>
    /\ tc["source"].sure => InForce("source", bw)
    /\ tc["registry"].sure => InForce("registry", bw)

(***************************************************************************)
(* The accesses of a container on the destination are kept only if those   *)
(* on the source are, for the same position: a prediction (P) for every    *)
(* outcome (F).                                                            *)
(***************************************************************************)
OutcomePredicted == \A p \in Position : recF[p] # Nobody => recP[p] # Nobody

(***************************************************************************)
(* A failure costs no more than the iterations up to the first that finds  *)
(* its host free of what was left: one that neither fails nor begins with  *)
(* something in its way is recorded, with the accesses of its own          *)
(* container on both hosts, and a driver that meets no failure comes to    *)
(* the end of its loops.                                                   *)
(***************************************************************************)
Recorded ==
  ~trouble =>
    /\ at # 0 /\ at = End =>
         IF Records(driver) THEN recP[pos] = This /\ recF[pos] = This
         ELSE csv # <<>> /\ csv[Len(csv)] = This
    /\ at = 0 => pos = Last

(***************************************************************************)
(* Every driver ends, at the end of its loops or before, whatever fails.   *)
(***************************************************************************)
DriverEnds == at # 0 ~> at = 0

=============================================================================
