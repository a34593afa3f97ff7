------------------------------ MODULE HostReset ------------------------------
(***************************************************************************)
(* RecordFReset (cmd/ectrserver/main.go): once a container has been pulled *)
(* to a host, an experiment asks the host's agent to let it run for a      *)
(* while (Wait, exputils/wait.go), to keep the record of its file accesses *)
(* (RenameRecordFile, exputils/record.go) and, whatever came of these, to  *)
(* wipe the host (ResetStargz, exputils/reset.go) before it answers.  The  *)
(* drivers of the experiments reset their own host with the same lists of  *)
(* commands, or shorter ones.                                              *)
(*                                                                         *)
(* Wait runs "docker wait" in a goroutine of its own and selects between   *)
(* the channel on which that goroutine sends its result and a timer.  The  *)
(* timer may fire at any moment.  Nothing serialises the calls with each   *)
(* other or with the pulls that start containers on the host.              *)
(***************************************************************************)
EXTENDS Naturals, Sequences, FiniteSets

CONSTANTS
  Slot,     \* calls and resets that may be in progress at the same time
  Name,     \* containers
  Faults,   \* the operations of a call that may fail in this instance
  Events,   \* what else may happen to the host in this instance
  Flaky,    \* the commands of a reset that may fail in this instance
  MaxFail   \* bound on the commands that fail of themselves in one reset

FaultKind == {"kill", "record"}
EventKind == {"crash"}
Command   == {"restart docker", "prune", "stop docker", "rm docker", "rm containerd",
              "restart containerd", "restart stargz", "stop stargz", "rm stargz"}
DataDir   == {"docker", "containerd", "stargz"}

ASSUME ResetAssumption ==
  /\ Faults \subseteq FaultKind
  /\ Events \subseteq EventKind
  /\ Flaky \subseteq Command
  /\ MaxFail \in Nat

VARIABLES
  up,      \* the services that are running
  ctr,     \* ctr[c]: the container named c, as the Docker daemon knows it
  files,   \* files[c]: the data directories that hold files of the container c
  data,    \* the data directories that hold something
  pc,      \* pc[h]: how far the call in slot h is, or how the last one ended
  req,     \* req[h]: its RecordRequest (record: whether it names a record file)
  list,    \* list[h]: the list of commands of its reset
  cmd,     \* cmd[h]: the command of that list it runs next
  result,  \* result[h]: what it will answer once the reset is over
  waiter,  \* waiter[h]: the goroutine of its Wait
  signal,  \* signal[h]: what the daemon has told that goroutine's docker wait
  chan,    \* chan[h]: the channel between the goroutine and the call
  failed,  \* failed[h]: the places in its list of the commands that failed
  old,     \* old[h]: the directories that hold what they held when it began
  fresh    \* fresh[h]: the containers that have been started since then

host  == <<up, ctr, files, data>>
calls == <<pc, req, list, cmd, result, failed>>
waits == <<waiter, signal, chan>>
hist  == <<old, fresh>>
vars  == <<host, calls, waits, hist>>

Done == {"idle", "ok", "failed"}

-----------------------------------------------------------------------------
\* A host on which nothing has been pulled yet.
Init ==
  /\ up = {"docker", "stargz"}
  /\ ctr = [c \in Name |-> "none"]
  /\ files = [c \in Name |-> {}]
  /\ data = {}
  /\ pc = [h \in Slot |-> "idle"]
  /\ req \in [Slot -> [name : Name, record : {FALSE}]]
  /\ list = [h \in Slot |-> "stargz"]
  /\ cmd = [h \in Slot |-> 1]
  /\ result = [h \in Slot |-> "ok"]
  /\ waiter = [h \in Slot |-> "gone"]
  /\ signal = [h \in Slot |-> "none"]
  /\ chan = [h \in Slot |-> "empty"]
  /\ failed = [h \in Slot |-> {}]
  /\ old = [h \in Slot |-> {}] /\ fresh = [h \in Slot |-> {}]

Waiting(h) == waiter[h] = "waiting"

\* The containers become what "now" says.  Docker tells those that wait for a
\* container which stops.
Containers(now) ==
  /\ ctr' = now
  /\ signal' = [h \in Slot |->
       IF Waiting(h) /\ ctr[req[h].name] = "running" /\ now[req[h].name] # "running"
         THEN "exit" ELSE signal[h]]

\* The daemon stops, and every container with it; docker wait may still learn of
\* the exit or find its connection closed.  The containers become what "now" says.
DaemonStops(now) ==
  /\ ctr' = now
  /\ signal' = [h \in Slot |-> IF Waiting(h) THEN "lost" ELSE signal[h]]

\* docker system prune, which needs the daemon, removes what is not running: all
\* of it, or what it has come to when it fails.
Prune(some) ==
  LET gone == {c \in some : ctr[c] = "exited"}
  IN /\ "docker" \in up
     /\ Containers([c \in Name |-> IF c \in gone THEN "none" ELSE ctr[c]])
     /\ files' = [c \in Name |-> IF c \in gone THEN {} ELSE files[c]]
     /\ UNCHANGED <<up, data, hist>>

(***************************************************************************)
(* The host.                                                               *)
(***************************************************************************)

\* Where a container has its files: Docker's directory has its configuration, and
\* the file system as well, unless the image is one (:esgz) that the snapshotter
\* serves, in its own directory and containerd's.
Placements == {{"docker"}} \cup (IF "stargz" \in up THEN {DataDir} ELSE {})

\* The end of a pull: RestoreContainer starts the container it created.
Restored(c) ==
  /\ "docker" \in up
  /\ ctr[c] = "none"
  /\ Containers([ctr EXCEPT ![c] = "running"])
  /\ \E dirs \in Placements :
       files' = [files EXCEPT ![c] = dirs] /\ data' = data \cup dirs
  /\ fresh' = [h \in Slot |-> IF pc[h] = "reset" THEN fresh[h] \cup {c} ELSE fresh[h]]
  /\ UNCHANGED <<up, calls, waiter, chan, old>>

\* A container ends by itself.
ContainerExit(c) ==
  /\ ctr[c] = "running"
  /\ Containers([ctr EXCEPT ![c] = "exited"])
  /\ UNCHANGED <<up, files, data, calls, waiter, chan, hist>>

\* The agent dies, or the driver whose reset it is: its calls end where they are.
Crash ==
  /\ "crash" \in Events
  /\ \E h \in Slot : pc[h] \notin Done \/ waiter[h] # "gone"
  /\ pc' = [h \in Slot |-> IF pc[h] \in Done THEN pc[h] ELSE "failed"]
  /\ cmd' = [h \in Slot |-> 1]
  /\ waiter' = [h \in Slot |-> "gone"]
  /\ UNCHANGED <<host, req, list, result, signal, chan>>
  /\ failed' = [h \in Slot |-> {}]
  /\ old' = [h \in Slot |-> {}] /\ fresh' = [h \in Slot |-> {}]

(***************************************************************************)
(* Wait: the goroutine that runs docker wait.                              *)
(***************************************************************************)

\* Variant: an unbuffered channel, which takes a value when the call receives.
SendUnbuffered(h, value) ==
  /\ pc[h] = "select"
  /\ chan' = [chan EXCEPT ![h] = value]
  /\ waiter' = [waiter EXCEPT ![h] = "gone"]

\* The channel has room for the one value that is ever sent on it.
Send(h, value) ==
  /\ chan[h] = "empty"
  /\ chan' = [chan EXCEPT ![h] = value]
  /\ waiter' = [waiter EXCEPT ![h] = "gone"]

\* docker wait reaches the daemon.  It is answered at once unless the container
\* is running.
DockerWait(h) ==
  /\ waiter[h] = "started"
  /\ \/ /\ "docker" \in up /\ ctr[req[h].name] = "running"
        /\ waiter' = [waiter EXCEPT ![h] = "waiting"]
        /\ UNCHANGED chan
     \/ "docker" \in up /\ ctr[req[h].name] = "exited" /\ Send(h, "nil")
     \/ ("docker" \notin up \/ ctr[req[h].name] = "none") /\ Send(h, "error")
  /\ UNCHANGED <<host, calls, signal, hist>>

\* docker wait ends, and with it the goroutine.
DockerWaitReturns(h) ==
  /\ Waiting(h)
  /\ \/ signal[h] \in {"exit", "lost"} /\ Send(h, "nil")
     \/ signal[h] = "lost" /\ Send(h, "error")
  /\ UNCHANGED <<host, calls, signal, hist>>

(***************************************************************************)
(* The call.                                                               *)
(***************************************************************************)

\* A call begins: Wait starts its goroutine and selects.  A slot is free once
\* the goroutine of its last call has ended too.
RecordFReset(h) ==
  /\ pc[h] \in Done
  /\ waiter[h] = "gone"
  /\ \E c \in Name, r \in BOOLEAN : req' = [req EXCEPT ![h] = [name |-> c, record |-> r]]
  /\ pc' = [pc EXCEPT ![h] = "select"]
  /\ waiter' = [waiter EXCEPT ![h] = "started"]
  /\ signal' = [signal EXCEPT ![h] = "none"]
  /\ chan' = [chan EXCEPT ![h] = "empty"]
  /\ UNCHANGED <<host, list, cmd, result, failed, hist>>

\* A reset begins.
Reset(h, commands) ==
  /\ pc' = [pc EXCEPT ![h] = "reset"]
  /\ list' = [list EXCEPT ![h] = commands]
  /\ old' = [old EXCEPT ![h] = data]
  /\ UNCHANGED <<req, cmd, failed, fresh>>

\* The deferred function: the reset, on every way out of the handler.
Defer(h, answer) == result' = [result EXCEPT ![h] = answer] /\ Reset(h, "stargz")

\* Wait returned nil: the record is next, if the request names a file for it.
WaitedFor(h) ==
  IF req[h].record
    THEN pc' = [pc EXCEPT ![h] = "rename"] /\ UNCHANGED <<req, list, cmd, result, failed, hist>>
    ELSE Defer(h, "ok")

\* The select takes the result of docker wait.
WaitReceives(h) ==
  /\ pc[h] = "select"
  /\ \/ chan[h] = "nil" /\ WaitedFor(h)
     \/ chan[h] = "error" /\ Defer(h, "failed")
  /\ UNCHANGED <<host, waits>>

\* The select takes the timer, even when a result has arrived as well.
WaitTimesOut(h) ==
  /\ pc[h] = "select"
  /\ pc' = [pc EXCEPT ![h] = "kill"]
  /\ UNCHANGED <<host, waits, req, list, cmd, result, failed, hist>>

Killable(h) == "docker" \in up /\ ctr[req[h].name] = "running"

\* Variant: the outcome of docker kill is not looked at.
DockerKillUnchecked(h) ==
  /\ pc[h] = "kill"
  /\ WaitedFor(h)
  /\ \/ Killable(h) /\ Containers([ctr EXCEPT ![req[h].name] = "exited"])
     \/ (~Killable(h) \/ "kill" \in Faults) /\ UNCHANGED <<ctr, signal>>
  /\ UNCHANGED <<up, files, data, waiter, chan>>

\* docker kill refuses a container that is not running, so that a container
\* which ended on its own just before makes Wait fail.
DockerKill(h) ==
  /\ pc[h] = "kill"
  /\ \/ /\ Killable(h)
        /\ Containers([ctr EXCEPT ![req[h].name] = "exited"])
        /\ WaitedFor(h)
     \/ /\ ~Killable(h) \/ "kill" \in Faults
        /\ Defer(h, "failed")
        /\ UNCHANGED <<ctr, signal>>
  /\ UNCHANGED <<up, files, data, waiter, chan>>

\* The directory of the record is made, if need be, and the record moved there.
RenameRecordFile(h) ==
  /\ pc[h] = "rename"
  /\ \/ Defer(h, "ok")
     \/ "record" \in Faults /\ Defer(h, "failed")
  /\ UNCHANGED <<host, waits>>

(***************************************************************************)
(* ResetStargz and ResetOverlay: lists of commands, each run whatever      *)
(* became of the last.                                                     *)
(***************************************************************************)
WipeDocker ==
  <<"restart docker", "prune", "stop docker", "rm docker", "rm containerd",
    "restart docker", "restart containerd", "restart docker">>
WipeStargz == <<"restart stargz", "stop stargz", "rm stargz", "restart stargz">>

\* Variant: the daemon is not stopped first.
ResetRunning == <<"restart docker", "prune">> \o SubSeq(WipeDocker, 4, 8)
                  \o WipeStargz \o WipeStargz \o <<"restart docker">>

ResetStargz  == WipeDocker \o WipeStargz \o WipeStargz \o <<"restart docker">>

ResetOverlay ==
  <<"restart docker", "prune", "stop docker", "rm docker",
    "restart docker", "restart containerd", "restart docker">>

\* ResetOverlay(false) and ResetStargz(false): the images are kept.
KeepImages == <<"restart docker", "prune", "restart containerd", "restart docker">>

Lists == [stargz |-> ResetStargz, overlay |-> ResetOverlay, keep |-> KeepImages]
\* The directories that a reset empties.
Emptied == [stargz |-> DataDir, overlay |-> {"docker"}, keep |-> {}]

\* A driver resets its own host.
DriverReset(h) ==
  /\ pc[h] \in Done
  /\ waiter[h] = "gone"
  /\ \E commands \in DOMAIN Lists : Reset(h, commands)
  /\ result' = [result EXCEPT ![h] = "ok"]
  /\ UNCHANGED <<host, waits>>

\* What the daemon finds on the disk when it starts.
Reloaded == [c \in Name |-> IF "docker" \in files[c] THEN "exited" ELSE "none"]
Stopped  == [c \in Name |-> IF ctr[c] = "running" THEN "exited" ELSE ctr[c]]

Systemctl(command) ==
  /\ CASE command = "restart docker" -> up' = up \cup {"docker"} /\ DaemonStops(Reloaded)
       [] command = "stop docker"    -> up' = up \ {"docker"} /\ DaemonStops(Stopped)
       [] command = "restart stargz" -> up' = up \cup {"stargz"} /\ UNCHANGED <<ctr, signal>>
       [] command = "stop stargz"    -> up' = up \ {"stargz"} /\ UNCHANGED <<ctr, signal>>
       [] OTHER                      -> UNCHANGED <<up, ctr, signal>>
  /\ UNCHANGED <<files, data, hist>>

\* rm -rf of all that is in a data directory, whoever is using it: of the files of
\* all containers, or of some when it fails.
RemoveFiles(dir, some) ==
  /\ files' = [c \in Name |-> IF c \in some THEN files[c] \ {dir} ELSE files[c]]
  /\ UNCHANGED <<up, ctr, signal, fresh>>

RemoveAll(dir) ==
  /\ RemoveFiles(dir, Name)
  /\ data' = data \ {dir}
  /\ old' = [u \in Slot |-> old[u] \ {dir}]

Removal == [docker |-> "rm docker", containerd |-> "rm containerd", stargz |-> "rm stargz"]

Execute(command) ==
  CASE command = "prune" -> Prune(Name)
    [] \E dir \in DataDir : command = Removal[dir] ->
         \E dir \in DataDir : command = Removal[dir] /\ RemoveAll(dir)
    [] OTHER -> Systemctl(command)

\* What a command that fails leaves behind, if it has done anything: of a restart
\* the half that stops the service, of the others a part.
Halfway(command) ==
  CASE command \in {"restart docker", "stop docker"} -> Systemctl("stop docker")
    [] command \in {"restart stargz", "stop stargz"} -> Systemctl("stop stargz")
    [] command = "restart containerd" -> UNCHANGED <<host, signal, hist>>
    [] command = "prune" -> \E some \in SUBSET Name : Prune(some)
    [] OTHER -> \E dir \in DataDir, some \in SUBSET Name :
                  /\ command = Removal[dir] /\ RemoveFiles(dir, some)
                  /\ UNCHANGED <<data, old>>

Over(h) == pc[h] = "reset" /\ cmd[h] > Len(Lists[list[h]])

\* Variant: a failure ends the reset.
GivesUp(h) == cmd' = [cmd EXCEPT ![h] = Len(Lists[list[h]]) + 1]

\* A failure is logged and passed over.
PassOver(h) == cmd' = [cmd EXCEPT ![h] = @ + 1]

\* A command fails, as prune does without the daemon.
CommandFails(h, command) ==
  /\ \/ command \in Flaky /\ Cardinality(failed[h]) < MaxFail
     \/ command = "prune" /\ "docker" \notin up
  /\ Halfway(command) \/ UNCHANGED <<host, signal, hist>>
  /\ failed' = [failed EXCEPT ![h] = @ \cup {cmd[h]}]
  /\ PassOver(h)

\* The next command of the reset.
ResetCommand(h) ==
  /\ pc[h] = "reset" /\ ~Over(h)
  /\ LET command == Lists[list[h]][cmd[h]]
     IN \/ Execute(command) /\ cmd' = [cmd EXCEPT ![h] = @ + 1] /\ UNCHANGED failed
        \/ CommandFails(h, command)
  /\ UNCHANGED <<pc, req, list, result, waiter, chan>>

\* The response goes out, or the driver goes on.
Respond(h) ==
  /\ Over(h)
  /\ pc' = [pc EXCEPT ![h] = result[h]]
  /\ failed' = [failed EXCEPT ![h] = {}]
  /\ old' = [old EXCEPT ![h] = {}] /\ fresh' = [fresh EXCEPT ![h] = {}]
  /\ UNCHANGED <<host, waits, req, list, result>>

\* Variant: the place in the list is kept for the next reset.
AnswerKeepsPlace(h) == Respond(h) /\ UNCHANGED cmd

\* The reset is over.
RecordResponse(h) == Respond(h) /\ cmd' = [cmd EXCEPT ![h] = 1]

Goroutine(h) == DockerWait(h) \/ DockerWaitReturns(h)

Handler(h) ==
  \/ WaitReceives(h)
  \/ WaitTimesOut(h)
  \/ DockerKill(h)
  \/ RenameRecordFile(h)
  \/ ResetCommand(h)
  \/ RecordResponse(h)

Next ==
  \/ \E h \in Slot : RecordFReset(h) \/ DriverReset(h) \/ Handler(h) \/ Goroutine(h)
  \/ \E c \in Name : Restored(c) \/ ContainerExit(c)
  \/ Crash

Spec == Init /\ [][Next]_vars

\* Goroutines run until they return; commands end, and the timer fires.
FairSpec == Spec /\ \A h \in Slot : WF_vars(Handler(h)) /\ WF_vars(Goroutine(h))

-----------------------------------------------------------------------------
TypeOK ==
  /\ up \subseteq {"docker", "stargz"}
  /\ ctr \in [Name -> {"none", "running", "exited"}]
  /\ files \in [Name -> SUBSET DataDir]
  /\ data \subseteq DataDir
  /\ pc \in [Slot -> Done \cup {"select", "kill", "rename", "reset"}]
  /\ req \in [Slot -> [name : Name, record : BOOLEAN]]
  /\ list \in [Slot -> DOMAIN Lists]
  /\ \A h \in Slot : cmd[h] \in 1..(Len(Lists[list[h]]) + 1)
  /\ cmd = [h \in Slot |-> cmd[h]]
  /\ result \in [Slot -> {"ok", "failed"}]
  /\ waiter \in [Slot -> {"gone", "started", "waiting"}]
  /\ signal \in [Slot -> {"none", "exit", "lost"}]
  /\ chan \in [Slot -> {"empty", "nil", "error"}]
  /\ failed \in [Slot -> SUBSET Nat]
  /\ old \in [Slot -> SUBSET DataDir] /\ fresh \in [Slot -> SUBSET Name]
  /\ \A h \in Slot : pc[h] # "reset" => cmd[h] = 1 /\ failed[h] = {}

(***************************************************************************)
(* A record is kept only once the container whose accesses it holds has    *)
(* stopped: Wait returns nil only then, by whichever branch of its select. *)
(* (One call at a time: the reset of another call frees the name, and a    *)
(* pull may start the container anew.)                                     *)
(***************************************************************************)
RecordComplete == \A h \in Slot : pc[h] = "rename" => ctr[req[h].name] # "running"

(***************************************************************************)
(* What a step takes of the files of a container that goes on running: a   *)
(* reset takes nothing that Docker or containerd keeps, since it stops the *)
(* daemon first, and no container starts until it is up again; unless that *)
(* stop failed.  What the snapshotter keeps is removed with the daemon up  *)
(* (reset.go:66), but only from containers that a pull has started since   *)
(* the reset began.                                                        *)
(***************************************************************************)
Taken(c) == IF ctr[c] = "running" /\ ctr'[c] = "running" THEN files[c] \ files'[c] ELSE {}

\* The places in the list of a reset at which a command stands.
Places(h, command) == {k \in 1..Len(Lists[list[h]]) : Lists[list[h]][k] = command}

FilesUnderContainer ==
  [][\A c \in Name : Taken(c) # {} =>
       \E h \in Slot :
         /\ pc[h] = "reset"
         /\ \/ Places(h, "stop docker") \cap failed[h] # {}
            \/ Taken(c) = {"stargz"} /\ c \in fresh[h]]_vars

(***************************************************************************)
(* main.go:155, "record the f and reset the dst": whatever commands failed *)
(* and wherever an earlier reset was cut off, what a reset that is over    *)
(* has not wiped is accounted for by its own failures.  A directory has    *)
(* kept something only if each of its removals failed; the daemon is down  *)
(* only if the last restart failed; and a container that was there when it *)
(* began is there still only if two safeguards failed: restart and prune,  *)
(* and the removal of Docker's data or every restart after it.             *)
(***************************************************************************)
NotPruned(h)  == {1, 2} \cap failed[h] # {}
NotRemoved(h) ==
  LET removals == Places(h, "rm docker")
  IN \/ removals \subseteq failed[h]
     \/ \A k \in Places(h, "restart docker") : (\A j \in removals : j < k) => k \in failed[h]

HostWiped ==
  \A h \in Slot : Over(h) =>
    /\ \A dir \in Emptied[list[h]] \cap old[h] : Places(h, Removal[dir]) \subseteq failed[h]
    /\ "docker" \notin up => Len(Lists[list[h]]) \in failed[h]
    /\ (\E c \in Name \ fresh[h] : ctr[c] # "none") => NotPruned(h) /\ NotRemoved(h)

(***************************************************************************)
(* Every call is answered, and the goroutine of its Wait ends even though  *)
(* the call no longer receives from it.  (A docker wait that reaches the   *)
(* daemon late may find another container of the same name running, and    *)
(* then lasts as long as that one does.)                                   *)
(***************************************************************************)
CallsEnd ==
  \A h \in Slot :
    pc[h] = "select"
      ~> pc[h] \in Done /\ (waiter[h] = "gone" \/ ctr[req[h].name] = "running")

\* What the safety properties hold under: one call or reset of a host at a time.
OneCall == \A g, h \in Slot : g = h

=============================================================================
