-------------------------- MODULE HostResetProofs ---------------------------
(***************************************************************************)
(* What RecordFReset and the resets of the drivers guarantee, for every    *)
(* number of containers, whatever commands fail and whatever pulls, exits  *)
(* and crashes come in between, one call or reset at a time: a record is   *)
(* kept only of a container that has stopped (RecordsComplete), the files  *)
(* of a container that runs are taken only where FilesUnderContainer says  *)
(* so (FilesStayUnder), and what a reset leaves of a host is accounted for *)
(* by the commands that failed in it (HostsWiped).                         *)
(*                                                                         *)
(* The lists of commands are concatenations; the first part of the module  *)
(* says what stands where in them.  Then come the types, what each command *)
(* does to the host, and one inductive invariant for each of the three.    *)
(***************************************************************************)
EXTENDS HostReset, TLAPS

-----------------------------------------------------------------------------
(* The lists of commands. *)

\* Two lists, one after the other.
LEMMA Joined ==
  ASSUME NEW s \in Seq(Command), NEW t \in Seq(Command)
  PROVE  /\ s \o t \in Seq(Command) /\ Len(s \o t) = Len(s) + Len(t)
         /\ \A i \in 1..Len(s) : (s \o t)[i] = s[i]
         /\ \A i \in 1..Len(t) : (s \o t)[Len(s) + i] = t[i]
<1>1. /\ s \o t \in Seq(Command) /\ Len(s \o t) = Len(s) + Len(t)
      /\ \A i \in 1..Len(s) : (s \o t)[i] = s[i]
  OBVIOUS
<1>2. ASSUME NEW i \in 1..Len(t) PROVE (s \o t)[Len(s) + i] = t[i]
  <2> DEFINE j == Len(s) + i
  <2>1. j \in 1..(Len(s) + Len(t)) /\ Len(s) < j /\ j - Len(s) = i
    OBVIOUS
  <2> HIDE DEF j
  <2>2. (s \o t)[j] = t[j - Len(s)]
    BY <2>1
  <2> QED
    BY <2>1, <2>2 DEF j
<1> QED
  BY <1>1, <1>2

LEMMA WipeLists ==
  /\ WipeDocker \in Seq(Command) /\ Len(WipeDocker) = 8
  /\ WipeStargz \in Seq(Command) /\ Len(WipeStargz) = 4
  BY DEF WipeDocker, WipeStargz, Command

LEMMA StargzList ==
  /\ ResetStargz \in Seq(Command) /\ Len(ResetStargz) = 17
  /\ \A i \in 1..8 : ResetStargz[i] = WipeDocker[i]
  /\ \A i \in 1..4 : ResetStargz[8 + i] = WipeStargz[i]
  /\ \A i \in 1..4 : ResetStargz[12 + i] = WipeStargz[i]
  /\ ResetStargz[17] = "restart docker"
<1> DEFINE a == WipeDocker \o WipeStargz
           b == a \o WipeStargz
           last == <<"restart docker">>
           c == b \o last
<1>0. 16 \in Nat /\ 16 + 1 = 17
  OBVIOUS
<1>1. last \in Seq(Command) /\ Len(last) = 1 /\ last[1] = "restart docker"
  BY DEF Command
<1> HIDE DEF last
<1>2. /\ a \in Seq(Command) /\ Len(a) = 12
      /\ \A i \in 1..8 : a[i] = WipeDocker[i]
      /\ \A i \in 1..4 : a[8+i] = WipeStargz[i]
  <2>1. /\ a \in Seq(Command) /\ Len(a) = Len(WipeDocker) + Len(WipeStargz)
        /\ \A i \in 1..Len(WipeDocker) : a[i] = WipeDocker[i]
        /\ \A i \in 1..Len(WipeStargz) : a[Len(WipeDocker)+i] = WipeStargz[i]
    BY WipeLists, Joined, Zenon
  <2>2. Len(WipeDocker) = 8 /\ Len(WipeStargz) = 4 /\ 8 + 4 = 12
    BY WipeLists
  <2> QED
    BY <2>1, <2>2, Zenon
<1> HIDE DEF a
<1>3. /\ b \in Seq(Command) /\ Len(b) = 16
      /\ \A i \in 1..12 : b[i] = a[i]
      /\ \A i \in 1..4 : b[12+i] = WipeStargz[i]
  <2>1. /\ b \in Seq(Command) /\ Len(b) = Len(a) + Len(WipeStargz)
        /\ \A i \in 1..Len(a) : b[i] = a[i]
        /\ \A i \in 1..Len(WipeStargz) : b[Len(a)+i] = WipeStargz[i]
    BY <1>2, WipeLists, Joined, Zenon
  <2>2. Len(a) = 12 /\ Len(WipeStargz) = 4 /\ 12 + 4 = 16
    BY <1>2, WipeLists
  <2> QED
    BY <2>1, <2>2, Zenon
<1> HIDE DEF b
<1>4. /\ c \in Seq(Command) /\ Len(c) = 17
      /\ \A i \in 1..16 : c[i] = b[i]
      /\ \A i \in 1..1 : c[16 + i] = last[i]
  <2>1. /\ c \in Seq(Command) /\ Len(c) = Len(b) + Len(last)
        /\ \A i \in 1..Len(b) : c[i] = b[i]
        /\ \A i \in 1..Len(last) : c[Len(b)+i] = last[i]
    BY <1>1, <1>3, Joined, Zenon
  <2>2. Len(b) = 16 /\ Len(last) = 1 /\ 16 + 1 = 17
    BY <1>0, <1>1, <1>3, Zenon
  <2> QED
    BY <2>1, <2>2, Zenon
<1>5. ResetStargz = c
  BY DEF ResetStargz, a, b, last
<1> HIDE DEF c
<1>6. \A i \in 1..4 : 8 + i \in 1..12 /\ 8 + i \in 1..16 /\ 12 + i \in 1..16
  OBVIOUS
<1>7. \A i \in 1..8 : i \in 1..12 /\ i \in 1..16
  OBVIOUS
<1>8. \A i \in 1..8 : c[i] = WipeDocker[i]
  BY <1>2, <1>3, <1>4, <1>7, Zenon
<1>9. \A i \in 1..4 : c[8 + i] = WipeStargz[i]
  BY <1>2, <1>3, <1>4, <1>6, Zenon
<1>10. \A i \in 1..4 : c[12 + i] = WipeStargz[i]
  BY <1>3, <1>4, <1>6, Zenon
<1>11. c[17] = "restart docker"
  <2>1. 1 \in 1..1
    OBVIOUS
  <2> QED
    BY <1>1, <1>4, <1>0, <2>1, Zenon
<1> QED
  BY <1>4, <1>5, <1>8, <1>9, <1>10, <1>11, Zenon

LEMMA StargzCommands ==
  /\ ResetStargz[1] = "restart docker" /\ ResetStargz[2] = "prune" /\ ResetStargz[3] = "stop docker"
  /\ ResetStargz[4] = "rm docker" /\ ResetStargz[5] = "rm containerd" /\ ResetStargz[6] = "restart docker"
  /\ ResetStargz[7] = "restart containerd"
  /\ ResetStargz[8] = "restart docker"
  /\ ResetStargz[9] = "restart stargz"
  /\ ResetStargz[10] = "stop stargz"
  /\ ResetStargz[11] = "rm stargz"
  /\ ResetStargz[12] = "restart stargz"
  /\ ResetStargz[13] = "restart stargz"
  /\ ResetStargz[14] = "stop stargz"
  /\ ResetStargz[15] = "rm stargz"
  /\ ResetStargz[16] = "restart stargz"
  /\ ResetStargz[17] = "restart docker"
<1> DEFINE r == ResetStargz w == WipeDocker z == WipeStargz
<1>1. 1 \in 1..4 /\ 2 \in 1..4 /\ 3 \in 1..4 /\ 4 \in 1..4
  OBVIOUS
<1>2. 1 \in 1..8 /\ 2 \in 1..8 /\ 3 \in 1..8 /\ 4 \in 1..8 /\ 5 \in 1..8 /\ 6 \in 1..8 /\ 7 \in 1..8 /\ 8 \in 1..8
  OBVIOUS
<1>3. 8 + 1 = 9 /\ 8 + 2 = 10 /\ 8+3 = 11 /\ 8+4 = 12 /\ 12+1 = 13 /\ 12 + 2 = 14 /\ 12 + 3 = 15 /\ 12 + 4 = 16
  OBVIOUS
<1>4. /\ r[1] = w[1] /\ r[2] = w[2] /\ r[3] = w[3] /\ r[4] = w[4]
      /\ r[5] = w[5] /\ r[6] = w[6] /\ r[7] = w[7] /\ r[8] = w[8]
  BY <1>2, StargzList, Zenon
<1>5. r[9] = z[1] /\ r[10] = z[2] /\ r[11] = z[3] /\ r[12] = z[4]
  BY <1>1, <1>3, StargzList, Zenon
<1>6. r[13] = z[1] /\ r[14] = z[2] /\ r[15] = z[3] /\ r[16] = z[4]
  BY <1>1, <1>3, StargzList, Zenon
<1>7. w[1] = "restart docker" /\ w[2] = "prune" /\ w[3] = "stop docker" /\ w[4] = "rm docker"
      /\ w[5] = "rm containerd" /\ w[6] = "restart docker" /\ w[7] = "restart containerd" /\ w[8] = "restart docker"
  BY DEF WipeDocker
<1>8. z[1] = "restart stargz" /\ z[2] = "stop stargz" /\ z[3] = "rm stargz" /\ z[4] = "restart stargz"
  BY DEF WipeStargz
<1> QED
  BY <1>4, <1>5, <1>6, <1>7, <1>8, StargzList, Zenon

-----------------------------------------------------------------------------
(* Types. *)

\* The three lists.
LEMMA ListFacts ==
  /\ DOMAIN Lists = {"stargz", "overlay", "keep"}
  /\ Lists["stargz"] = ResetStargz /\ Lists["overlay"] = ResetOverlay /\ Lists["keep"] = KeepImages
  /\ Len(Lists["stargz"]) = 17 /\ Len(Lists["overlay"]) = 7 /\ Len(Lists["keep"]) = 4
  /\ \A l \in DOMAIN Lists : Len(Lists[l]) \in Nat /\ Lists[l] \in Seq(Command)
<1>1. /\ DOMAIN Lists = {"stargz", "overlay", "keep"}
      /\ Lists["stargz"] = ResetStargz /\ Lists["overlay"] = ResetOverlay /\ Lists["keep"] = KeepImages
  BY DEF Lists
<1>2. /\ ResetOverlay \in Seq(Command) /\ Len(ResetOverlay) = 7
      /\ KeepImages \in Seq(Command) /\ Len(KeepImages) = 4
  BY DEF ResetOverlay, KeepImages, Command
<1>3. 17 \in Nat /\ 7 \in Nat /\ 4 \in Nat
  OBVIOUS
<1> QED
  BY <1>1, <1>2, <1>3, StargzList, Zenon

LEMMA CommandAt ==
  ASSUME NEW l \in DOMAIN Lists, NEW k \in 1..(Len(Lists[l]) + 1), k <= Len(Lists[l])
  PROVE  Lists[l][k] \in Command /\ k + 1 \in 1..(Len(Lists[l]) + 1)
<1>1. Lists[l] \in Seq(Command) /\ Len(Lists[l]) \in Nat
  BY ListFacts, Zenon
<1> HIDE DEF Lists
<1> QED
  BY <1>1

HostOK ==
  /\ up \subseteq {"docker", "stargz"}
  /\ ctr \in [Name -> {"none", "running", "exited"}]
  /\ files \in [Name -> SUBSET DataDir]
  /\ data \subseteq DataDir
PlaceOK ==
  /\ \A h \in Slot : cmd[h] \in 1..(Len(Lists[list[h]]) + 1)
  /\ cmd = [h \in Slot |-> cmd[h]]
  /\ \A h \in Slot : pc[h] # "reset" => cmd[h] = 1 /\ failed[h] = {}
CallOK ==
  /\ pc \in [Slot -> Done \cup {"select", "kill", "rename", "reset"}]
  /\ req \in [Slot -> [name : Name, record : BOOLEAN]]
  /\ list \in [Slot -> DOMAIN Lists]
  /\ result \in [Slot -> {"ok", "failed"}]
  /\ failed \in [Slot -> SUBSET Nat]
WaitOK ==
  /\ waiter \in [Slot -> {"gone", "started", "waiting"}]
  /\ signal \in [Slot -> {"none", "exit", "lost"}]
  /\ chan \in [Slot -> {"empty", "nil", "error"}]
HistOK == old \in [Slot -> SUBSET DataDir] /\ fresh \in [Slot -> SUBSET Name]

\* TypeOK, part by part.
LEMMA TypeParts == TypeOK <=> HostOK /\ PlaceOK /\ CallOK /\ WaitOK /\ HistOK
  BY Zenon DEF TypeOK, HostOK, PlaceOK, CallOK, WaitOK, HistOK

LEMMA NextTypeParts ==
  ASSUME HostOK', PlaceOK', CallOK', WaitOK', HistOK'
  PROVE  TypeOK'
  BY Zenon DEF TypeOK, HostOK, PlaceOK, CallOK, WaitOK, HistOK

LEMMA InitType == Init => TypeOK
<1> SUFFICES ASSUME Init PROVE HostOK /\ PlaceOK /\ CallOK /\ WaitOK /\ HistOK
  BY TypeParts
<1>1. HostOK /\ WaitOK /\ HistOK
  BY DEF Init, HostOK, WaitOK, HistOK
<1>2. CallOK
  <2>1. \A h \in Slot : req[h] \in [name : Name, record : BOOLEAN]
    BY DEF Init
  <2>2. req \in [Slot -> [name : Name, record : BOOLEAN]]
    BY <2>1 DEF Init
  <2>3. "stargz" \in DOMAIN Lists
    BY ListFacts
  <2> QED
    BY <2>2, <2>3 DEF Init, CallOK, Done
<1>3. \A l \in DOMAIN Lists : 1 \in 1..(Len(Lists[l]) + 1)
  BY ListFacts
<1>4. PlaceOK
  BY <1>2, <1>3 DEF Init, PlaceOK, CallOK
<1> QED
  BY <1>1, <1>2, <1>4

\* What is said to the waiters when containers stop, or the daemon does.
LEMMA ContainersOK ==
  ASSUME WaitOK, NEW now \in [Name -> {"none", "running", "exited"}],
         Containers(now) \/ DaemonStops(now)
  PROVE  ctr' \in [Name -> {"none", "running", "exited"}] /\ signal' \in [Slot -> {"none", "exit", "lost"}]
  BY DEF WaitOK, Containers, DaemonStops

LEMMA Removals ==
  /\ Removal["docker"] = "rm docker" /\ Removal["containerd"] = "rm containerd"
  /\ Removal["stargz"] = "rm stargz"
  BY DEF Removal

LEMMA PruneOK ==
  ASSUME HostOK, WaitOK, HistOK, NEW some \in SUBSET Name, Prune(some)
  PROVE  HostOK' /\ HistOK' /\ signal' \in [Slot -> {"none", "exit", "lost"}]
<1> DEFINE now == [c \in Name |-> IF c \in {b \in some : ctr[b] = "exited"} THEN "none" ELSE ctr[c]]
<1>1. now \in [Name -> {"none", "running", "exited"}]
  BY DEF HostOK
<1>2. Containers(now) /\ UNCHANGED <<up, data, hist>>
  BY DEF Prune
<1>3. files' \in [Name -> SUBSET DataDir]
  BY DEF Prune, HostOK
<1> HIDE DEF now
<1>4. ctr' \in [Name -> {"none", "running", "exited"}] /\ signal' \in [Slot -> {"none", "exit", "lost"}]
  BY <1>1, <1>2, ContainersOK
<1> QED
  BY <1>2, <1>3, <1>4 DEF HostOK, HistOK, hist

LEMMA RemoveFilesOK ==
  ASSUME HostOK, NEW dir \in DataDir, NEW some \in SUBSET Name, RemoveFiles(dir, some)
  PROVE  files' \in [Name -> SUBSET DataDir] /\ UNCHANGED <<up, ctr, signal, fresh>>
  BY DEF RemoveFiles, HostOK

LEMMA SystemctlOK ==
  ASSUME HostOK, WaitOK, HistOK, NEW command \in Command, Systemctl(command)
  PROVE  HostOK' /\ HistOK' /\ signal' \in [Slot -> {"none", "exit", "lost"}]
<1>1. Reloaded \in [Name -> {"none", "running", "exited"}] /\ Stopped \in [Name -> {"none", "running", "exited"}]
  BY DEF Reloaded, Stopped, HostOK
<1>2. ctr' \in [Name -> {"none", "running", "exited"}] /\ signal' \in [Slot -> {"none", "exit", "lost"}]
  BY <1>1, ContainersOK DEF Systemctl, HostOK, WaitOK
<1>3. up' \subseteq {"docker", "stargz"}
  BY DEF Systemctl, HostOK
<1> QED
  BY <1>2, <1>3 DEF Systemctl, HostOK, HistOK, hist

\* A removal that succeeds, and what is left to Systemctl.
LEMMA ExecuteCases ==
  ASSUME NEW command \in Command, Execute(command)
  PROVE  \/ command = "prune" /\ Prune(Name)
         \/ \E dir \in DataDir : command = Removal[dir] /\ RemoveAll(dir)
         \/ /\ command # "prune" /\ (\A dir \in DataDir : command # Removal[dir])
            /\ Systemctl(command)
  BY Removals DEF Execute, DataDir

\* A command that fails after it has done something.
LEMMA HalfwayCases ==
  ASSUME NEW command \in Command, Halfway(command)
  PROVE  \/ command \in {"restart docker", "stop docker"} /\ Systemctl("stop docker")
         \/ command \in {"restart stargz", "stop stargz"} /\ Systemctl("stop stargz")
         \/ UNCHANGED <<host, signal, hist>>
         \/ command = "prune" /\ \E some \in SUBSET Name : Prune(some)
         \/ \E dir \in DataDir, some \in SUBSET Name :
              command = Removal[dir] /\ RemoveFiles(dir, some) /\ UNCHANGED <<data, old>>
  BY DEF Halfway

LEMMA ExecuteOK ==
  ASSUME HostOK, WaitOK, HistOK, NEW command \in Command, Execute(command) \/ Halfway(command)
  PROVE  HostOK' /\ HistOK' /\ signal' \in [Slot -> {"none", "exit", "lost"}]
<1>1. CASE \E some \in SUBSET Name : Prune(some)
  BY <1>1, PruneOK
<1>2. CASE \E dir \in DataDir, some \in SUBSET Name :
             RemoveFiles(dir, some) /\ (UNCHANGED <<data, old>> \/ RemoveAll(dir))
  <2>1. PICK dir \in DataDir, some \in SUBSET Name :
          RemoveFiles(dir, some) /\ (UNCHANGED <<data, old>> \/ RemoveAll(dir))
    BY <1>2
  <2>2. files' \in [Name -> SUBSET DataDir] /\ UNCHANGED <<up, ctr, signal, fresh>>
    BY <2>1, RemoveFilesOK
  <2>3. data' \subseteq DataDir /\ old' \in [Slot -> SUBSET DataDir]
    BY <2>1 DEF RemoveAll, HostOK, HistOK
  <2> QED
    BY <2>2, <2>3 DEF HostOK, HistOK, WaitOK
<1>3. CASE \E k \in Command : Systemctl(k)
  BY <1>3, SystemctlOK
<1>4. CASE UNCHANGED <<host, signal, hist>>
  BY <1>4 DEF host, hist, HostOK, HistOK, WaitOK
<1>5. "stop docker" \in Command /\ "stop stargz" \in Command /\ Name \in SUBSET Name
  BY DEF Command
<1>6. \A dir \in DataDir : RemoveAll(dir) => RemoveFiles(dir, Name)
  BY DEF RemoveAll
<1>7. CASE Execute(command)
  <2>1. \/ Prune(Name)
        \/ \E dir \in DataDir : RemoveAll(dir)
        \/ Systemctl(command)
    BY <1>7, ExecuteCases
  <2> QED
    BY <1>1, <1>2, <1>3, <1>5, <1>6, <2>1
<1>8. CASE Halfway(command)
  <2>1. \/ Systemctl("stop docker") \/ Systemctl("stop stargz")
        \/ UNCHANGED <<host, signal, hist>>
        \/ \E some \in SUBSET Name : Prune(some)
        \/ \E dir \in DataDir, some \in SUBSET Name : RemoveFiles(dir, some) /\ UNCHANGED <<data, old>>
    BY <1>8, HalfwayCases
  <2> QED
    BY <1>1, <1>2, <1>3, <1>4, <1>5, <2>1
<1> QED
  BY <1>7, <1>8

LEMMA RestoredType ==
  ASSUME TypeOK, NEW c \in Name, Restored(c)
  PROVE  TypeOK'
<1> USE TypeParts
<1>1. [ctr EXCEPT ![c] = "running"] \in [Name -> {"none", "running", "exited"}]
  BY DEF HostOK
<1>2. ctr' \in [Name -> {"none", "running", "exited"}] /\ signal' \in [Slot -> {"none", "exit", "lost"}]
  BY <1>1, ContainersOK DEF Restored
<1>5. \A dirs \in Placements : dirs \subseteq DataDir
  BY DEF Placements, DataDir
<1>3. HostOK' /\ WaitOK' /\ HistOK'
  <2>1. PICK dirs \in Placements : files' = [files EXCEPT ![c] = dirs] /\ data' = data \cup dirs
    BY DEF Restored
  <2>2. files' \in [Name -> SUBSET DataDir] /\ data' \subseteq DataDir
    BY <2>1, <1>5 DEF HostOK
  <2> QED
    BY <1>2, <2>2 DEF Restored, HostOK, WaitOK, HistOK
<1>4. PlaceOK' /\ CallOK'
  BY DEF Restored, calls, PlaceOK, CallOK
<1> QED
  BY <1>3, <1>4, NextTypeParts

LEMMA ContainerExitType ==
  ASSUME TypeOK, NEW c \in Name, ContainerExit(c)
  PROVE  TypeOK'
<1> USE TypeParts
<1>1. [ctr EXCEPT ![c] = "exited"] \in [Name -> {"none", "running", "exited"}]
  BY DEF HostOK
<1>2. ctr' \in [Name -> {"none", "running", "exited"}] /\ signal' \in [Slot -> {"none", "exit", "lost"}]
  BY <1>1, ContainersOK DEF ContainerExit
<1>3. HostOK' /\ WaitOK' /\ HistOK'
  BY <1>2 DEF ContainerExit, HostOK, WaitOK, HistOK, hist
<1>4. PlaceOK' /\ CallOK'
  BY DEF ContainerExit, calls, PlaceOK, CallOK
<1> QED
  BY <1>3, <1>4, NextTypeParts

LEMMA CrashType ==
  ASSUME TypeOK, Crash
  PROVE  TypeOK'
<1> USE TypeParts
<1>1. HostOK' /\ HistOK'
  BY DEF Crash, host, HostOK, HistOK
<1>2. CallOK' /\ WaitOK'
  BY DEF Crash, CallOK, WaitOK, Done
<1>3. \A l \in DOMAIN Lists : 1 \in 1..(Len(Lists[l]) + 1)
  BY ListFacts
<1>4. PlaceOK'
  BY <1>3 DEF Crash, PlaceOK, CallOK
<1> QED
  BY <1>1, <1>2, <1>4, NextTypeParts

LEMMA GoroutineType ==
  ASSUME TypeOK, NEW h \in Slot, Goroutine(h)
  PROVE  TypeOK'
<1> USE TypeParts
<1>1. WaitOK'
  BY DEF Goroutine, DockerWait, DockerWaitReturns, Send, WaitOK
<1>2. HostOK' /\ HistOK' /\ CallOK' /\ PlaceOK'
  BY DEF Goroutine, DockerWait, DockerWaitReturns, host, calls, hist, HostOK, HistOK, CallOK, PlaceOK
<1> QED
  BY <1>1, <1>2, NextTypeParts

LEMMA RecordFResetType ==
  ASSUME TypeOK, NEW h \in Slot, RecordFReset(h)
  PROVE  TypeOK'
<1> USE TypeParts
<1>1. HostOK' /\ HistOK' /\ WaitOK'
  BY DEF RecordFReset, host, hist, HostOK, HistOK, WaitOK
<1>2. CallOK'
  BY DEF RecordFReset, CallOK, Done
<1>3. PlaceOK'
  BY DEF RecordFReset, PlaceOK, CallOK, Done
<1> QED
  BY <1>1, <1>2, <1>3, NextTypeParts

\* A reset begins at the first command of its list.
LEMMA ResetOK ==
  ASSUME TypeOK, NEW h \in Slot, NEW commands \in DOMAIN Lists, Reset(h, commands),
         pc[h] # "reset", result' \in [Slot -> {"ok", "failed"}]
  PROVE  PlaceOK' /\ CallOK' /\ HistOK'
<1> USE TypeParts
<1>1. CallOK'
  BY DEF Reset, CallOK
<1>2. HistOK'
  BY DEF Reset, HistOK, HostOK
<1>3. \A l \in DOMAIN Lists : 1 \in 1..(Len(Lists[l]) + 1)
  BY ListFacts
<1>4. PlaceOK'
  BY <1>3 DEF Reset, PlaceOK, CallOK
<1> QED
  BY <1>1, <1>2, <1>4

LEMMA DeferOK ==
  ASSUME TypeOK, NEW h \in Slot, NEW answer \in {"ok", "failed"}, Defer(h, answer), pc[h] # "reset"
  PROVE  PlaceOK' /\ CallOK' /\ HistOK'
<1>1. result' \in [Slot -> {"ok", "failed"}]
  BY TypeParts DEF Defer, CallOK
<1>2. Reset(h, "stargz") /\ "stargz" \in DOMAIN Lists
  BY ListFacts DEF Defer
<1> QED
  BY <1>1, <1>2, ResetOK

LEMMA WaitedForOK ==
  ASSUME TypeOK, NEW h \in Slot, WaitedFor(h), pc[h] # "reset"
  PROVE  PlaceOK' /\ CallOK' /\ HistOK'
<1>1. CASE req[h].record
  BY <1>1, TypeParts DEF WaitedFor, PlaceOK, CallOK, HistOK, hist
<1>2. CASE ~req[h].record
  BY <1>2, DeferOK DEF WaitedFor
<1> QED
  BY <1>1, <1>2

LEMMA WaitReceivesType ==
  ASSUME TypeOK, NEW h \in Slot, WaitReceives(h)
  PROVE  TypeOK'
<1>1. HostOK' /\ WaitOK'
  BY TypeParts DEF WaitReceives, host, waits, HostOK, WaitOK
<1>2. PlaceOK' /\ CallOK' /\ HistOK'
  BY WaitedForOK, DeferOK DEF WaitReceives
<1> QED
  BY <1>1, <1>2, NextTypeParts

LEMMA WaitTimesOutType ==
  ASSUME TypeOK, NEW h \in Slot, WaitTimesOut(h)
  PROVE  TypeOK'
<1> USE TypeParts
<1>1. HostOK' /\ WaitOK' /\ HistOK'
  BY DEF WaitTimesOut, host, waits, hist, HostOK, WaitOK, HistOK
<1>2. PlaceOK' /\ CallOK'
  BY DEF WaitTimesOut, PlaceOK, CallOK
<1> QED
  BY <1>1, <1>2, NextTypeParts

LEMMA DockerKillType ==
  ASSUME TypeOK, NEW h \in Slot, DockerKill(h)
  PROVE  TypeOK'
<1> USE TypeParts
<1>1. [ctr EXCEPT ![req[h].name] = "exited"] \in [Name -> {"none", "running", "exited"}]
  BY DEF HostOK, CallOK
<1>2. ctr' \in [Name -> {"none", "running", "exited"}] /\ signal' \in [Slot -> {"none", "exit", "lost"}]
  BY <1>1, ContainersOK DEF DockerKill, HostOK, WaitOK
<1>3. HostOK' /\ WaitOK'
  BY <1>2 DEF DockerKill, HostOK, WaitOK
<1>4. PlaceOK' /\ CallOK' /\ HistOK'
  BY WaitedForOK, DeferOK DEF DockerKill
<1> QED
  BY <1>3, <1>4, NextTypeParts

LEMMA RenameRecordFileType ==
  ASSUME TypeOK, NEW h \in Slot, RenameRecordFile(h)
  PROVE  TypeOK'
<1>1. HostOK' /\ WaitOK'
  BY TypeParts DEF RenameRecordFile, host, waits, HostOK, WaitOK
<1>2. PlaceOK' /\ CallOK' /\ HistOK'
  BY DeferOK DEF RenameRecordFile
<1> QED
  BY <1>1, <1>2, NextTypeParts

LEMMA DriverResetType ==
  ASSUME TypeOK, NEW h \in Slot, DriverReset(h)
  PROVE  TypeOK'
<1>1. HostOK' /\ WaitOK'
  BY TypeParts DEF DriverReset, host, waits, HostOK, WaitOK
<1>2. result' \in [Slot -> {"ok", "failed"}]
  BY TypeParts DEF DriverReset, CallOK
<1>3. PICK commands \in DOMAIN Lists : Reset(h, commands)
  BY DEF DriverReset
<1>4. pc[h] # "reset"
  BY DEF DriverReset, Done
<1>5. PlaceOK' /\ CallOK' /\ HistOK'
  BY <1>2, <1>3, <1>4, ResetOK
<1> QED
  BY <1>1, <1>5, NextTypeParts

LEMMA RecordResponseType ==
  ASSUME TypeOK, NEW h \in Slot, RecordResponse(h)
  PROVE  TypeOK'
<1> USE TypeParts
<1>1. HostOK' /\ WaitOK' /\ HistOK'
  BY DEF RecordResponse, Respond, host, waits, HostOK, WaitOK, HistOK
<1>2. CallOK'
  BY DEF RecordResponse, Respond, CallOK, Done
<1>3. \A l \in DOMAIN Lists : 1 \in 1..(Len(Lists[l]) + 1)
  BY ListFacts
<1>4. PlaceOK'
  BY <1>3 DEF RecordResponse, Respond, PlaceOK, CallOK
<1> QED
  BY <1>1, <1>2, <1>4, NextTypeParts

LEMMA ResetCommandType ==
  ASSUME TypeOK, NEW h \in Slot, ResetCommand(h)
  PROVE  TypeOK'
<1> USE TypeParts
<1> DEFINE command == Lists[list[h]][cmd[h]]
<1>1. list[h] \in DOMAIN Lists /\ cmd[h] \in 1..(Len(Lists[list[h]]) + 1)
  BY DEF CallOK, PlaceOK
<1>2. Len(Lists[list[h]]) \in Nat
  BY <1>1, ListFacts, Zenon
<1>3. cmd[h] <= Len(Lists[list[h]])
  BY <1>1, <1>2 DEF ResetCommand, Over
<1>4. command \in Command /\ cmd[h] + 1 \in 1..(Len(Lists[list[h]]) + 1)
  BY <1>1, <1>3, CommandAt
<1>5. \/ Execute(command) /\ UNCHANGED failed
      \/ /\ Halfway(command) \/ UNCHANGED <<host, signal, hist>>
         /\ failed' = [failed EXCEPT ![h] = @ \cup {cmd[h]}]
  BY DEF ResetCommand, CommandFails
<1>6. pc[h] = "reset" /\ cmd' = [cmd EXCEPT ![h] = @ + 1] /\ UNCHANGED <<pc, req, list, result, waiter, chan>>
  BY DEF ResetCommand, CommandFails, PassOver
<1> HIDE DEF command
<1>7. HostOK' /\ HistOK' /\ signal' \in [Slot -> {"none", "exit", "lost"}]
  BY <1>4, <1>5, ExecuteOK DEF host, hist, HostOK, HistOK, WaitOK
<1>8. WaitOK'
  BY <1>6, <1>7 DEF WaitOK
<1>9. failed' \in [Slot -> SUBSET Nat] /\ (\A g \in Slot : g # h => failed'[g] = failed[g])
  <2>1. cmd[h] \in Nat
    BY <1>1, <1>2
  <2> QED
    BY <1>5, <2>1 DEF CallOK
<1>10. CallOK'
  BY <1>6, <1>9 DEF CallOK
<1>11. PlaceOK'
  BY <1>4, <1>6, <1>9 DEF PlaceOK, CallOK
<1> QED
  BY <1>7, <1>8, <1>10, <1>11, NextTypeParts

LEMMA NextType == TypeOK /\ [Next]_vars => TypeOK'
<1> SUFFICES ASSUME TypeOK, [Next]_vars PROVE TypeOK'
  OBVIOUS
<1>1. CASE UNCHANGED vars
  BY <1>1 DEF vars, host, calls, waits, hist, TypeOK
<1>2. ASSUME NEW h \in Slot, RecordFReset(h) \/ DriverReset(h) \/ Handler(h) \/ Goroutine(h)
      PROVE  TypeOK'
  BY <1>2, RecordFResetType, DriverResetType, WaitReceivesType, WaitTimesOutType, DockerKillType,
     RenameRecordFileType, ResetCommandType, RecordResponseType, GoroutineType DEF Handler
<1> QED
  BY <1>1, <1>2, RestoredType, ContainerExitType, CrashType DEF Next

\* Every reachable state has the types, whatever happens in whichever order.
THEOREM TypeCorrect == Spec => []TypeOK
  BY InitType, NextType, PTL DEF Spec

-----------------------------------------------------------------------------
\* Once the call knows that its container has stopped, no pull can start it anew
\* before a reset has freed its name.
StaysExited ==
  \A h \in Slot :
    \/ pc[h] = "select" /\ (chan[h] = "nil" \/ signal[h] # "none")
    \/ pc[h] = "rename"
    => ctr[req[h].name] = "exited"

-----------------------------------------------------------------------------
(* A record is kept of a container that has stopped. *)

LEMMA StaysExitedInit == Init => StaysExited
  BY DEF Init, StaysExited

LEMMA StaysExitedStep ==
  ASSUME OneCall, TypeOK, StaysExited, [Next]_vars
  PROVE  StaysExited'
<1>0. HostOK /\ CallOK /\ WaitOK
  BY TypeParts
<1>1. CASE UNCHANGED vars
  BY <1>1 DEF vars, host, calls, waits, hist, StaysExited
<1>2. ASSUME NEW c \in Name, Restored(c) PROVE StaysExited'
  BY <1>0, <1>2 DEF Restored, Containers, calls, StaysExited, HostOK, CallOK, WaitOK
<1>3. ASSUME NEW c \in Name, ContainerExit(c) PROVE StaysExited'
  BY <1>0, <1>3 DEF ContainerExit, Containers, calls, StaysExited, HostOK, CallOK, WaitOK
<1>4. CASE Crash
  BY <1>0, <1>4 DEF Crash, StaysExited, CallOK, Done
<1>5. ASSUME NEW h \in Slot, Goroutine(h) PROVE StaysExited'
  BY <1>0, <1>5 DEF Goroutine, DockerWait, DockerWaitReturns, Send, Waiting, host, calls, StaysExited, WaitOK
<1>6. ASSUME NEW h \in Slot,
             \/ RecordFReset(h) \/ WaitTimesOut(h) \/ RecordResponse(h) \/ DriverReset(h)
             \/ RenameRecordFile(h)
      PROVE  StaysExited'
  <2>1. CASE RecordFReset(h)
    BY <1>0, <2>1 DEF RecordFReset, host, StaysExited, CallOK, WaitOK, OneCall
  <2>2. CASE WaitTimesOut(h) \/ RecordResponse(h)
    BY <1>0, <2>2 DEF WaitTimesOut, RecordResponse, Respond, host, waits, StaysExited, CallOK, Done
  <2>3. CASE DriverReset(h) \/ RenameRecordFile(h)
    BY <1>0, <2>3 DEF DriverReset, RenameRecordFile, Defer, Reset, host, waits, StaysExited, CallOK, OneCall
  <2> QED
    BY <1>6, <2>1, <2>2, <2>3
<1>7. ASSUME NEW h \in Slot, WaitReceives(h) PROVE StaysExited'
  <2>1. /\ UNCHANGED <<ctr, signal, chan, req>>
        /\ pc'[h] = "reset" \/ (pc'[h] = "rename" /\ chan[h] = "nil" /\ pc[h] = "select")
    BY <1>0, <1>7 DEF WaitReceives, WaitedFor, Defer, Reset, host, waits, CallOK
  <2> QED
    BY <2>1 DEF StaysExited, OneCall
<1>8. ASSUME NEW h \in Slot, DockerKill(h) PROVE StaysExited'
  <2>1. req' = req /\ (pc'[h] = "reset" \/ (pc'[h] = "rename" /\ ctr'[req[h].name] = "exited"))
    BY <1>0, <1>8 DEF DockerKill, WaitedFor, Defer, Reset, Containers, CallOK, HostOK
  <2> QED
    BY <2>1 DEF StaysExited, OneCall
<1>9. ASSUME NEW h \in Slot, ResetCommand(h) PROVE StaysExited'
  BY <1>0, <1>9 DEF ResetCommand, CommandFails, StaysExited, OneCall
<1> QED
  BY <1>1, <1>2, <1>3, <1>4, <1>5, <1>6, <1>7, <1>8, <1>9 DEF Next, Handler

\* One call at a time: a record is kept only of a container that has stopped.
THEOREM RecordsComplete ==
  ASSUME OneCall
  PROVE  Spec => []RecordComplete
<1>1. TypeOK /\ StaysExited /\ [Next]_vars => (TypeOK /\ StaysExited)'
  BY NextType, StaysExitedStep
<1>2. TypeOK /\ StaysExited => RecordComplete
  BY DEF StaysExited, RecordComplete
<1> QED
  BY InitType, StaysExitedInit, <1>1, <1>2, PTL DEF Spec

-----------------------------------------------------------------------------
(* The lists of commands, position by position, and what a command does.   *)

LEMMA OverlayCommands ==
  /\ ResetOverlay[1] = "restart docker" /\ ResetOverlay[2] = "prune"
  /\ ResetOverlay[3] = "stop docker"    /\ ResetOverlay[4] = "rm docker"
  /\ ResetOverlay[5] = "restart docker" /\ ResetOverlay[6] = "restart containerd"
  /\ ResetOverlay[7] = "restart docker"
  BY DEF ResetOverlay

LEMMA KeepCommands ==
  /\ KeepImages[1] = "restart docker"     /\ KeepImages[2] = "prune"
  /\ KeepImages[3] = "restart containerd" /\ KeepImages[4] = "restart docker"
  BY DEF KeepImages

\* Where the commands stand that the invariants are about.
LEMMA Positions ==
  ASSUME NEW l \in DOMAIN Lists, NEW k \in 1..Len(Lists[l])
  PROVE  /\ Lists[l][k] = "stop docker" <=> l # "keep" /\ k = 3
         /\ k = 1 \/ k = Len(Lists[l]) => Lists[l][k] = "restart docker"
         /\ Lists[l][k] = "prune" <=> k = 2
         /\ Lists[l][k] = "rm docker" <=> l # "keep" /\ k = 4
         /\ Lists[l][k] = "rm containerd" <=> l = "stargz" /\ k = 5
         /\ Lists[l][k] = "rm stargz" => l = "stargz" /\ k > 3
<1>1. CASE l = "stargz"
  <2>1. k \in 1..17 /\ Len(Lists[l]) = 17
    BY <1>1, ListFacts
  <2>2. Lists[l] = ResetStargz
    BY <1>1, ListFacts
  <2>3. \/ k = 1 \/ k = 2 \/ k = 3 \/ k = 4 \/ k = 5 \/ k = 6 \/ k = 7 \/ k = 8
        \/ k = 9 \/ k = 10 \/ k = 11 \/ k = 12 \/ k = 13 \/ k = 14 \/ k = 15 \/ k = 16 \/ k = 17
    BY <2>1
  <2> HIDE DEF Lists
  <2>4. ResetStargz[k] = "stop docker" <=> k = 3
    BY <2>1, <2>3, StargzCommands
  <2>5. ResetStargz[k] = "prune" <=> k = 2
    BY <2>1, <2>3, StargzCommands
  <2>6. ResetStargz[k] = "rm docker" <=> k = 4
    BY <2>1, <2>3, StargzCommands
  <2>7. ResetStargz[k] = "rm containerd" <=> k = 5
    BY <2>1, <2>3, StargzCommands
  <2>8. ResetStargz[k] = "rm stargz" => k > 3
    <3>1. ResetStargz[k] = "rm stargz" <=> k = 11 \/ k = 15
      BY <2>1, <2>3, StargzCommands
    <3>2. k = 11 \/ k = 15 => k > 3
      OBVIOUS
    <3> QED
      BY <3>1, <3>2, Zenon
  <2>9. k = 1 \/ k = 17 => ResetStargz[k] = "restart docker"
    BY StargzCommands
  <2> QED
    BY <1>1, <2>1, <2>2, <2>4, <2>5, <2>6, <2>7, <2>8, <2>9
<1>2. CASE l = "overlay"
  <2>1. k \in 1..7 /\ Len(Lists[l]) = 7
    BY <1>2, ListFacts
  <2>2. Lists[l] = ResetOverlay
    BY <1>2, ListFacts
  <2>3. k = 1 \/ k = 2 \/ k = 3 \/ k = 4 \/ k = 5 \/ k = 6 \/ k = 7
    BY <2>1
  <2> HIDE DEF Lists
  <2> QED
    BY <1>2, <2>1, <2>2, <2>3, OverlayCommands
<1>3. CASE l = "keep"
  <2>1. k \in 1..4 /\ Len(Lists[l]) = 4
    BY <1>3, ListFacts
  <2>2. Lists[l] = KeepImages
    BY <1>3, ListFacts
  <2>3. k = 1 \/ k = 2 \/ k = 3 \/ k = 4
    BY <2>1
  <2> HIDE DEF Lists
  <2> QED
    BY <1>3, <2>1, <2>2, <2>3, KeepCommands
<1> QED
  BY <1>1, <1>2, <1>3, ListFacts

\* No command between the stop of the daemon and the removals starts it.
LEMMA NoRestart ==
  ASSUME NEW l \in {"stargz", "overlay"}, NEW k \in 3..(IF l = "stargz" THEN 5 ELSE 4)
  PROVE  Lists[l][k] # "restart docker"
<1>1. k = 3 \/ k = 4 \/ (k = 5 /\ l = "stargz")
  OBVIOUS
<1>2. Lists["stargz"] = ResetStargz /\ Lists["overlay"] = ResetOverlay
  BY ListFacts
<1> HIDE DEF Lists
<1> QED
  BY <1>1, <1>2, StargzCommands, OverlayCommands

Present == {c \in Name : ctr[c] # "none"}
Running == {c \in Name : ctr[c] = "running"}
\* What the daemon will find on the disk.
Kept    == {c \in Name : "docker" \in files[c]}

\* The containers with files in Docker's directory are among those it knows.
Known == Kept \subseteq Present

LEMMA KnownNext == Known' <=> Kept' \subseteq Present'
  BY DEF Known

\* What the primitives do to the host.
LEMMA PruneHost ==
  ASSUME TypeOK, Known, NEW some \in SUBSET Name, Prune(some)
  PROVE  /\ UNCHANGED <<up, old, fresh>> /\ "docker" \in up
         /\ Kept' \subseteq Kept /\ Known' /\ Present' \subseteq Present /\ Running' = Running
         /\ some = Name => Present' \subseteq Running
         /\ \A c \in Name : ctr[c] = "running" => files'[c] = files[c]
<1>1. HostOK
  BY TypeParts
<1>2. /\ ctr' = [c \in Name |-> IF c \in some /\ ctr[c] = "exited" THEN "none" ELSE ctr[c]]
      /\ files' = [c \in Name |-> IF c \in some /\ ctr[c] = "exited" THEN {} ELSE files[c]]
      /\ UNCHANGED <<up, old, fresh>> /\ "docker" \in up
  BY DEF Prune, Containers, hist
<1>3. \A c \in Name : ctr[c] \in {"none", "running", "exited"}
  BY <1>1 DEF HostOK
<1>4. Kept' \subseteq Kept /\ Present' \subseteq Present /\ Running' = Running
  BY <1>2 DEF Kept, Present, Running
<1>5. Kept' \subseteq Present'
  BY <1>2 DEF Known, Kept, Present
<1>6. some = Name => Present' \subseteq Running
  BY <1>2, <1>3 DEF Present, Running
<1> QED
  BY <1>2, <1>4, <1>5, <1>6, KnownNext

LEMMA RemoveFilesHost ==
  ASSUME TypeOK, Known, NEW dir \in DataDir, NEW some \in SUBSET Name, RemoveFiles(dir, some)
  PROVE  /\ UNCHANGED <<up, fresh>>
         /\ Kept' \subseteq Kept /\ Known' /\ Present' = Present /\ Running' = Running
         /\ some = Name /\ dir = "docker" => Kept' = {}
         /\ \A c \in Name : files[c] \ files'[c] \subseteq {dir}
<1>1. /\ files' = [c \in Name |-> IF c \in some THEN files[c] \ {dir} ELSE files[c]]
      /\ UNCHANGED <<up, ctr, fresh>>
  BY DEF RemoveFiles
<1>2. Kept' \subseteq Kept /\ Present' = Present /\ Running' = Running
  BY <1>1 DEF Kept, Present, Running
<1>3. some = Name /\ dir = "docker" => Kept' = {}
  BY <1>1 DEF Kept
<1>4. \A c \in Name : files[c] \ files'[c] \subseteq {dir}
  BY <1>1
<1> QED
  BY <1>1, <1>2, <1>3, <1>4, KnownNext DEF Known

LEMMA SystemctlHost ==
  ASSUME TypeOK, Known, NEW command \in Command, Systemctl(command)
  PROVE  /\ UNCHANGED <<files, old, fresh>> /\ Kept' = Kept /\ Known'
         /\ Present' \subseteq Present /\ Running' \subseteq Running
         /\ "docker" \in up' <=> (command = "restart docker" \/ (command # "stop docker" /\ "docker" \in up))
         /\ command = "restart docker" => Present' = Kept /\ Running' = {}
         /\ command = "stop docker" => Running' = {}
<1>0. HostOK
  BY TypeParts
<1>1. UNCHANGED <<files, old, fresh>> /\ Kept' = Kept
  BY DEF Systemctl, hist, Kept
<1>2. CASE command = "restart docker"
  <2>1. "docker" \in up' /\ ctr' = Reloaded
    BY <1>2 DEF Systemctl, DaemonStops
  <2>2. Present' = Kept /\ Running' = {}
    BY <2>1 DEF Reloaded, Present, Running, Kept
  <2> QED
    BY <1>1, <1>2, <2>1, <2>2, KnownNext DEF Known
<1>3. CASE command = "stop docker"
  <2>1. "docker" \notin up' /\ ctr' = Stopped
    BY <1>3 DEF Systemctl, DaemonStops
  <2>2. Present' = Present /\ Running' = {}
    BY <1>0, <2>1 DEF Stopped, Present, Running, HostOK
  <2> QED
    BY <1>1, <1>3, <2>1, <2>2, KnownNext DEF Known
<1>4. CASE command \notin {"restart docker", "stop docker"}
  <2>1. ("docker" \in up' <=> "docker" \in up) /\ ctr' = ctr
    <3>1. CASE command = "restart stargz"
      <4>1. up' = up \cup {"stargz"} /\ ctr' = ctr
        BY <3>1, Zenon DEF Systemctl
      <4> QED
        BY <4>1
    <3>2. CASE command = "stop stargz"
      BY <3>2 DEF Systemctl
    <3>3. CASE command \notin {"restart docker", "stop docker", "restart stargz", "stop stargz"}
      BY <3>3 DEF Systemctl
    <3> QED
      BY <1>4, <3>1, <3>2, <3>3
  <2>2. Present' = Present /\ Running' = Running
    BY <2>1 DEF Present, Running
  <2> QED
    BY <1>1, <1>4, <2>1, <2>2, KnownNext DEF Known
<1> QED
  BY <1>2, <1>3, <1>4

\* Whatever a command does, in whole or in part, nothing appears on the host.
Shrinks(command) ==
  /\ fresh' = fresh /\ Kept' \subseteq Kept /\ Known'
  /\ \A h \in Slot : old'[h] \subseteq old[h]
  /\ Present' \subseteq Present /\ Running' \subseteq Running
  /\ "docker" \in up' => command = "restart docker" \/ "docker" \in up
  /\ "docker" \notin up' => "docker" \notin up \/ Running' = {}

\* What it takes of a container that runs stands in the directory it empties.
Takes(command) ==
  \A c \in Name : Taken(c) # {} => \E dir \in DataDir : command = Removal[dir] /\ Taken(c) = {dir}

LEMMA TakesNothing ==
  ASSUME NEW command, \A c \in Name : ctr[c] = "running" => files'[c] = files[c]
  PROVE  Takes(command)
  BY DEF Takes, Taken

LEMMA TakesFrom ==
  ASSUME NEW dir \in DataDir, \A c \in Name : files[c] \ files'[c] \subseteq {dir}
  PROVE  Takes(Removal[dir])
  BY DEF Takes, Taken

LEMMA RemoveAllOld ==
  ASSUME TypeOK, NEW dir \in DataDir, RemoveAll(dir)
  PROVE  RemoveFiles(dir, Name) /\ \A h \in Slot : old'[h] = old[h] \ {dir}
  BY TypeParts DEF RemoveAll, HistOK

LEMMA WholeEffect ==
  ASSUME TypeOK, Known, NEW command \in Command, Execute(command)
  PROVE  /\ Shrinks(command) /\ Takes(command)
         /\ command = "restart docker" => "docker" \in up' /\ Present' \subseteq Kept /\ Running' = {}
         /\ command = "stop docker" => "docker" \notin up' /\ Running' = {}
         /\ command = "prune" => Present' \subseteq Running
         /\ command = "rm docker" => Kept' = {}
         /\ \A dir \in DataDir : command = Removal[dir] => \A h \in Slot : dir \notin old'[h]
<1>1. CASE command = "prune" /\ Prune(Name)
  <2>1. Name \in SUBSET Name
    OBVIOUS
  <2>2. /\ UNCHANGED <<up, old, fresh>> /\ "docker" \in up
        /\ Kept' \subseteq Kept /\ Known' /\ Present' \subseteq Present /\ Running' = Running
        /\ Present' \subseteq Running
        /\ \A c \in Name : ctr[c] = "running" => files'[c] = files[c]
    BY <1>1, <2>1, PruneHost
  <2>3. Takes(command)
    BY <2>2, TakesNothing
  <2>4. \A dir \in DataDir : command # Removal[dir]
    BY <1>1, Removals DEF DataDir
  <2> QED
    BY <1>1, <2>2, <2>3, <2>4 DEF Shrinks
<1>2. CASE \E dir \in DataDir : command = Removal[dir] /\ RemoveAll(dir)
  <2>1. PICK dir \in DataDir : command = Removal[dir] /\ RemoveAll(dir)
    BY <1>2
  <2>2. Name \in SUBSET Name /\ RemoveFiles(dir, Name) /\ \A h \in Slot : old'[h] = old[h] \ {dir}
    BY <2>1, RemoveAllOld
  <2>3. /\ UNCHANGED <<up, fresh>>
        /\ Kept' \subseteq Kept /\ Known' /\ Present' = Present /\ Running' = Running
        /\ dir = "docker" => Kept' = {}
        /\ \A c \in Name : files[c] \ files'[c] \subseteq {dir}
    BY <2>2, RemoveFilesHost
  <2>4. Takes(command)
    BY <2>1, <2>3, TakesFrom
  <2>5. /\ command \notin {"restart docker", "stop docker", "prune"}
        /\ command = "rm docker" => dir = "docker"
        /\ \A d \in DataDir : command = Removal[d] => d = dir
    BY <2>1, Removals DEF DataDir
  <2>6. \A d \in DataDir : command = Removal[d] => \A h \in Slot : d \notin old'[h]
    BY <2>2, <2>5
  <2>7. Shrinks(command)
    BY <2>2, <2>3, <2>5 DEF Shrinks
  <2> QED
    BY <2>3, <2>4, <2>5, <2>6, <2>7
<1>3. CASE /\ command # "prune" /\ (\A dir \in DataDir : command # Removal[dir])
           /\ Systemctl(command)
  <2>1. /\ UNCHANGED <<files, old, fresh>> /\ Kept' = Kept /\ Known'
        /\ Present' \subseteq Present /\ Running' \subseteq Running
        /\ "docker" \in up' <=> (command = "restart docker" \/ (command # "stop docker" /\ "docker" \in up))
        /\ command = "restart docker" => Present' = Kept /\ Running' = {}
        /\ command = "stop docker" => Running' = {}
    BY <1>3, SystemctlHost
  <2>2. Takes(command)
    BY <2>1, TakesNothing
  <2>3. command # "rm docker"
    BY <1>3, Removals DEF DataDir
  <2> QED
    BY <1>3, <2>1, <2>2, <2>3 DEF Shrinks
<1> QED
  BY <1>1, <1>2, <1>3, ExecuteCases

LEMMA NoEffect ==
  ASSUME Known, NEW command, UNCHANGED <<up, ctr, files, old, fresh>>
  PROVE  Shrinks(command) /\ Takes(command)
<1>1. Kept' = Kept /\ Present' = Present /\ Running' = Running
  BY DEF Kept, Present, Running
<1>2. Takes(command)
  BY TakesNothing
<1> QED
  BY <1>1, <1>2, KnownNext DEF Known, Shrinks

LEMMA HalfEffect ==
  ASSUME TypeOK, Known, NEW command \in Command, Halfway(command)
  PROVE  Shrinks(command) /\ Takes(command)
<1>1. CASE Systemctl("stop docker") \/ Systemctl("stop stargz")
  <2>1. PICK k \in {"stop docker", "stop stargz"} : Systemctl(k)
    BY <1>1
  <2>2. k \in Command /\ k # "restart docker"
    BY <2>1 DEF Command
  <2>3. /\ UNCHANGED <<files, old, fresh>> /\ Kept' = Kept /\ Known'
        /\ Present' \subseteq Present /\ Running' \subseteq Running
        /\ "docker" \in up' <=> (k # "stop docker" /\ "docker" \in up)
        /\ k = "stop docker" => Running' = {}
    BY <2>1, <2>2, SystemctlHost
  <2>4. Takes(command)
    BY <2>3, TakesNothing
  <2> QED
    BY <2>3, <2>4 DEF Shrinks
<1>2. CASE UNCHANGED <<host, signal, hist>>
  BY <1>2, NoEffect DEF host, hist
<1>3. CASE \E some \in SUBSET Name : Prune(some)
  <2>1. /\ UNCHANGED <<up, old, fresh>>
        /\ Kept' \subseteq Kept /\ Known' /\ Present' \subseteq Present /\ Running' = Running
        /\ \A c \in Name : ctr[c] = "running" => files'[c] = files[c]
    BY <1>3, PruneHost
  <2>2. Takes(command)
    BY <2>1, TakesNothing
  <2> QED
    BY <2>1, <2>2 DEF Shrinks
<1>4. CASE \E dir \in DataDir, some \in SUBSET Name :
             command = Removal[dir] /\ RemoveFiles(dir, some) /\ UNCHANGED <<data, old>>
  <2>1. PICK dir \in DataDir, some \in SUBSET Name :
          command = Removal[dir] /\ RemoveFiles(dir, some) /\ UNCHANGED <<data, old>>
    BY <1>4
  <2>2. /\ UNCHANGED <<up, fresh>>
        /\ Kept' \subseteq Kept /\ Known' /\ Present' = Present /\ Running' = Running
        /\ \A c \in Name : files[c] \ files'[c] \subseteq {dir}
    BY <2>1, RemoveFilesHost
  <2>3. Takes(command)
    BY <2>1, <2>2, TakesFrom
  <2> QED
    BY <2>1, <2>2, <2>3 DEF Shrinks
<1> QED
  BY <1>1, <1>2, <1>3, <1>4, HalfwayCases

\* What becomes of the next command of a reset.
LEMMA Outcomes ==
  ASSUME TypeOK, NEW h \in Slot, ResetCommand(h)
  PROVE  LET command == Lists[list[h]][cmd[h]]
         IN  /\ list[h] \in DOMAIN Lists /\ cmd[h] \in 1..Len(Lists[list[h]]) /\ cmd[h] \in Nat
             /\ command \in Command /\ pc[h] = "reset"
             /\ list' = list /\ cmd'[h] = cmd[h] + 1
             /\ \/ Execute(command) /\ failed' = failed
                \/ /\ Halfway(command) \/ UNCHANGED <<up, ctr, files, old, fresh>>
                   /\ failed'[h] = failed[h] \cup {cmd[h]}
<1> DEFINE command == Lists[list[h]][cmd[h]]
<1>1. list[h] \in DOMAIN Lists /\ cmd[h] \in 1..(Len(Lists[list[h]]) + 1)
  BY TypeParts DEF CallOK, PlaceOK
<1>2. Len(Lists[list[h]]) \in Nat
  BY <1>1, ListFacts, Zenon
<1>3. cmd[h] <= Len(Lists[list[h]]) /\ cmd[h] \in 1..Len(Lists[list[h]])
  BY <1>1, <1>2 DEF ResetCommand, Over
<1>4. command \in Command
  BY <1>1, <1>3, CommandAt
<1>5. list' = list /\ cmd'[h] = cmd[h] + 1 /\ pc[h] = "reset"
  BY TypeParts DEF ResetCommand, CommandFails, PassOver, PlaceOK
<1>6. \/ Execute(command) /\ failed' = failed
      \/ /\ Halfway(command) \/ UNCHANGED <<up, ctr, files, old, fresh>>
         /\ failed'[h] = failed[h] \cup {cmd[h]}
  BY TypeParts DEF ResetCommand, CommandFails, host, hist, CallOK
<1>7. cmd[h] \in Nat
  BY <1>2, <1>3
<1> HIDE DEF command
<1> QED
  BY <1>1, <1>3, <1>4, <1>5, <1>6, <1>7 DEF command

\* What every command of a reset does, whether it fails or not.
LEMMA Step ==
  ASSUME TypeOK, Known, NEW h \in Slot, ResetCommand(h)
  PROVE  LET command == Lists[list[h]][cmd[h]]
         IN  /\ Shrinks(command) /\ Takes(command)
             /\ failed[h] \subseteq failed'[h]
             /\ cmd[h] \in failed'[h] \/ Execute(command)
<1>1. Lists[list[h]][cmd[h]] \in Command
  BY Outcomes
<1>2. CASE Execute(Lists[list[h]][cmd[h]]) /\ failed' = failed
  BY <1>1, <1>2, WholeEffect
<1>3. CASE /\ Halfway(Lists[list[h]][cmd[h]]) \/ UNCHANGED <<up, ctr, files, old, fresh>>
           /\ failed'[h] = failed[h] \cup {cmd[h]}
  BY <1>1, <1>3, HalfEffect, NoEffect
<1> QED
  BY <1>2, <1>3, Outcomes

-----------------------------------------------------------------------------
(* What the steps other than those of a reset leave as it is. *)

\* The steps of a call before its reset, and the end of one: cmd is 1.
Elsewhere(h) ==
  \/ RecordFReset(h) \/ DriverReset(h) \/ RecordResponse(h)
  \/ WaitReceives(h) \/ WaitTimesOut(h) \/ DockerKill(h) \/ RenameRecordFile(h)

\* Such a step leaves the slot at the first command, the only one of its kind.
LEMMA AtFirst ==
  ASSUME OneCall, TypeOK, NEW h \in Slot, Elsewhere(h)
  PROVE  \A g \in Slot : cmd'[g] = 1
<1>1. TypeOK'
  BY RecordFResetType, DriverResetType, RecordResponseType, WaitReceivesType, WaitTimesOutType,
     DockerKillType, RenameRecordFileType DEF Elsewhere
<1>2. CallOK /\ PlaceOK /\ cmd' = [g \in Slot |-> cmd'[g]]
  BY <1>1, TypeParts DEF TypeOK
<1>3. CASE RecordResponse(h)
  BY <1>2, <1>3 DEF RecordResponse, Respond, PlaceOK, OneCall
<1>4. CASE ~RecordResponse(h)
  <2>1. pc[h] # "reset" /\ cmd' = cmd
    BY <1>4 DEF Elsewhere, RecordFReset, DriverReset, WaitReceives, WaitTimesOut, DockerKill,
       RenameRecordFile, WaitedFor, Defer, Reset, Done
  <2> QED
    BY <1>2, <2>1 DEF PlaceOK, OneCall
<1> QED
  BY <1>3, <1>4

LEMMA ElsewhereHost ==
  ASSUME TypeOK, NEW h \in Slot, Elsewhere(h)
  PROVE  UNCHANGED <<up, files>> /\ Kept' = Kept /\ Present' = Present /\ Running' \subseteq Running
<1>1. CASE DockerKill(h)
  <2>1. /\ UNCHANGED <<up, files>>
        /\ (ctr' = ctr \/ (Killable(h) /\ ctr' = [ctr EXCEPT ![req[h].name] = "exited"]))
    BY <1>1 DEF DockerKill, Containers
  <2> QED
    BY <2>1, TypeParts DEF Killable, Present, Running, Kept, HostOK
<1>2. CASE ~DockerKill(h)
  <2>1. UNCHANGED <<up, files, ctr>>
    BY <1>2 DEF Elsewhere, RecordFReset, DriverReset, RecordResponse, Respond, WaitReceives, WaitTimesOut,
       RenameRecordFile, host
  <2> QED
    BY <2>1 DEF Present, Running, Kept
<1> QED
  BY <1>1, <1>2

LEMMA CrashHost ==
  Crash => UNCHANGED <<up, files, ctr, list>> /\ \A h \in Slot : cmd'[h] = 1
  BY DEF Crash, host

LEMMA GoroutineHost ==
  ASSUME NEW h \in Slot, Goroutine(h)
  PROVE  UNCHANGED <<up, files, ctr, old, fresh, list, cmd, failed>>
  BY DEF Goroutine, DockerWait, DockerWaitReturns, host, calls, hist

LEMMA RestoredHost ==
  ASSUME TypeOK, NEW c \in Name, Restored(c)
  PROVE  /\ "docker" \in up /\ UNCHANGED <<up, old, list, cmd, failed>>
         /\ Present' = Present \cup {c} /\ Running' = Running \cup {c} /\ Kept' \subseteq Kept \cup {c}
         /\ c \in Kept' => c \in Present'
         /\ \A h \in Slot : cmd[h] # 1 => fresh'[h] = fresh[h] \cup {c}
         /\ \A b \in Name : ctr[b] = "running" => files'[b] = files[b]
<1>1. /\ "docker" \in up /\ UNCHANGED <<up, old, list, cmd, failed>> /\ ctr[c] = "none"
      /\ ctr' = [ctr EXCEPT ![c] = "running"]
      /\ \A h \in Slot : pc[h] = "reset" => fresh'[h] = fresh[h] \cup {c}
  BY DEF Restored, Containers, calls
<1>2. PICK dirs \in Placements : files' = [files EXCEPT ![c] = dirs]
  BY DEF Restored
<1>3. Present' = Present \cup {c} /\ Running' = Running \cup {c}
  BY <1>1, TypeParts DEF Present, Running, HostOK
<1>4. /\ Kept' \subseteq Kept \cup {c}
      /\ \A b \in Name : ctr[b] = "running" => files'[b] = files[b]
  BY <1>1, <1>2, TypeParts DEF Kept, HostOK
<1>5. \A h \in Slot : cmd[h] # 1 => pc[h] = "reset"
  BY TypeParts DEF PlaceOK
<1> QED
  BY <1>1, <1>3, <1>4, <1>5

LEMMA ContainerExitHost ==
  ASSUME TypeOK, NEW c \in Name, ContainerExit(c)
  PROVE  /\ UNCHANGED <<up, files, old, fresh, list, cmd, failed>>
         /\ Kept' = Kept /\ Present' = Present /\ Running' \subseteq Running
<1>1. /\ UNCHANGED <<up, files, old, fresh, list, cmd, failed>>
      /\ ctr[c] = "running" /\ ctr' = [ctr EXCEPT ![c] = "exited"]
  BY DEF ContainerExit, Containers, calls, hist
<1> QED
  BY <1>1, TypeParts DEF Present, Running, Kept, HostOK

-----------------------------------------------------------------------------
(* The files of a container while it runs. *)

\* Nothing runs while the daemon is down ...
NoneRuns == "docker" \notin up => Running = {}

\* ... and it is down from its stop to the restart after the removal of its data,
\* unless that stop failed.
DownForRemoval ==
  \A h \in Slot :
    list[h] # "keep" /\ cmd[h] \in (IF list[h] = "stargz" THEN 4..6 ELSE 4..5)
      => "docker" \notin up \/ 3 \in failed[h]

\* What runs after that stop has been started since the reset began.
RunFresh ==
  \A h \in Slot : list[h] # "keep" /\ cmd[h] > 3 => Running \subseteq fresh[h] \/ 3 \in failed[h]

FilesInv == Known /\ NoneRuns /\ DownForRemoval /\ RunFresh

LEMMA FilesInit == Init => FilesInv
  BY DEF Init, FilesInv, Known, Kept, Present, Running, NoneRuns, DownForRemoval, RunFresh

\* At the first command of a list nothing is claimed of the reset yet.
LEMMA FilesAtFirst ==
  ASSUME \A h \in Slot : cmd'[h] = 1, Known', NoneRuns'
  PROVE  FilesInv'
  BY DEF FilesInv, DownForRemoval, RunFresh

\* A step that runs no command.
LEMMA FilesElsewhere ==
  ASSUME FilesInv, TypeOK, UNCHANGED <<up, list, cmd, failed>>, Known', NoneRuns',
         \A h \in Slot : cmd[h] # 1 /\ Running \subseteq fresh[h] => Running' \subseteq fresh'[h]
  PROVE  FilesInv'
<1>1. DownForRemoval'
  BY DEF FilesInv, DownForRemoval
<1>2. RunFresh'
  BY DEF FilesInv, RunFresh
<1> QED
  BY <1>1, <1>2 DEF FilesInv

LEMMA DownForRemovalStep ==
  ASSUME OneCall, TypeOK, Known, DownForRemoval, NEW h \in Slot, ResetCommand(h)
  PROVE  DownForRemoval'
<1> DEFINE l == list[h]
           k == cmd[h]
           command == Lists[l][k]
           last == IF l = "stargz" THEN 6 ELSE 5
<1>0. /\ l \in DOMAIN Lists /\ k \in 1..Len(Lists[l]) /\ command \in Command /\ k \in Nat
      /\ list' = list /\ cmd'[h] = k + 1
  BY Outcomes
<1>1. SUFFICES ASSUME l # "keep", k + 1 \in 4..last PROVE "docker" \notin up' \/ 3 \in failed'[h]
  BY <1>0 DEF OneCall, DownForRemoval
<1>2. l \in {"stargz", "overlay"}
  BY <1>0, <1>1, ListFacts
<1>3. k \in 3..(IF l = "stargz" THEN 5 ELSE 4)
  BY <1>0, <1>1
<1>4. command # "restart docker"
  BY <1>2, <1>3, NoRestart
<1>5. k # 3 => "docker" \notin up \/ 3 \in failed[h]
  <2>1. k # 3 => k \in 4..last
    BY <1>1, <1>3
  <2> QED
    BY <1>1, <2>1 DEF DownForRemoval
<1>6. k = 3 => command = "stop docker"
  BY <1>0, <1>1, Positions
<1>7. /\ Shrinks(command) /\ failed[h] \subseteq failed'[h]
      /\ k \in failed'[h] \/ Execute(command)
  BY Step
<1> HIDE DEF l, k, command, last
<1>8. CASE k = 3
  BY <1>0, <1>6, <1>7, <1>8, WholeEffect
<1>9. CASE k # 3
  BY <1>4, <1>5, <1>7, <1>9 DEF Shrinks
<1> QED
  BY <1>8, <1>9

LEMMA RunFreshStep ==
  ASSUME OneCall, TypeOK, Known, RunFresh, NEW h \in Slot, ResetCommand(h)
  PROVE  RunFresh'
<1> DEFINE l == list[h]
           k == cmd[h]
           command == Lists[l][k]
<1>0. /\ l \in DOMAIN Lists /\ k \in 1..Len(Lists[l]) /\ command \in Command /\ k \in Nat
      /\ list' = list /\ cmd'[h] = k + 1
  BY Outcomes
<1>1. SUFFICES ASSUME l # "keep", k + 1 > 3 PROVE Running' \subseteq fresh'[h] \/ 3 \in failed'[h]
  BY <1>0 DEF OneCall, RunFresh
<1>2. k = 3 \/ k > 3
  BY <1>0, <1>1
<1>3. k = 3 => command = "stop docker"
  BY <1>0, <1>1, Positions
<1>4. /\ Shrinks(command) /\ failed[h] \subseteq failed'[h]
      /\ k \in failed'[h] \/ Execute(command)
  BY Step
<1>5. k > 3 => Running \subseteq fresh[h] \/ 3 \in failed[h]
  BY <1>1 DEF RunFresh
<1> HIDE DEF l, k, command
<1>6. CASE k = 3
  BY <1>0, <1>3, <1>4, <1>6, WholeEffect
<1>7. CASE k > 3
  BY <1>4, <1>5, <1>7 DEF Shrinks
<1> QED
  BY <1>2, <1>6, <1>7

LEMMA FilesStep ==
  ASSUME OneCall, TypeOK, FilesInv, [Next]_vars
  PROVE  FilesInv'
<1>1. Known /\ NoneRuns /\ DownForRemoval /\ RunFresh
  BY DEF FilesInv
<1>2. CASE UNCHANGED vars
  <2>1. UNCHANGED <<up, ctr, files, fresh, list, cmd, failed>>
    BY <1>2 DEF vars, host, calls, hist
  <2>2. Kept' = Kept /\ Present' = Present /\ Running' = Running
    BY <2>1 DEF Kept, Present, Running
  <2> QED
    BY <1>1, <2>1, <2>2, FilesElsewhere DEF Known, NoneRuns
<1>3. ASSUME NEW c \in Name, Restored(c) PROVE FilesInv'
  BY <1>1, <1>3, RestoredHost, FilesElsewhere DEF Known, NoneRuns
<1>4. ASSUME NEW c \in Name, ContainerExit(c) PROVE FilesInv'
  BY <1>1, <1>4, ContainerExitHost, FilesElsewhere DEF Known, NoneRuns
<1>5. CASE Crash
  <2>1. Kept' = Kept /\ Present' = Present /\ Running' = Running /\ up' = up
    BY <1>5, CrashHost DEF Kept, Present, Running
  <2> QED
    BY <1>1, <1>5, <2>1, CrashHost, FilesAtFirst DEF Known, NoneRuns
<1>6. ASSUME NEW h \in Slot, Goroutine(h) PROVE FilesInv'
  <2>1. UNCHANGED <<up, files, ctr, old, fresh, list, cmd, failed>>
    BY <1>6, GoroutineHost
  <2>2. Kept' = Kept /\ Present' = Present /\ Running' = Running
    BY <2>1 DEF Kept, Present, Running
  <2> QED
    BY <1>1, <2>1, <2>2, FilesElsewhere DEF Known, NoneRuns
<1>7. ASSUME NEW h \in Slot, Elsewhere(h) PROVE FilesInv'
  BY <1>1, <1>7, AtFirst, ElsewhereHost, FilesAtFirst DEF Known, NoneRuns
<1>8. ASSUME NEW h \in Slot, ResetCommand(h) PROVE FilesInv'
  <2>1. DownForRemoval' /\ RunFresh'
    BY <1>1, <1>8, DownForRemovalStep, RunFreshStep
  <2>2. Shrinks(Lists[list[h]][cmd[h]])
    BY <1>1, <1>8, Step
  <2>3. Known' /\ NoneRuns'
    BY <1>1, <2>2 DEF Shrinks, NoneRuns
  <2> QED
    BY <2>1, <2>3 DEF FilesInv
<1> QED
  BY <1>2, <1>3, <1>4, <1>5, <1>6, <1>7, <1>8 DEF Next, Handler, Elsewhere

\* The body of FilesUnderContainer.
TakenRightly ==
  \A c \in Name : Taken(c) # {} =>
    \E h \in Slot :
      /\ pc[h] = "reset"
      /\ \/ Places(h, "stop docker") \cap failed[h] # {}
         \/ Taken(c) = {"stargz"} /\ c \in fresh[h]

\* Only a command of a reset takes files of a container that goes on running.
LEMMA NothingTaken ==
  ASSUME \A c \in Name : ctr[c] = "running" => files'[c] = files[c]
  PROVE  TakenRightly
  BY DEF TakenRightly, Taken

LEMMA StopAt ==
  ASSUME TypeOK, NEW h \in Slot, list[h] # "keep", cmd[h] > 3, cmd[h] \in 1..Len(Lists[list[h]]),
         3 \in failed[h]
  PROVE  Places(h, "stop docker") \cap failed[h] # {}
<1>1. list[h] \in DOMAIN Lists
  BY TypeParts DEF CallOK
<1>2. Len(Lists[list[h]]) \in Nat
  BY <1>1, ListFacts, Zenon
<1> DEFINE n == Len(Lists[list[h]])
<1>3. 3 \in 1..n
  <2> HIDE DEF n
  <2>1. n \in Nat /\ cmd[h] \in 1..n
    BY <1>2 DEF n
  <2> QED
    BY <2>1
<1> HIDE DEF n
<1>4. 3 \in 1..Len(Lists[list[h]])
  BY <1>3 DEF n
<1>5. \A k \in 1..Len(Lists[list[h]]) : k = 3 => Lists[list[h]][k] = "stop docker"
  BY <1>1, Positions
<1>6. Lists[list[h]][3] = "stop docker"
  BY <1>4, <1>5
<1> HIDE DEF Lists
<1> QED
  BY <1>4, <1>6 DEF Places

LEMMA CommandTakes ==
  ASSUME OneCall, TypeOK, FilesInv, NEW h \in Slot, ResetCommand(h)
  PROVE  TakenRightly
<1> DEFINE l == list[h]
           k == cmd[h]
           command == Lists[l][k]
<1>1. /\ l \in DOMAIN Lists /\ k \in 1..Len(Lists[l]) /\ command \in Command /\ k \in Nat
      /\ pc[h] = "reset" /\ command = Lists[l][k]
  BY Outcomes
<1>2. Takes(command)
  BY Step DEF FilesInv
<1>3. SUFFICES ASSUME NEW c \in Name, Taken(c) # {}
               PROVE  Places(h, "stop docker") \cap failed[h] # {} \/ (Taken(c) = {"stargz"} /\ c \in fresh[h])
  BY <1>1 DEF TakenRightly
<1>4. PICK dir \in DataDir : command = Removal[dir] /\ Taken(c) = {dir}
  BY <1>2, <1>3 DEF Takes
<1>5. c \in Running
  BY <1>3 DEF Taken, Running
<1>6. /\ command = "rm docker" => l # "keep" /\ k = 4
      /\ command = "rm containerd" => l = "stargz" /\ k = 5
      /\ command = "rm stargz" => l = "stargz" /\ k > 3
  <2> HIDE DEF l, k, command
  <2> QED
    BY <1>1, Positions
<1>7. l # "keep" /\ k > 3 /\ 3 \in failed[h] => Places(h, "stop docker") \cap failed[h] # {}
  BY <1>1, StopAt
<1>8. l # "keep" /\ k > 3 => Running \subseteq fresh[h] \/ 3 \in failed[h]
  BY DEF FilesInv, RunFresh
<1>9. \/ l # "keep" /\ k = 4
      \/ l = "stargz" /\ k = 5
      => 3 \in failed[h]
  <2>1. 4 \in 4..6 /\ 4 \in 4..5 /\ 5 \in 4..6
    OBVIOUS
  <2> QED
    BY <1>5, <2>1 DEF FilesInv, NoneRuns, DownForRemoval
<1> HIDE DEF l, k, command
<1>10. CASE dir \in {"docker", "containerd"}
  <2>1. \/ l # "keep" /\ k = 4
        \/ l = "stargz" /\ k = 5
    BY <1>4, <1>6, <1>10, Removals
  <2>2. l # "keep" /\ k > 3
    BY <2>1
  <2> QED
    BY <1>7, <1>9, <2>1, <2>2
<1>11. CASE dir = "stargz"
  <2>1. l # "keep" /\ k > 3
    BY <1>4, <1>6, <1>11, Removals
  <2> QED
    BY <1>4, <1>5, <1>7, <1>8, <1>11, <2>1
<1> QED
  BY <1>10, <1>11 DEF DataDir

LEMMA FilesTaken ==
  ASSUME OneCall, TypeOK, FilesInv, [Next]_vars
  PROVE  TakenRightly
<1>1. CASE UNCHANGED vars
  BY <1>1, NothingTaken DEF vars, host
<1>2. ASSUME NEW c \in Name, Restored(c) PROVE TakenRightly
  BY <1>2, RestoredHost, NothingTaken
<1>3. ASSUME NEW c \in Name, ContainerExit(c) PROVE TakenRightly
  BY <1>3, ContainerExitHost, NothingTaken
<1>4. CASE Crash
  BY <1>4, CrashHost, NothingTaken
<1>5. ASSUME NEW h \in Slot, Goroutine(h) PROVE TakenRightly
  BY <1>5, GoroutineHost, NothingTaken
<1>6. ASSUME NEW h \in Slot, Elsewhere(h) PROVE TakenRightly
  BY <1>6, ElsewhereHost, NothingTaken
<1>7. ASSUME NEW h \in Slot, ResetCommand(h) PROVE TakenRightly
  BY <1>7, CommandTakes
<1> QED
  BY <1>1, <1>2, <1>3, <1>4, <1>5, <1>6, <1>7 DEF Next, Handler, Elsewhere

\* One call at a time: no step takes files of a container that goes on running,
\* but for what FilesUnderContainer grants, whatever fails and whatever a pull
\* starts meanwhile.
THEOREM FilesStayUnder ==
  ASSUME OneCall
  PROVE  Spec => FilesUnderContainer
<1>1. TypeOK /\ FilesInv /\ [Next]_vars => (TypeOK /\ FilesInv)'
  BY NextType, FilesStep
<1>2. TypeOK /\ FilesInv /\ [Next]_vars => [TakenRightly]_vars
  BY FilesTaken
<1>3. FilesUnderContainer <=> [][TakenRightly]_vars
  BY DEF FilesUnderContainer, TakenRightly
<1> QED
  BY InitType, FilesInit, <1>1, <1>2, <1>3, PTL DEF Spec

-----------------------------------------------------------------------------
(* The wipe: what is left on the host when the reset is over. *)

DirsEmptied ==
  \A h \in Slot, dir \in DataDir : \A j \in Places(h, Removal[dir]) :
    j < cmd[h] /\ dir \in old[h] => j \in failed[h]

LastRestart ==
  \A h \in Slot :
    cmd[h] > Len(Lists[list[h]]) => "docker" \in up \/ Len(Lists[list[h]]) \in failed[h]

\* The restart before the prune lets it remove every container.
Pruned ==
  \A h \in Slot :
    /\ cmd[h] > 1 => 1 \in failed[h] \/ Running \subseteq fresh[h]
    /\ cmd[h] > 2 => {1, 2} \cap failed[h] # {} \/ Present \subseteq fresh[h]

\* The removal of its data leaves the daemon nothing to know at its next restart.
KeptFresh ==
  \A h \in Slot : \A j \in Places(h, "rm docker") :
    j < cmd[h] => j \in failed[h] \/ Kept \subseteq fresh[h]

Forgotten ==
  \A h \in Slot : \A j \in Places(h, "rm docker"), i \in Places(h, "restart docker") :
    j < i /\ i < cmd[h] => j \in failed[h] \/ i \in failed[h] \/ Present \subseteq fresh[h]

WipeInv == Known /\ DirsEmptied /\ LastRestart /\ Pruned /\ KeptFresh /\ Forgotten

LEMMA PlacesNat ==
  ASSUME TypeOK, NEW h \in Slot, NEW command, NEW j \in Places(h, command)
  PROVE  /\ j \in Nat /\ j >= 1 /\ ~(j < 1) /\ j \in 1..Len(Lists[list[h]])
         /\ Lists[list[h]][j] = command /\ Len(Lists[list[h]]) \in Nat
<1>1. list[h] \in DOMAIN Lists
  BY TypeParts DEF CallOK
<1>2. Len(Lists[list[h]]) \in Nat
  BY <1>1, ListFacts, Zenon
<1>3. j \in 1..Len(Lists[list[h]]) /\ Lists[list[h]][j] = command
  BY DEF Places
<1> HIDE DEF Lists
<1> QED
  BY <1>2, <1>3

LEMMA ListLength ==
  ASSUME NEW l \in DOMAIN Lists
  PROVE  Len(Lists[l]) \in Nat /\ Len(Lists[l]) >= 1 /\ ~(1 > Len(Lists[l])) /\ Len(Lists[l]) > 2
<1>1. Len(Lists[l]) = 17 \/ Len(Lists[l]) = 7 \/ Len(Lists[l]) = 4
  BY ListFacts, Zenon
<1> DEFINE n == Len(Lists[l])
<1>2. n = 17 \/ n = 7 \/ n = 4
  BY <1>1
<1> HIDE DEF n
<1>3. n \in Nat /\ n >= 1 /\ ~(1 > n) /\ n > 2
  BY <1>2
<1> QED
  BY <1>3 DEF n

\* At its first command a reset has promised nothing yet.
LEMMA WipeAtFirst ==
  ASSUME TypeOK', Known', \A h \in Slot : cmd'[h] = 1
  PROVE  WipeInv'
<1>1. \A h \in Slot : list'[h] \in DOMAIN Lists
  BY DEF TypeOK
<1>2. ASSUME NEW h \in Slot, NEW command, NEW j \in Places(h, command)'
      PROVE  j \in Nat /\ ~(j < 1)
  <2>1. Len(Lists[list'[h]]) \in Nat /\ j \in 1..Len(Lists[list'[h]])
    BY <1>1, <1>2, ListLength DEF Places
  <2> HIDE DEF Lists
  <2> QED
    BY <2>1
<1>3. ~(1 > 1) /\ ~(1 > 2)
  OBVIOUS
<1>4. DirsEmptied'
  BY <1>2 DEF DirsEmptied
<1>5. LastRestart'
  BY <1>1, ListLength DEF LastRestart
<1>6. Pruned'
  BY <1>3 DEF Pruned
<1>7. KeptFresh'
  BY <1>2 DEF KeptFresh
<1>8. Forgotten'
  BY <1>2 DEF Forgotten
<1> QED
  BY <1>4, <1>5, <1>6, <1>7, <1>8 DEF WipeInv

LEMMA WipeInit == Init => WipeInv
<1> SUFFICES ASSUME Init PROVE WipeInv
  OBVIOUS
<1>1. TypeOK
  BY InitType
<1>2. \A h \in Slot : cmd[h] = 1 /\ list[h] \in DOMAIN Lists
  BY ListFacts DEF Init
<1>3. Known
  BY DEF Init, Known, Kept
<1>4. ~(1 > 1) /\ ~(1 > 2)
  OBVIOUS
<1>5. DirsEmptied
  BY <1>1, <1>2, PlacesNat DEF DirsEmptied
<1>6. LastRestart
  BY <1>2, ListLength DEF LastRestart
<1>7. Pruned
  BY <1>2, <1>4 DEF Pruned
<1>8. KeptFresh
  BY <1>1, <1>2, PlacesNat DEF KeptFresh
<1>9. Forgotten
  BY <1>1, <1>2, PlacesNat DEF Forgotten
<1> QED
  BY <1>3, <1>5, <1>6, <1>7, <1>8, <1>9 DEF WipeInv

\* What a step that runs no command may do to the host leaves the wipe as far as it is.
LEMMA WipeElsewhere ==
  ASSUME WipeInv, TypeOK, Known', UNCHANGED <<up, list, cmd, failed, old>>,
         \A h \in Slot : cmd[h] # 1 =>
           /\ Running \subseteq fresh[h] => Running' \subseteq fresh'[h]
           /\ Present \subseteq fresh[h] => Present' \subseteq fresh'[h]
           /\ Kept \subseteq fresh[h] => Kept' \subseteq fresh'[h]
  PROVE  WipeInv'
<1>1. \A h \in Slot : \A command : Places(h, command)' = Places(h, command)
  BY DEF Places
<1>2. \A h \in Slot : \A command : \A j \in Places(h, command) : j < cmd[h] => cmd[h] # 1
  BY PlacesNat
<1>3. \A h \in Slot : cmd[h] > 1 \/ cmd[h] > 2 => cmd[h] # 1
  OBVIOUS
<1>4. DirsEmptied'
  BY <1>1 DEF WipeInv, DirsEmptied
<1>5. LastRestart'
  BY DEF WipeInv, LastRestart
<1>6. Pruned'
  BY <1>3 DEF WipeInv, Pruned
<1>7. KeptFresh'
  BY <1>1, <1>2 DEF WipeInv, KeptFresh
<1>8. Forgotten'
  BY <1>1, <1>2 DEF WipeInv, Forgotten
<1> QED
  BY <1>4, <1>5, <1>6, <1>7, <1>8 DEF WipeInv

\* The next place of a list lies behind j when this one does, or is j itself.
LEMMA Behind ==
  ASSUME NEW j \in Nat, NEW k \in Nat, j < k + 1
  PROVE  j = k \/ j < k
  OBVIOUS

LEMMA DirsEmptiedStep ==
  ASSUME OneCall, TypeOK, Known, DirsEmptied, NEW h \in Slot, ResetCommand(h)
  PROVE  DirsEmptied'
<1> DEFINE k == cmd[h]
           command == Lists[list[h]][k]
<1>1. command \in Command /\ k \in Nat /\ list' = list /\ cmd'[h] = k + 1
  BY Outcomes
<1>2. Shrinks(command) /\ failed[h] \subseteq failed'[h] /\ (k \in failed'[h] \/ Execute(command))
  BY Step DEF Takes
<1>3. SUFFICES ASSUME NEW dir \in DataDir, NEW j \in Places(h, Removal[dir]), j < k + 1, dir \in old'[h]
               PROVE  j \in failed'[h]
  BY <1>1 DEF OneCall, DirsEmptied, Places
<1>4. j \in Nat /\ Lists[list[h]][j] = Removal[dir]
  BY PlacesNat
<1>5. CASE j = k
  <2>1. command = Removal[dir]
    BY <1>4, <1>5
  <2> HIDE DEF command, k
  <2>2. Execute(command) => dir \notin old'[h]
    BY <1>1, <2>1, WholeEffect
  <2> QED
    BY <1>2, <1>3, <1>5, <2>2
<1>6. CASE j < k
  <2>1. dir \in old[h]
    BY <1>2, <1>3 DEF Shrinks
  <2>2. j \in failed[h]
    BY <1>6, <2>1 DEF DirsEmptied
  <2> QED
    BY <1>2, <2>2
<1> QED
  BY <1>1, <1>3, <1>4, <1>5, <1>6, Behind

LEMMA LastRestartStep ==
  ASSUME OneCall, TypeOK, Known, LastRestart, NEW h \in Slot, ResetCommand(h)
  PROVE  LastRestart'
<1> DEFINE k == cmd[h]
           n == Len(Lists[list[h]])
           command == Lists[list[h]][k]
<1>1. /\ list[h] \in DOMAIN Lists /\ k \in 1..n /\ command \in Command /\ k \in Nat
      /\ list' = list /\ cmd'[h] = k + 1
  BY Outcomes
<1>2. k \in failed'[h] \/ Execute(command)
  BY Step
<1>3. SUFFICES ASSUME k + 1 > n PROVE "docker" \in up' \/ n \in failed'[h]
  BY <1>1 DEF OneCall, LastRestart
<1>4. n \in Nat
  BY <1>1, ListFacts
<1>5. k = n
  <2> HIDE DEF n, k
  <2> QED
    BY <1>1, <1>3, <1>4
<1>6. command = "restart docker"
  <2>1. \A i \in 1..Len(Lists[list[h]]) : i = Len(Lists[list[h]]) => Lists[list[h]][i] = "restart docker"
    BY <1>1, Positions
  <2> QED
    BY <1>1, <1>5, <2>1
<1> HIDE DEF n, k, command
<1> QED
  BY <1>1, <1>2, <1>5, <1>6, WholeEffect

LEMMA PrunedStep ==
  ASSUME OneCall, TypeOK, Known, Pruned, NEW h \in Slot, ResetCommand(h)
  PROVE  Pruned'
<1> DEFINE k == cmd[h]
           command == Lists[list[h]][k]
<1>1. /\ list[h] \in DOMAIN Lists /\ k \in 1..Len(Lists[list[h]]) /\ command \in Command /\ k \in Nat
      /\ list' = list /\ cmd'[h] = k + 1 /\ command = Lists[list[h]][k]
  BY Outcomes
<1>2. Shrinks(command) /\ failed[h] \subseteq failed'[h] /\ (k \in failed'[h] \/ Execute(command))
  BY Step
<1>3. (k = 1 => command = "restart docker") /\ (k = 2 => command = "prune")
  <2> HIDE DEF k, command
  <2> QED
    BY <1>1, Positions
<1>4. /\ k > 1 => 1 \in failed[h] \/ Running \subseteq fresh[h]
      /\ k > 2 => {1, 2} \cap failed[h] # {} \/ Present \subseteq fresh[h]
  BY DEF Pruned
<1>5. k + 1 > 1 => k = 1 \/ k > 1
  BY <1>1
<1>6. k + 1 > 2 => (k = 2 /\ k > 1) \/ k > 2
  BY <1>1
<1> HIDE DEF k, command
<1>7. k + 1 > 1 => 1 \in failed'[h] \/ Running' \subseteq fresh'[h]
  <2>1. CASE k = 1
    BY <1>1, <1>2, <1>3, <2>1, WholeEffect
  <2>2. CASE k > 1
    BY <1>2, <1>4, <2>2 DEF Shrinks
  <2> QED
    BY <1>5, <2>1, <2>2
<1>8. k + 1 > 2 => {1, 2} \cap failed'[h] # {} \/ Present' \subseteq fresh'[h]
  <2>1. CASE k = 2 /\ k > 1
    <3>1. Execute(command) => Present' \subseteq Running
      BY <1>1, <1>3, <2>1, WholeEffect
    <3> QED
      BY <1>2, <1>4, <2>1, <3>1 DEF Shrinks
  <2>2. CASE k > 2
    BY <1>2, <1>4, <2>2 DEF Shrinks
  <2> QED
    BY <1>6, <2>1, <2>2
<1>9. \A g \in Slot : g = h
  BY DEF OneCall
<1> QED
  BY <1>1, <1>7, <1>8, <1>9 DEF Pruned

LEMMA KeptFreshStep ==
  ASSUME OneCall, TypeOK, Known, KeptFresh, NEW h \in Slot, ResetCommand(h)
  PROVE  KeptFresh'
<1> DEFINE k == cmd[h]
           command == Lists[list[h]][k]
<1>1. command \in Command /\ k \in Nat /\ list' = list /\ cmd'[h] = k + 1
  BY Outcomes
<1>2. Shrinks(command) /\ failed[h] \subseteq failed'[h] /\ (k \in failed'[h] \/ Execute(command))
  BY Step
<1>3. SUFFICES ASSUME NEW j \in Places(h, "rm docker"), j < k + 1
               PROVE  j \in failed'[h] \/ Kept' \subseteq fresh'[h]
  BY <1>1 DEF OneCall, KeptFresh, Places
<1>4. j \in Nat /\ Lists[list[h]][j] = "rm docker"
  BY PlacesNat
<1>5. CASE j = k
  <2>1. command = "rm docker"
    BY <1>4, <1>5
  <2> HIDE DEF command, k
  <2>2. Execute(command) => Kept' = {}
    BY <1>1, <2>1, WholeEffect
  <2> QED
    BY <1>2, <1>5, <2>2
<1>6. CASE j < k
  BY <1>2, <1>6 DEF KeptFresh, Shrinks
<1> QED
  BY <1>1, <1>3, <1>4, <1>5, <1>6, Behind

LEMMA ForgottenStep ==
  ASSUME OneCall, TypeOK, Known, KeptFresh, Forgotten, NEW h \in Slot, ResetCommand(h)
  PROVE  Forgotten'
<1> DEFINE k == cmd[h]
           command == Lists[list[h]][k]
<1>1. command \in Command /\ k \in Nat /\ list' = list /\ cmd'[h] = k + 1
  BY Outcomes
<1>2. Shrinks(command) /\ failed[h] \subseteq failed'[h] /\ (k \in failed'[h] \/ Execute(command))
  BY Step
<1>3. SUFFICES ASSUME NEW j \in Places(h, "rm docker"), NEW i \in Places(h, "restart docker"),
                      j < i, i < k + 1
               PROVE  j \in failed'[h] \/ i \in failed'[h] \/ Present' \subseteq fresh'[h]
  <2>1. \A c : Places(h, c)' = Places(h, c)
    BY <1>1 DEF Places
  <2>2. (\A g \in Slot : g = h) /\ cmd'[h] = k + 1
    BY <1>1 DEF OneCall
  <2> HIDE DEF k, command
  <2> QED
    BY <2>1, <2>2 DEF Forgotten
<1>4. i \in Nat /\ Lists[list[h]][i] = "restart docker"
  BY PlacesNat
<1>5. CASE i = k
  <2>1. command = "restart docker"
    BY <1>4, <1>5
  <2>2. j \in failed[h] \/ Kept \subseteq fresh[h]
    BY <1>3, <1>5 DEF KeptFresh
  <2> HIDE DEF command, k
  <2>3. Execute(command) => Present' \subseteq Kept
    BY <1>1, <2>1, WholeEffect
  <2> QED
    BY <1>2, <1>5, <2>2, <2>3 DEF Shrinks
<1>6. CASE i < k
  BY <1>2, <1>3, <1>6 DEF Forgotten, Shrinks
<1> QED
  BY <1>1, <1>3, <1>4, <1>5, <1>6, Behind

LEMMA WipeStep ==
  ASSUME OneCall, TypeOK, WipeInv, [Next]_vars
  PROVE  WipeInv'
<1>1. Known /\ DirsEmptied /\ LastRestart /\ Pruned /\ KeptFresh /\ Forgotten
  BY DEF WipeInv
<1>2. TypeOK'
  BY NextType
<1>3. CASE UNCHANGED vars
  <2>1. UNCHANGED <<up, ctr, files, old, fresh, list, cmd, failed>>
    BY <1>3 DEF vars, host, calls, hist
  <2>2. Kept' = Kept /\ Present' = Present /\ Running' = Running
    BY <2>1 DEF Kept, Present, Running
  <2> QED
    BY <1>1, <2>1, <2>2, WipeElsewhere DEF Known
<1>4. ASSUME NEW c \in Name, Restored(c) PROVE WipeInv'
  BY <1>1, <1>4, RestoredHost, WipeElsewhere DEF Known
<1>5. ASSUME NEW c \in Name, ContainerExit(c) PROVE WipeInv'
  BY <1>1, <1>5, ContainerExitHost, WipeElsewhere DEF Known
<1>6. CASE Crash
  <2>1. Kept' = Kept /\ Present' = Present
    BY <1>6, CrashHost DEF Kept, Present
  <2> QED
    BY <1>1, <1>2, <1>6, <2>1, CrashHost, WipeAtFirst DEF Known
<1>7. ASSUME NEW h \in Slot, Goroutine(h) PROVE WipeInv'
  <2>1. UNCHANGED <<up, files, ctr, old, fresh, list, cmd, failed>>
    BY <1>7, GoroutineHost
  <2>2. Kept' = Kept /\ Present' = Present /\ Running' = Running
    BY <2>1 DEF Kept, Present, Running
  <2> QED
    BY <1>1, <2>1, <2>2, WipeElsewhere DEF Known
<1>8. ASSUME NEW h \in Slot, Elsewhere(h) PROVE WipeInv'
  BY <1>1, <1>2, <1>8, AtFirst, ElsewhereHost, WipeAtFirst DEF Known
<1>9. ASSUME NEW h \in Slot, ResetCommand(h) PROVE WipeInv'
  <2>1. Known'
    BY <1>1, <1>9, Step DEF Shrinks
  <2> QED
    BY <1>1, <1>9, <2>1, DirsEmptiedStep, LastRestartStep, PrunedStep, KeptFreshStep,
       ForgottenStep DEF WipeInv
<1> QED
  BY <1>3, <1>4, <1>5, <1>6, <1>7, <1>8, <1>9 DEF Next, Handler, Elsewhere

LEMMA WipedWhenOver == TypeOK /\ WipeInv => HostWiped
<1> SUFFICES ASSUME TypeOK, WipeInv, NEW h \in Slot, Over(h)
             PROVE  /\ \A dir \in Emptied[list[h]] \cap old[h] : Places(h, Removal[dir]) \subseteq failed[h]
                    /\ "docker" \notin up => Len(Lists[list[h]]) \in failed[h]
                    /\ (\E c \in Name \ fresh[h] : ctr[c] # "none") => NotPruned(h) /\ NotRemoved(h)
  BY DEF HostWiped
<1> DEFINE n == Len(Lists[list[h]])
<1>1. list[h] \in DOMAIN Lists /\ cmd[h] > n /\ cmd[h] \in 1..(n + 1)
  BY TypeParts DEF CallOK, PlaceOK, Over
<1>2. n \in Nat /\ n > 2
  BY <1>1, ListLength
<1>3. ASSUME NEW command, NEW j \in Places(h, command) PROVE j < cmd[h]
  <2>1. j \in 1..n
    BY <1>3, PlacesNat
  <2> HIDE DEF n
  <2> QED
    BY <1>1, <1>2, <2>1
<1>4. \A dir \in Emptied[list[h]] \cap old[h] : Places(h, Removal[dir]) \subseteq failed[h]
  <2>1. old[h] \subseteq DataDir
    BY TypeParts DEF HistOK
  <2> QED
    BY <1>3, <2>1 DEF WipeInv, DirsEmptied
<1>5. "docker" \notin up => n \in failed[h]
  BY <1>1 DEF WipeInv, LastRestart
<1>6. ASSUME NEW c \in Name \ fresh[h], ctr[c] # "none" PROVE NotPruned(h) /\ NotRemoved(h)
  <2>1. ~(Present \subseteq fresh[h])
    BY <1>6 DEF Present
  <2>2. cmd[h] > 2
    <3> HIDE DEF n
    <3> QED
      BY <1>1, <1>2
  <2>3. NotPruned(h)
    BY <2>1, <2>2 DEF WipeInv, Pruned, NotPruned
  <2>4. SUFFICES ASSUME NEW j \in Places(h, "rm docker"), j \notin failed[h],
                        NEW i \in Places(h, "restart docker"),
                        \A r \in Places(h, "rm docker") : r < i, i \notin failed[h]
                 PROVE  FALSE
    BY <2>3 DEF NotRemoved
  <2>5. j < i /\ i < cmd[h]
    BY <1>3, <2>4
  <2> QED
    BY <2>1, <2>4, <2>5 DEF WipeInv, Forgotten
<1> QED
  BY <1>4, <1>5, <1>6

\* main.go:155, "record the f and reset the dst": what a reset leaves of a host is
\* accounted for by its own failures, for every number of containers, whatever
\* commands fail, and every order of pulls, exits and crashes.
THEOREM HostsWiped ==
  ASSUME OneCall
  PROVE  Spec => []HostWiped
<1>1. TypeOK /\ WipeInv /\ [Next]_vars => (TypeOK /\ WipeInv)'
  BY NextType, WipeStep
<1> QED
  BY InitType, WipeInit, <1>1, WipedWhenOver, PTL DEF Spec

=============================================================================
