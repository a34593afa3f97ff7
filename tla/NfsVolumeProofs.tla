-------------------------- MODULE NfsVolumeProofs ---------------------------
(***************************************************************************)
(* What createVolumeFromNFS guarantees for any number of directories,      *)
(* exports and pulls: that exports are safe when no two pulls use the same *)
(* directory at the same time and findmnt tells what is mounted, whatever  *)
(* other command fails (ExportsSafe), and that mounts do not pile up       *)
(* however the pulls overlap (LayersNeverPileUp).                          *)
(***************************************************************************)
EXTENDS NfsVolume, FiniteSetTheorems, TLAPS

-----------------------------------------------------------------------------
(* The exports. *)

\* A directory has at most one mount ...
OneLayer == mounted \in [Dir -> {<<>>} \cup {<<e>> : e \in Export}]

\* ... and none any more once the pull that uses it is past umount.
Cleared ==
  \A s \in Slot : pc[s] \in {"stat", "rm", "mkdir", "mount"} => mounted[DirOf[s]] = <<>>

PullsOK ==
  /\ pc \in [Slot -> Stage]
  /\ export \in [Slot -> Export]

IInv == OneLayer /\ PullsOK /\ Cleared /\ ShowsExport /\ ExportIntact

LEMMA InitIInv == Init => IInv
  BY NfsAssumption DEF Init, IInv, OneLayer, PullsOK, Cleared, ShowsExport, ExportIntact, Stage, Done

\* Pulls other than s see neither what s mounts nor what it unmounts.
LEMMA OtherDir ==
  ASSUME OnePullPerDir, OneLayer, NEW s \in Slot, NEW u \in Slot \ {s}, NEW m,
         mounted' = [mounted EXCEPT ![DirOf[s]] = m]
  PROVE  mounted'[DirOf[u]] = mounted[DirOf[u]]
  BY NfsAssumption DEF OnePullPerDir, OneLayer

\* A step that leaves the mounts alone and only moves s to a stage that expects
\* no more of them than its present one.
LEMMA QuietIInv ==
  ASSUME IInv, NEW s \in Slot, NEW stage \in Stage \ {"ok"}, Goto(s, stage),
         stage \in {"stat", "rm", "mkdir", "mount"} => mounted[DirOf[s]] = <<>>,
         UNCHANGED <<mounted, intact, export>>
  PROVE  IInv'
  BY NfsAssumption DEF IInv, OneLayer, PullsOK, Cleared, ShowsExport, ExportIntact, Goto

LEMMA CreateVolumeFromNFSIInv ==
  ASSUME IInv, NEW s \in Slot, CreateVolumeFromNFS(s)
  PROVE  IInv'
<1>1. PICK e \in Export : export' = [export EXCEPT ![s] = e]
  BY DEF CreateVolumeFromNFS
<1>2. /\ pc' = [pc EXCEPT ![s] = "findmnt"]
      /\ UNCHANGED <<mounted, exists, intact>>
  BY DEF CreateVolumeFromNFS, Goto
<1> QED
  BY <1>1, <1>2 DEF IInv, OneLayer, PullsOK, Cleared, ShowsExport, ExportIntact, Stage

LEMMA GetMountSourceIInv ==
  ASSUME IInv, FindmntTells, NEW s \in Slot, GetMountSource(s)
  PROVE  IInv'
<1>1. \/ Goto(s, "umount")
      \/ Goto(s, "stat") /\ mounted[DirOf[s]] = <<>>
  BY DEF GetMountSource, MayFail, FindmntTells
<1> QED
  BY <1>1, QuietIInv DEF GetMountSource, Stage

LEMMA UmountIInv ==
  ASSUME IInv, OnePullPerDir, NEW s \in Slot, Umount(s)
  PROVE  IInv'
<1>1. CASE Goto(s, "failed") /\ UNCHANGED mounted
  BY <1>1, QuietIInv DEF Umount, Stage, Done
<1>2. CASE /\ mounted[DirOf[s]] # <<>>
           /\ mounted' = [mounted EXCEPT ![DirOf[s]] = Tail(@)]
           /\ Goto(s, "stat")
  <2>1. PICK e \in Export : mounted[DirOf[s]] = <<e>>
    BY <1>2, NfsAssumption DEF IInv, OneLayer
  <2>2. Tail(mounted[DirOf[s]]) = <<>>
    BY <2>1
  <2>3. mounted' = [mounted EXCEPT ![DirOf[s]] = <<>>]
    BY <1>2, <2>2
  <2>4. OneLayer' /\ mounted'[DirOf[s]] = <<>>
    BY <2>3, NfsAssumption DEF IInv, OneLayer
  <2>5. \A u \in Slot \ {s} : mounted'[DirOf[u]] = mounted[DirOf[u]]
    BY <2>3, OtherDir DEF IInv
  <2> QED
    BY <1>2, <2>4, <2>5
       DEF Umount, Goto, IInv, PullsOK, Cleared, ShowsExport, ExportIntact, Stage
<1> QED
  BY <1>1, <1>2 DEF Umount

LEMMA StatIInv ==
  ASSUME IInv, NEW s \in Slot, Stat(s)
  PROVE  IInv'
<1>1. mounted[DirOf[s]] = <<>>
  BY DEF Stat, IInv, Cleared
<1> QED
  BY <1>1, QuietIInv DEF Stat, Stage

LEMMA RemoveAllIInv ==
  ASSUME IInv, NEW s \in Slot, RemoveAll(s)
  PROVE  IInv'
<1>1. mounted[DirOf[s]] = <<>>
  BY DEF RemoveAll, IInv, Cleared
<1>2. (Goto(s, "mkdir") \/ Goto(s, "failed")) /\ UNCHANGED <<mounted, intact, export>>
  BY <1>1 DEF RemoveAll
<1> QED
  BY <1>1, <1>2, QuietIInv DEF Stage, Done

LEMMA MkdirIInv ==
  ASSUME IInv, NEW s \in Slot, Mkdir(s)
  PROVE  IInv'
<1>1. mounted[DirOf[s]] = <<>>
  BY DEF Mkdir, IInv, Cleared
<1> QED
  BY <1>1, QuietIInv DEF Mkdir, Stage, Done

LEMMA MountIInv ==
  ASSUME IInv, OnePullPerDir, NEW s \in Slot, Mount(s)
  PROVE  IInv'
<1>1. CASE Goto(s, "failed") /\ UNCHANGED mounted
  BY <1>1, QuietIInv DEF Mount, Stage, Done
<1>2. CASE mounted' = [mounted EXCEPT ![DirOf[s]] = <<export[s]>> \o @] /\ Goto(s, "ok")
  <2>1. mounted[DirOf[s]] = <<>>
    BY DEF Mount, IInv, Cleared
  <2>2. export[s] \in Export /\ <<export[s]>> \o mounted[DirOf[s]] = <<export[s]>>
    BY <2>1 DEF IInv, PullsOK
  <2>3. mounted' = [mounted EXCEPT ![DirOf[s]] = <<export[s]>>]
    BY <1>2, <2>2
  <2>4. OneLayer' /\ mounted'[DirOf[s]] = <<export[s]>>
    BY <2>2, <2>3, NfsAssumption DEF IInv, OneLayer
  <2>5. \A u \in Slot \ {s} : mounted'[DirOf[u]] = mounted[DirOf[u]]
    BY <2>3, OtherDir DEF IInv
  <2> QED
    BY <1>2, <2>4, <2>5
       DEF Mount, Goto, IInv, PullsOK, Cleared, ShowsExport, ExportIntact, Stage, Done
<1> QED
  BY <1>1, <1>2 DEF Mount

\* A migration neither deletes files of an export nor leaves a restored container
\* without the export its directory stood for.
THEOREM ExportsSafe ==
  ASSUME OnePullPerDir, FindmntTells
  PROVE  Spec => [](ExportIntact /\ ShowsExport)
<1>1. Init => IInv
  BY InitIInv
<1>2. IInv /\ [Next]_vars => IInv'
  <2> SUFFICES ASSUME IInv, [Next]_vars PROVE IInv'
    OBVIOUS
  <2>1. CASE UNCHANGED vars
    BY <2>1 DEF vars, IInv, OneLayer, PullsOK, Cleared, ShowsExport, ExportIntact
  <2>2. CASE Next
    BY <2>2, CreateVolumeFromNFSIInv, GetMountSourceIInv, UmountIInv, StatIInv,
       RemoveAllIInv, MkdirIInv, MountIInv DEF Next, Step
  <2> QED
    BY <2>1, <2>2
<1>3. IInv => ExportIntact /\ ShowsExport
  BY DEF IInv
<1> QED
  BY <1>1, <1>2, <1>3, PTL DEF Spec

\* The files of every export stay on the NFS server.
THEOREM ExportsIntact ==
  ASSUME OnePullPerDir, FindmntTells
  PROVE  Spec => []ExportIntact
  BY ExportsSafe, PTL

\* The directory of a container that was pulled shows its own export alone.
THEOREM DirectoriesShow ==
  ASSUME OnePullPerDir, FindmntTells
  PROVE  Spec => []ShowsExport
  BY ExportsSafe, PTL

-----------------------------------------------------------------------------
(* Types, however the pulls overlap and whatever fails. *)

LEMMA InitType == Init => TypeOK
<1> SUFFICES ASSUME Init PROVE TypeOK
  OBVIOUS
<1>1. ASSUME NEW d \in Dir PROVE mounted[d] \in Seq(Export)
  <2>1. mounted[d] = <<>> \/ \E e \in Export : mounted[d] = <<e>>
    BY DEF Init
  <2>2. <<>> \in Seq(Export) /\ \A e \in Export : <<e>> \in Seq(Export)
    OBVIOUS
  <2> QED
    BY <2>1, <2>2, Zenon
<1>2. mounted = [d \in Dir |-> mounted[d]]
  BY DEF Init
<1>3. mounted \in [Dir -> Seq(Export)]
  BY <1>1, <1>2
<1> QED
  BY <1>3 DEF Init, TypeOK, Stage, Done

LEMMA NextType == TypeOK /\ [Next]_vars => TypeOK'
<1> SUFFICES ASSUME TypeOK, [Next]_vars PROVE TypeOK'
  OBVIOUS
<1> USE NfsAssumption
<1>1. CASE UNCHANGED vars
  BY <1>1 DEF vars, TypeOK
<1>2. ASSUME NEW s \in Slot, CreateVolumeFromNFS(s) PROVE TypeOK'
  BY <1>2 DEF CreateVolumeFromNFS, Goto, TypeOK, Stage
<1>3. ASSUME NEW s \in Slot, GetMountSource(s) \/ Stat(s) PROVE TypeOK'
  BY <1>3 DEF GetMountSource, Stat, Goto, TypeOK, Stage
<1>4. ASSUME NEW s \in Slot, Umount(s) PROVE TypeOK'
  <2>1. mounted[DirOf[s]] # <<>> => Tail(mounted[DirOf[s]]) \in Seq(Export)
    BY DEF TypeOK
  <2>2. mounted' \in [Dir -> Seq(Export)]
    BY <1>4, <2>1 DEF Umount, TypeOK
  <2> QED
    BY <1>4, <2>2 DEF Umount, Goto, TypeOK, Stage, Done
<1>5. ASSUME NEW s \in Slot, RemoveAll(s) PROVE TypeOK'
  BY <1>5 DEF RemoveAll, Goto, TypeOK, Stage, Done
<1>6. ASSUME NEW s \in Slot, Mkdir(s) PROVE TypeOK'
  BY <1>6 DEF Mkdir, Goto, TypeOK, Stage, Done
<1>7. ASSUME NEW s \in Slot, Mount(s) PROVE TypeOK'
  <2>1. <<export[s]>> \o mounted[DirOf[s]] \in Seq(Export)
    BY DEF TypeOK
  <2> QED
    BY <1>7, <2>1 DEF Mount, Goto, TypeOK, Stage, Done
<1> QED
  BY <1>1, <1>2, <1>3, <1>4, <1>5, <1>6, <1>7 DEF Next, Step

\* Every reachable state has the types.
THEOREM TypeCorrect == Spec => []TypeOK
  BY InitType, NextType, PTL DEF Spec

-----------------------------------------------------------------------------
(***************************************************************************)
(* The bound on the mounts, for every number of pulls of one directory and *)
(* whatever command fails.  A pull about to mount has room for its mount:  *)
(* it has made the directory, so that nothing was mounted there then, and  *)
(* what has been mounted since was mounted by pulls that are past it.      *)
(***************************************************************************)

Pulls(d)    == {u \in Slot : DirOf[u] = d}
Mounting(d) == {u \in Pulls(d) : pc[u] = "mount"}
RoomAt(d)   == Len(mounted[d]) + Cardinality(Mounting(d)) <= Cardinality(Pulls(d))

LayersInv ==
  /\ \A s \in Slot : RoomAt(DirOf[s])
  /\ \A d \in Dir : mounted[d] # <<>> => d \in exists

LEMMA PullsFinite ==
  ASSUME NEW d
  PROVE  /\ IsFiniteSet(Pulls(d)) /\ Cardinality(Pulls(d)) \in Nat
         /\ \A T \in SUBSET Pulls(d) :
              IsFiniteSet(T) /\ Cardinality(T) \in Nat /\ Cardinality(T) <= Cardinality(Pulls(d))
<1>1. IsFiniteSet(Pulls(d))
  BY NfsAssumption, FS_Subset DEF Pulls
<1>2. \A T \in SUBSET Pulls(d) : IsFiniteSet(T) /\ Cardinality(T) <= Cardinality(Pulls(d))
  BY <1>1, FS_Subset
<1> QED
  BY <1>1, <1>2, FS_CardinalityType

\* The sums that the steps below come to.
LEMMA NoMore ==
  ASSUME NEW a \in Nat, NEW b \in Nat, NEW n \in Nat
  PROVE  /\ a + b <= n => \A c, d \in Nat : c <= a /\ d <= b => c + d <= n
         /\ a + b <= n => (a + 1) + (b - 1) <= n
         /\ b <= n => 0 + b <= n
  OBVIOUS

LEMMA InitLayers == Init => LayersInv
<1> SUFFICES ASSUME Init PROVE LayersInv
  OBVIOUS
<1>1. ASSUME NEW s \in Slot PROVE RoomAt(DirOf[s])
  <2> DEFINE d == DirOf[s]
  <2>1. Mounting(d) = {} /\ Len(mounted[d]) \in {0, 1}
    BY NfsAssumption DEF Init, Mounting, Pulls
  <2>2. s \in Pulls(d)
    BY DEF Pulls
  <2>3. Cardinality(Mounting(d)) = 0 /\ Cardinality(Pulls(d)) # 0
    BY <2>1, <2>2, PullsFinite, FS_EmptySet
  <2>4. Cardinality(Pulls(d)) \in Nat
    BY PullsFinite
  <2> HIDE DEF d
  <2>5. Len(mounted[d]) + Cardinality(Mounting(d)) <= Cardinality(Pulls(d))
    <3>1. \A a \in {0, 1}, n \in Nat : n # 0 => a + 0 <= n
      OBVIOUS
    <3>2. Len(mounted[d]) + 0 <= Cardinality(Pulls(d))
      BY <2>1, <2>3, <2>4, <3>1, Zenon
    <3> QED
      BY <2>3, <3>2, Zenon
  <2> QED
    BY <2>5 DEF d, RoomAt
<1>2. \A d \in Dir : mounted[d] # <<>> => d \in exists
  BY DEF Init
<1> QED
  BY <1>1, <1>2 DEF LayersInv

\* A step of one pull concerns the room at its own directory only.
LEMMA OtherRoom ==
  ASSUME LayersInv, NEW s \in Slot, RoomAt(DirOf[s])',
         \A d \in Dir : d # DirOf[s] => mounted'[d] = mounted[d],
         \A u \in Slot : u # s => pc'[u] = pc[u]
  PROVE  \A u \in Slot : RoomAt(DirOf[u])'
<1> SUFFICES ASSUME NEW u \in Slot, DirOf[u] # DirOf[s] PROVE RoomAt(DirOf[u])'
  OBVIOUS
<1> DEFINE d == DirOf[u]
<1>1. mounted'[d] = mounted[d]
  BY NfsAssumption
<1>2. Mounting(d)' = Mounting(d)
  BY DEF Mounting, Pulls
<1> QED
  BY <1>1, <1>2 DEF LayersInv, RoomAt

\* What mounts no more, and lets no further pull come to its mount, leaves room.
LEMMA QuietRoom ==
  ASSUME TypeOK, TypeOK', LayersInv, NEW s \in Slot,
         Len(mounted'[DirOf[s]]) <= Len(mounted[DirOf[s]]),
         \A u \in Slot : pc'[u] = "mount" => pc[u] = "mount"
  PROVE  RoomAt(DirOf[s])'
<1> DEFINE d == DirOf[s]
<1>1. d \in Dir /\ Len(mounted[d]) \in Nat /\ Len(mounted'[d]) \in Nat
  BY NfsAssumption DEF TypeOK
<1>2. Mounting(d)' \in SUBSET Mounting(d) /\ Mounting(d) \in SUBSET Pulls(d)
  BY DEF Mounting, Pulls
<1>3. /\ Cardinality(Mounting(d)) \in Nat /\ Cardinality(Pulls(d)) \in Nat
      /\ Cardinality(Mounting(d)') \in Nat /\ Cardinality(Mounting(d)') <= Cardinality(Mounting(d))
  BY <1>2, PullsFinite, FS_Subset
<1>4. Len(mounted[d]) + Cardinality(Mounting(d)) <= Cardinality(Pulls(d))
  BY DEF LayersInv, RoomAt
<1> HIDE DEF d
<1>5. Len(mounted'[d]) + Cardinality(Mounting(d)') <= Cardinality(Pulls(d))
  BY <1>1, <1>3, <1>4, NoMore DEF d
<1> QED
  BY <1>5 DEF d, RoomAt, Mounting, Pulls
\* A pull that mounts takes the room it had.
LEMMA MountRoom ==
  ASSUME TypeOK, LayersInv, NEW s \in Slot, pc[s] = "mount",
         mounted' = [mounted EXCEPT ![DirOf[s]] = <<export[s]>> \o @], Goto(s, "ok")
  PROVE  RoomAt(DirOf[s])'
<1> DEFINE d == DirOf[s]
<1>1. d \in Dir /\ Len(mounted[d]) \in Nat
  BY NfsAssumption DEF TypeOK
<1>2. Len(mounted'[d]) = Len(mounted[d]) + 1
  <2>1. mounted'[d] = <<export[s]>> \o mounted[d]
    BY <1>1 DEF TypeOK
  <2>2. mounted[d] \in Seq(Export) /\ export[s] \in Export
    BY <1>1 DEF TypeOK
  <2> HIDE DEF d
  <2>3. Len(<<export[s]>> \o mounted[d]) = Len(mounted[d]) + 1
    BY <2>2
  <2> QED
    BY <2>1, <2>3
<1>3. Mounting(d)' = Mounting(d) \ {s} /\ s \in Mounting(d) /\ Mounting(d) \in SUBSET Pulls(d)
  BY DEF Mounting, Pulls, Goto, TypeOK
<1>4. /\ Cardinality(Mounting(d)) \in Nat /\ Cardinality(Pulls(d)) \in Nat
      /\ Cardinality(Mounting(d)') = Cardinality(Mounting(d)) - 1
  BY <1>3, PullsFinite, FS_RemoveElement
<1>5. Len(mounted[d]) + Cardinality(Mounting(d)) <= Cardinality(Pulls(d))
  BY DEF LayersInv, RoomAt
<1> HIDE DEF d
<1>6. Len(mounted'[d]) + Cardinality(Mounting(d)') <= Cardinality(Pulls(d))
  BY <1>1, <1>2, <1>4, <1>5, NoMore
<1> QED
  BY <1>6 DEF d, RoomAt, Mounting, Pulls

\* A pull that has made the directory finds nothing mounted there.
LEMMA MkdirRoom ==
  ASSUME TypeOK, LayersInv, NEW s \in Slot, mounted' = mounted, mounted[DirOf[s]] = <<>>
  PROVE  RoomAt(DirOf[s])'
<1> DEFINE d == DirOf[s]
<1>1. Len(mounted'[d]) = 0
  OBVIOUS
<1>2. Mounting(d)' \in SUBSET Pulls(d)
  BY DEF Mounting, Pulls
<1>3. /\ Cardinality(Mounting(d)') \in Nat /\ Cardinality(Pulls(d)) \in Nat
      /\ Cardinality(Mounting(d)') <= Cardinality(Pulls(d))
  BY <1>2, PullsFinite
<1> HIDE DEF d
<1>4. Len(mounted'[d]) + Cardinality(Mounting(d)') <= Cardinality(Pulls(d))
  BY <1>1, <1>3, NoMore
<1> QED
  BY <1>4 DEF d, RoomAt, Mounting, Pulls

LEMMA LayersStep ==
  ASSUME TypeOK, TypeOK', LayersInv, [Next]_vars
  PROVE  LayersInv'
<1> USE NfsAssumption
<1>0. \A d \in Dir : Len(mounted[d]) \in Nat
  BY DEF TypeOK
<1>1. CASE UNCHANGED vars
  BY <1>1 DEF vars, LayersInv, RoomAt, Mounting, Pulls
<1>2. ASSUME NEW s \in Slot,
             CreateVolumeFromNFS(s) \/ GetMountSource(s) \/ Stat(s) \/ RemoveAll(s)
      PROVE  LayersInv'
  <2>1. /\ mounted' = mounted /\ \A u \in Slot : pc'[u] = "mount" => pc[u] = "mount"
        /\ \A u \in Slot : u # s => pc'[u] = pc[u]
    BY <1>2 DEF CreateVolumeFromNFS, GetMountSource, Stat, RemoveAll, Goto, TypeOK
  <2>2. RoomAt(DirOf[s])'
    BY <1>0, <2>1, QuietRoom
  <2>3. \A d \in Dir : mounted'[d] # <<>> => d \in exists'
    BY <1>2, <2>1 DEF CreateVolumeFromNFS, GetMountSource, Stat, RemoveAll, LayersInv
  <2> QED
    BY <2>1, <2>2, <2>3, OtherRoom DEF LayersInv
<1>3. ASSUME NEW s \in Slot, Umount(s) PROVE LayersInv'
  <2>1. /\ \A u \in Slot : pc'[u] = "mount" => pc[u] = "mount"
        /\ \A u \in Slot : u # s => pc'[u] = pc[u]
        /\ exists' = exists
        /\ \A d \in Dir : d # DirOf[s] => mounted'[d] = mounted[d]
        /\ \/ mounted' = mounted
           \/ mounted[DirOf[s]] # <<>> /\ mounted'[DirOf[s]] = Tail(mounted[DirOf[s]])
    BY <1>3 DEF Umount, Goto, TypeOK
  <2>2. Len(mounted'[DirOf[s]]) <= Len(mounted[DirOf[s]])
    <3>1. mounted[DirOf[s]] \in Seq(Export)
      BY DEF TypeOK
    <3>2. mounted[DirOf[s]] # <<>> => Len(Tail(mounted[DirOf[s]])) = Len(mounted[DirOf[s]]) - 1
      BY <3>1
    <3>3. Len(mounted[DirOf[s]]) \in Nat
      BY <1>0
    <3>4. CASE mounted' = mounted
      BY <3>3, <3>4
    <3>5. CASE mounted[DirOf[s]] # <<>> /\ mounted'[DirOf[s]] = Tail(mounted[DirOf[s]])
      <4>1. Len(mounted'[DirOf[s]]) = Len(mounted[DirOf[s]]) - 1
        BY <3>2, <3>5
      <4> QED
        BY <3>3, <4>1
    <3> QED
      BY <2>1, <3>4, <3>5
  <2>3. RoomAt(DirOf[s])'
    BY <2>1, <2>2, QuietRoom
  <2>4. \A d \in Dir : mounted'[d] # <<>> => d \in exists'
    BY <2>1 DEF LayersInv
  <2> QED
    BY <2>1, <2>3, <2>4, OtherRoom DEF LayersInv
<1>4. ASSUME NEW s \in Slot, Mkdir(s) PROVE LayersInv'
  <2>1. /\ mounted' = mounted /\ exists \subseteq exists'
        /\ \A u \in Slot : u # s => pc'[u] = pc[u]
        /\ \/ mounted[DirOf[s]] = <<>>
           \/ \A u \in Slot : pc'[u] = "mount" => pc[u] = "mount"
    BY <1>4 DEF Mkdir, Goto, TypeOK, LayersInv
  <2>2. RoomAt(DirOf[s])'
    BY <1>0, <2>1, QuietRoom, MkdirRoom
  <2>3. \A d \in Dir : mounted'[d] # <<>> => d \in exists'
    BY <2>1 DEF LayersInv
  <2> QED
    BY <2>1, <2>2, <2>3, OtherRoom DEF LayersInv
<1>5. ASSUME NEW s \in Slot, Mount(s) PROVE LayersInv'
  <2>1. /\ \A u \in Slot : u # s => pc'[u] = pc[u]
        /\ exists' = exists /\ pc[s] = "mount"
        /\ \A d \in Dir : d # DirOf[s] => mounted'[d] = mounted[d]
    BY <1>5 DEF Mount, Goto, TypeOK
  <2>2. CASE /\ DirOf[s] \in exists
             /\ mounted' = [mounted EXCEPT ![DirOf[s]] = <<export[s]>> \o @]
             /\ Goto(s, "ok")
    <3>1. RoomAt(DirOf[s])'
      BY <2>1, <2>2, MountRoom
    <3>2. \A d \in Dir : mounted'[d] # <<>> => d \in exists'
      BY <2>1, <2>2 DEF LayersInv
    <3> QED
      BY <2>1, <3>1, <3>2, OtherRoom DEF LayersInv
  <2>3. CASE mounted' = mounted /\ Goto(s, "failed")
    <3>1. \A u \in Slot : pc'[u] = "mount" => pc[u] = "mount"
      BY <2>3 DEF Goto, TypeOK
    <3>2. RoomAt(DirOf[s])'
      BY <1>0, <2>3, <3>1, QuietRoom
    <3>3. \A d \in Dir : mounted'[d] # <<>> => d \in exists'
      BY <2>1, <2>3 DEF LayersInv
    <3> QED
      BY <2>1, <3>2, <3>3, OtherRoom DEF LayersInv
  <2> QED
    BY <1>5, <2>2, <2>3 DEF Mount
<1> QED
  BY <1>1, <1>2, <1>3, <1>4, <1>5 DEF Next, Step

LEMMA Layered == TypeOK /\ LayersInv => LayersBounded
<1> SUFFICES ASSUME TypeOK, LayersInv, NEW s \in Slot
             PROVE  Len(mounted[DirOf[s]]) <= Cardinality(Pulls(DirOf[s]))
  BY DEF LayersBounded, Pulls
<1> DEFINE d == DirOf[s]
<1>1. Len(mounted[d]) \in Nat
  BY NfsAssumption DEF TypeOK
<1>2. Mounting(d) \in SUBSET Pulls(d)
  BY DEF Mounting
<1>3. Cardinality(Mounting(d)) \in Nat /\ Cardinality(Pulls(d)) \in Nat
  BY <1>2, PullsFinite
<1>4. Len(mounted[d]) + Cardinality(Mounting(d)) <= Cardinality(Pulls(d))
  BY DEF LayersInv, RoomAt
<1> HIDE DEF d
<1>5. Len(mounted[d]) <= Cardinality(Pulls(d))
  BY <1>1, <1>3, <1>4
<1> QED
  BY <1>5 DEF d

\* However many pulls of one container overlap, and whatever fails, findmnt
\* included, the mounts at its directory never outnumber them.
THEOREM LayersNeverPileUp == Spec => []LayersBounded
<1>1. TypeOK /\ LayersInv /\ [Next]_vars => (TypeOK /\ LayersInv)'
  BY NextType, LayersStep
<1> QED
  BY InitType, InitLayers, <1>1, Layered, PTL DEF Spec
=============================================================================
