----------------------------- MODULE NfsVolume ------------------------------
(***************************************************************************)
(* createVolumeFromNFS (Migration/volume.go): the agent of one host mounts *)
(* the NFS export behind a container's directory, at the same path, before *)
(* it restores the container.  It looks for an earlier mount, unmounts it, *)
(* removes the directory, makes it again and mounts the export, each with  *)
(* a command of its own.  Every pull does so in a goroutine of its own,    *)
(* and nothing serialises them.                                            *)
(*                                                                         *)
(* A directory may be mounted on more than once; what it shows is the last *)
(* mount.  Removing a directory removes what it shows: the files of the    *)
(* export, on the NFS server, if something is mounted there.               *)
(***************************************************************************)
EXTENDS Naturals, Sequences, FiniteSets

CONSTANTS
  Dir,     \* directories of the host at which containers find their data
  Export,  \* directories exported by the NFS server
  Slot,    \* pulls that may be in progress at the same time
  DirOf,   \* DirOf[s]: the directory of the container that slot s pulls
  Faults   \* the commands that may fail in this instance

FaultKind == {"findmnt", "umount", "rm", "mkdir", "mount"}

ASSUME NfsAssumption ==
  /\ IsFiniteSet(Slot)
  /\ DirOf \in [Slot -> Dir]
  /\ Faults \subseteq FaultKind

VARIABLES
  mounted,  \* mounted[d]: the exports mounted at d, the last one first
  exists,   \* the directories that exist
  intact,   \* the exports whose files are all there
  pc,       \* pc[s]: the command that the pull in slot s is about to run
  export    \* export[s]: the NfsSource of that pull

vars == <<mounted, exists, intact, pc, export>>

Done  == {"idle", "ok", "failed"}
Stage == Done \cup {"findmnt", "umount", "stat", "rm", "mkdir", "mount"}

Goto(s, stage) == pc' = [pc EXCEPT ![s] = stage]
MayFail(kind)  == kind \in Faults

-----------------------------------------------------------------------------
\* A host on which some directories exist, some of them with an export mounted.
Init ==
  /\ exists \in SUBSET Dir
  /\ mounted \in [Dir -> {<<>>} \cup {<<e>> : e \in Export}]
  /\ \A d \in Dir \ exists : mounted[d] = <<>>
  /\ intact = Export
  /\ pc = [s \in Slot |-> "idle"]
  /\ export \in [Slot -> Export]

\* Createvolume is called with a response that names an NFS source.
CreateVolumeFromNFS(s) ==
  /\ pc[s] \in Done
  /\ \E e \in Export : export' = [export EXCEPT ![s] = e]
  /\ Goto(s, "findmnt")
  /\ UNCHANGED <<mounted, exists, intact>>

\* findmnt fails when nothing is mounted at the directory.  Any other failure
\* of findmnt is taken for that one.
GetMountSource(s) ==
  /\ pc[s] = "findmnt"
  /\ \/ mounted[DirOf[s]] # <<>> /\ Goto(s, "umount")
     \/ (mounted[DirOf[s]] = <<>> \/ MayFail("findmnt")) /\ Goto(s, "stat")
  /\ UNCHANGED <<mounted, exists, intact, export>>

\* Variant: a failure of umount is passed over.
UmountUnchecked(s) ==
  /\ pc[s] = "umount"
  /\ \/ /\ mounted[DirOf[s]] # <<>>
        /\ mounted' = [mounted EXCEPT ![DirOf[s]] = Tail(@)]
     \/ MayFail("umount") /\ UNCHANGED mounted
  /\ Goto(s, "stat")
  /\ UNCHANGED <<exists, intact, export>>

\* umount takes the last mount away.
Umount(s) ==
  /\ pc[s] = "umount"
  /\ \/ /\ mounted[DirOf[s]] # <<>>
        /\ mounted' = [mounted EXCEPT ![DirOf[s]] = Tail(@)]
        /\ Goto(s, "stat")
     \/ /\ mounted[DirOf[s]] = <<>> \/ MayFail("umount")
        /\ Goto(s, "failed")
        /\ UNCHANGED mounted
  /\ UNCHANGED <<exists, intact, export>>

\* Variant: a directory that exists is used as it is.
StatReuses(s) ==
  /\ pc[s] = "stat"
  /\ IF DirOf[s] \in exists THEN Goto(s, "mount") ELSE Goto(s, "mkdir")
  /\ UNCHANGED <<mounted, exists, intact, export>>

\* Whatever is at the path of the directory is to be removed first.
Stat(s) ==
  /\ pc[s] = "stat"
  /\ IF DirOf[s] \in exists THEN Goto(s, "rm") ELSE Goto(s, "mkdir")
  /\ UNCHANGED <<mounted, exists, intact, export>>

\* rm -rf empties what the directory shows and then removes the directory.  The
\* latter it cannot do while something is mounted there.
RemoveAll(s) ==
  /\ pc[s] = "rm"
  /\ \/ /\ mounted[DirOf[s]] = <<>>
        /\ exists' = exists \ {DirOf[s]}
        /\ Goto(s, "mkdir")
        /\ UNCHANGED intact
     \/ /\ mounted[DirOf[s]] # <<>>
        /\ intact' = intact \ {Head(mounted[DirOf[s]])}
        /\ Goto(s, "failed")
        /\ UNCHANGED exists
     \/ MayFail("rm") /\ Goto(s, "failed") /\ UNCHANGED <<exists, intact>>
  /\ UNCHANGED <<mounted, export>>

\* mkdir refuses a directory that exists.
Mkdir(s) ==
  /\ pc[s] = "mkdir"
  /\ \/ /\ DirOf[s] \notin exists
        /\ exists' = exists \cup {DirOf[s]}
        /\ Goto(s, "mount")
     \/ /\ DirOf[s] \in exists \/ MayFail("mkdir")
        /\ Goto(s, "failed")
        /\ UNCHANGED exists
  /\ UNCHANGED <<mounted, intact, export>>

\* Variants: the operands of mount swapped; its failure passed over.
MountSwapped(s) ==
  /\ pc[s] = "mount"
  /\ mounted' = [mounted EXCEPT ![DirOf[s]] = <<DirOf[s]>> \o @]
  /\ Goto(s, "ok")
  /\ UNCHANGED <<exists, intact, export>>

MountUnchecked(s) ==
  /\ pc[s] = "mount"
  /\ \/ mounted' = [mounted EXCEPT ![DirOf[s]] = <<export[s]>> \o @]
     \/ MayFail("mount") /\ UNCHANGED mounted
  /\ Goto(s, "ok")
  /\ UNCHANGED <<exists, intact, export>>

\* mount puts the export on top of whatever is mounted there.
Mount(s) ==
  /\ pc[s] = "mount"
  /\ \/ /\ DirOf[s] \in exists
        /\ mounted' = [mounted EXCEPT ![DirOf[s]] = <<export[s]>> \o @]
        /\ Goto(s, "ok")
     \/ /\ DirOf[s] \notin exists \/ MayFail("mount")
        /\ Goto(s, "failed")
        /\ UNCHANGED mounted
  /\ UNCHANGED <<exists, intact, export>>

Step(s) ==
  \/ CreateVolumeFromNFS(s)
  \/ GetMountSource(s)
  \/ Umount(s)
  \/ Stat(s)
  \/ RemoveAll(s)
  \/ Mkdir(s)
  \/ Mount(s)

Next == \E s \in Slot : Step(s)

Spec == Init /\ [][Next]_vars

-----------------------------------------------------------------------------
TypeOK ==
  /\ mounted \in [Dir -> Seq(Export)]
  /\ exists \subseteq Dir
  /\ intact \subseteq Export
  /\ pc \in [Slot -> Stage]
  /\ export \in [Slot -> Export]

(***************************************************************************)
(* utils/getResource.go:12, "we need to unmount it first to avoid          *)
(* affecting the source": a migration never deletes the files of an export *)
(* from the NFS server.                                                    *)
(***************************************************************************)
ExportIntact == intact = Export

(***************************************************************************)
(* The directory of a container that was pulled shows its own export, and  *)
(* nothing else is left mounted below it, until the next pull of that      *)
(* container starts.                                                       *)
(***************************************************************************)
ShowsExport == \A s \in Slot : pc[s] = "ok" => mounted[DirOf[s]] = <<export[s]>>

(***************************************************************************)
(* However pulls of the same container overlap, and whatever command       *)
(* fails, the mounts at its directory never outnumber the pulls in         *)
(* progress at a time: where an earlier mount was left, rm fails and the   *)
(* pull with it, so that pulling again and again does not pile them up.    *)
(***************************************************************************)
LayersBounded ==
  \A s \in Slot :
    Len(mounted[DirOf[s]]) <= Cardinality({u \in Slot : DirOf[u] = DirOf[s]})

\* What the first two properties hold under: no two pulls of containers with the
\* same directory at the same time, and a findmnt that tells what is mounted.
OnePullPerDir == \A s, u \in Slot : DirOf[s] = DirOf[u] => s = u
FindmntTells  == "findmnt" \notin Faults
=============================================================================
