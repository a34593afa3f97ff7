---------------------------- MODULE VolumeArchive ----------------------------
(***************************************************************************)
(* The transfer of a local volume: TransferVolume (cmd/ectrserver/main.go) *)
(* walks over the volume on the source and writes a tar archive, file by   *)
(* file and block by block, while the container goes on writing to the     *)
(* volume; createVolumeFromData (Migration/volume.go) unpacks it on the    *)
(* destination, over whatever is in the volume of that name there.  A pull *)
(* may fail anywhere and be made again.                                    *)
(*                                                                         *)
(* One volume and one pull of it at a time.  The content of a file is the  *)
(* sequence of its blocks, a block the version in which it was written.    *)
(***************************************************************************)
EXTENDS Naturals, Sequences

CONSTANTS
  Path,     \* the files of the volume, in the order of a walk
  Faults,   \* the operations that may fail in this instance
  Events,   \* what the container may do to its files in this instance
  MaxLen,   \* bound on the blocks of a file
  MaxVer    \* bound on the writes of the container

FaultKind == {"inspect", "read", "rpc", "create", "write"}
EventKind == {"overwrite", "append", "truncate", "remove"}
File == {Path[k] : k \in DOMAIN Path}

ASSUME ArchiveAssumption ==
  /\ Path \in Seq(File)
  /\ Faults \subseteq FaultKind
  /\ Events \subseteq EventKind
  /\ MaxLen \in Nat /\ MaxLen >= 2  \* the files that are there at first fit
  /\ MaxVer \in Nat

VARIABLES
  src,    \* the volume on the source: the content of each file it has
  dst,    \* the volume on the destination
  ver,    \* the version of the last write to the source's
  pc,     \* the step the pull is about to take, or how the last one ended
  todo,   \* the files it has still to archive, or to unpack
  size,   \* the size in the header of the file it archives
  part,   \* the blocks it has copied of the file it archives or unpacks
  arch,   \* the archive: the content of each file in it
  quiet,  \* whether the container has left its files alone since the request
  shrunk  \* whether a file shrank or went during a pull, or after one

pull == <<pc, todo, size, part, arch>>
past == <<quiet, shrunk>>
vars == <<src, dst, ver, pull, past>>

Done == {"idle", "ok", "failed"}

\* Of the files still to come, the one that comes first in a walk.
Current ==
  Path[CHOOSE k \in DOMAIN Path :
         Path[k] \in todo /\ \A j \in DOMAIN Path : Path[j] \in todo => k <= j]

NoFile == [p \in {} |-> <<>>]
\* The function f with the value v at x.
With(f, x, v) == [y \in DOMAIN f \cup {x} |-> IF y = x THEN v ELSE f[y]]

MayFail(kind) == kind \in Faults
Goto(stage)   == pc' = stage

\* The pull ends, and what it knew is gone; the archive is kept for the
\* properties to look at.
Answer(result) ==
  /\ pc' = result /\ todo' = {} /\ size' = 0 /\ part' = <<>>
  /\ arch' = IF result = "ok" THEN arch ELSE NoFile

-----------------------------------------------------------------------------
\* The container has written its files; the destination has no such volume.
Init ==
  /\ src \in UNION {[F -> {<<0>>, <<0, 0>>}] : F \in SUBSET File}
  /\ dst = NoFile
  /\ ver = 0
  /\ pc = "idle" /\ todo = {} /\ size = 0 /\ part = <<>> /\ arch = NoFile
  /\ quiet = TRUE /\ shrunk = FALSE

(***************************************************************************)
(* The container.                                                          *)
(***************************************************************************)
Reading(p) == pc = "copy" /\ Current = p

MayWrite(event) == event \in Events /\ ver < MaxVer

\* One write of the container.
Rewrite(now) == src' = now /\ ver' = ver + 1 /\ quiet' = FALSE /\ UNCHANGED <<dst, pull>>

Shrinks == shrunk' = (shrunk \/ dst # NoFile \/ pc \notin Done)

Overwrite(p) ==
  /\ MayWrite("overwrite") /\ p \in DOMAIN src
  /\ \E k \in DOMAIN src[p] : Rewrite([src EXCEPT ![p][k] = ver + 1])
  /\ UNCHANGED shrunk

\* A block is added to a file, or to a new one.
AppendTo(p) ==
  /\ MayWrite("append")
  /\ LET content == IF p \in DOMAIN src THEN src[p] ELSE <<>>
     IN Len(content) < MaxLen /\ Rewrite(With(src, p, Append(content, ver + 1)))
  /\ UNCHANGED shrunk

Truncate(p) ==
  /\ MayWrite("truncate") /\ p \in DOMAIN src /\ src[p] # <<>>
  /\ Rewrite([src EXCEPT ![p] = SubSeq(@, 1, Len(@) - 1)])
  /\ Shrinks

\* A file that is removed while it is read stays readable, as if it were removed
\* only afterwards.
Remove(p) ==
  /\ MayWrite("remove") /\ p \in DOMAIN src /\ ~Reading(p)
  /\ Rewrite([q \in DOMAIN src \ {p} |-> src[q]])
  /\ Shrinks

(***************************************************************************)
(* TransferVolume, on the source.                                          *)
(***************************************************************************)

\* The volume is found, and its directory read.
TransferVolume ==
  /\ pc \in Done
  /\ \/ /\ todo' = DOMAIN src
        /\ Goto("walk") /\ size' = 0 /\ part' = <<>> /\ arch' = NoFile
     \/ MayFail("inspect") /\ Answer("failed")
  /\ quiet' = TRUE
  /\ UNCHANGED <<src, dst, ver, shrunk>>

\* The walk comes to the next file: its header has the size that it has now.
WriteHeader ==
  /\ pc = "walk" /\ todo # {}
  /\ IF Current \in DOMAIN src
       THEN /\ Goto("copy") /\ size' = Len(src[Current]) /\ part' = <<>>
            /\ UNCHANGED <<todo, arch>>
       ELSE Answer("failed")
  /\ UNCHANGED <<src, dst, ver, past>>

\* The end of the file.  The tar writer wants all the bytes of the header.
FileEnd ==
  IF Len(part) = size
    THEN /\ arch' = With(arch, Current, part)
         /\ todo' = todo \ {Current} /\ Goto("walk") /\ UNCHANGED <<size, part>>
    ELSE Answer("failed")

\* The next block is read; the tar writer takes no more than the header says.
CopyFile ==
  /\ pc = "copy"
  /\ LET content == src[Current]
     IN \/ /\ Len(part) < Len(content)
           /\ IF Len(part) < size
                THEN part' = Append(part, content[Len(part) + 1]) /\ UNCHANGED <<pc, todo, size, arch>>
                ELSE Answer("failed")
        \/ Len(part) >= Len(content) /\ FileEnd
        \/ MayFail("read") /\ Answer("failed")
  /\ UNCHANGED <<src, dst, ver, past>>

\* The archive is closed and sent.
VolumeResponse ==
  /\ pc = "walk" /\ todo = {}
  /\ \/ Goto("create") /\ UNCHANGED <<todo, size, part, arch>>
     \/ MayFail("rpc") /\ Answer("failed")
  /\ UNCHANGED <<src, dst, ver, past>>

(***************************************************************************)
(* createVolumeFromData, on the destination.                               *)
(***************************************************************************)

\* Variant: a volume that is there already is used as it is.
UnpackNew == IF dst = NoFile THEN DOMAIN arch ELSE {}

Unpack == DOMAIN arch

\* VolumeCreate leaves a volume of that name alone if there is one.
VolumeCreate ==
  /\ pc = "create"
  /\ \/ Goto("open") /\ todo' = Unpack /\ UNCHANGED <<size, part, arch>>
     \/ MayFail("create") /\ Answer("failed")
  /\ UNCHANGED <<src, dst, ver, past>>

\* Variant: O_APPEND.
StartAtEnd(p) == IF p \in DOMAIN dst THEN Len(dst[p]) ELSE 0

\* Where the first block goes in a file that is opened, without O_TRUNC.
Offset(p) == 0

\* Variant: O_TRUNC.
OpenedEmpty(p) == <<>>

\* What is in a file once it is opened, or made if need be.
Opened(p) == IF p \in DOMAIN dst THEN dst[p] ELSE <<>>

\* The next file of the archive.
OpenFile ==
  /\ pc = "open"
  /\ \/ todo = {} /\ Answer("ok") /\ UNCHANGED dst
     \/ /\ todo # {}
        /\ dst' = With(dst, Current, Opened(Current))
        /\ Goto("write") /\ part' = <<>> /\ size' = Offset(Current)
        /\ UNCHANGED <<todo, arch>>
     \/ todo # {} /\ MayFail("write") /\ Answer("failed") /\ UNCHANGED dst
  /\ UNCHANGED <<src, ver, past>>

\* A file's content with a block put at k, over the one there or at the end.
Put(content, k, block) ==
  IF k \in DOMAIN content THEN [content EXCEPT ![k] = block] ELSE Append(content, block)

\* The next block of the file, and the next file once all of them are written.
WriteFile ==
  /\ pc = "write"
  /\ LET p == Current
         k == Len(part) + 1
     IN \/ /\ k <= Len(arch[p])
           /\ dst' = [dst EXCEPT ![p] = Put(@, size + k, arch[p][k])]
           /\ part' = Append(part, arch[p][k]) /\ UNCHANGED <<pc, todo, size, arch>>
        \/ /\ k > Len(arch[p])
           /\ todo' = todo \ {Current} /\ Goto("open") /\ UNCHANGED <<dst, size, part, arch>>
        \/ MayFail("write") /\ Answer("failed") /\ UNCHANGED dst
  /\ UNCHANGED <<src, ver, past>>

Write(p) == Overwrite(p) \/ AppendTo(p) \/ Truncate(p) \/ Remove(p)

Pull ==
  \/ TransferVolume \/ WriteHeader \/ CopyFile \/ VolumeResponse
  \/ VolumeCreate \/ OpenFile \/ WriteFile

Next == Pull \/ \E p \in File : Write(p)

Spec == Init /\ [][Next]_vars

-----------------------------------------------------------------------------
Version == 0..MaxVer
IsVolume(f) ==
  DOMAIN f \subseteq File /\ f \in [DOMAIN f -> Seq(Version)]

TypeOK ==
  /\ IsVolume(src) /\ IsVolume(dst) /\ IsVolume(arch)
  /\ \A p \in DOMAIN src : Len(src[p]) <= MaxLen
  /\ ver \in Version
  /\ pc \in Done \cup {"walk", "copy", "create", "open", "write"}
  /\ todo \subseteq File /\ part \in Seq(Version)
  /\ size \in 0..MaxLen
  /\ quiet \in BOOLEAN /\ shrunk \in BOOLEAN
  /\ pc = "copy" => todo # {} /\ Current \in DOMAIN src /\ Len(part) <= size
  /\ pc = "write" => todo # {} /\ Current \in DOMAIN dst
  /\ pc \in {"open", "write"} => todo \subseteq DOMAIN arch

Begins(content, by) == Len(by) <= Len(content) /\ SubSeq(content, 1, Len(by)) = by

(***************************************************************************)
(* After a pull that succeeds every file of the archive is on the          *)
(* destination, whatever pulls before it broke off in the middle of a file *)
(* and whatever the container wrote meanwhile.  Nothing is left behind it  *)
(* in the file either, unless the container makes files shorter once     *)
(* a pull has begun: they are opened without O_TRUNC.                      *)
(***************************************************************************)
VolumeIsArchive ==
  pc = "ok" => \A p \in DOMAIN arch : /\ p \in DOMAIN dst
                                      /\ Begins(dst[p], arch[p])
                                      /\ ~shrunk => dst[p] = arch[p]

(***************************************************************************)
(* A pull during which the container left its files alone brings the       *)
(* volume of the destination up to date, however much the source's has     *)
(* changed since earlier pulls: no retry is satisfied with what one before *)
(* it left.  (A file that is gone from the source stays.)                  *)
(***************************************************************************)
Converges ==
  pc = "ok" /\ quiet => /\ \A p \in DOMAIN src : p \in DOMAIN dst /\ Begins(dst[p], src[p])
                        /\ ~shrunk => dst = src

(***************************************************************************)
(* What the pulls have put on the destination is never undone: of no block *)
(* there does an older version come back, nor does one go, whether or not  *)
(* a later pull succeeds.                                                  *)
(***************************************************************************)
NeverOlder ==
  [][\A p \in DOMAIN dst :
       /\ p \in DOMAIN dst' /\ Len(dst'[p]) >= Len(dst[p])
       /\ ~shrunk' => \A k \in DOMAIN dst[p] : dst'[p][k] >= dst[p][k]]_vars
=============================================================================
