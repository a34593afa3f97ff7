------------------------ MODULE VolumeArchiveProofs -------------------------
(***************************************************************************)
(* What the transfer of a volume guarantees, for any files, any number of  *)
(* pulls and of writes, and whatever fails: a pull that succeeds has put   *)
(* its archive on the destination (ArchiveArrives), the volume as it is if *)
(* the container was quiet (PullsConverge), and no pull undoes an earlier  *)
(* one (NothingUndone).                                                    *)
(*                                                                         *)
(* After the operators, the types and what each step does come the four    *)
(* parts of the inductive invariant IInv: what is unpacked is there, no    *)
(* file becomes shorter, what a quiet container's archive holds, and which *)
(* blocks are older than which.                                            *)
(***************************************************************************)
EXTENDS VolumeArchive, SequenceTheorems, WellFoundedInduction, TLAPS

-----------------------------------------------------------------------------
(* The operators. *)

LEMMA Least ==
  ASSUME NEW S \in SUBSET Nat, S # {}
  PROVE  \E k \in S : \A j \in S : k <= j
<1>1. PICK k \in S : \A j \in S : ~(<<j, k>> \in OpToRel(<, Nat))
  BY NatLessThanWellFounded, WFMin
<1>2. ASSUME NEW j \in S PROVE k <= j
  <2>1. ~(j < k)
    BY <1>1 DEF OpToRel
  <2> QED
    BY <2>1
<1> QED
  BY <1>2

LEMMA CurrentToDo ==
  ASSUME todo \subseteq File, todo # {}
  PROVE  Current \in todo
<1> DEFINE S == {k \in DOMAIN Path : Path[k] \in todo}
<1>1. DOMAIN Path \subseteq Nat
  BY ArchiveAssumption
<1>2. S # {}
  BY DEF File
<1>3. \E k \in S : \A j \in S : k <= j
  BY <1>1, <1>2, Least
<1>4. \E k \in DOMAIN Path : Path[k] \in todo /\ \A j \in DOMAIN Path : Path[j] \in todo => k <= j
  BY <1>3
<1> QED
  BY <1>4 DEF Current

LEMMA WithType ==
  ASSUME NEW f, IsVolume(f), NEW p \in File, NEW v \in Seq(Version)
  PROVE  /\ IsVolume(With(f, p, v)) /\ DOMAIN With(f, p, v) = DOMAIN f \cup {p}
         /\ With(f, p, v)[p] = v
         /\ \A q \in DOMAIN f \ {p} : With(f, p, v)[q] = f[q]
  BY DEF With, IsVolume

LEMMA NoFileType == IsVolume(NoFile) /\ DOMAIN NoFile = {}
  BY DEF IsVolume, NoFile

\* Two volumes with the same files.
LEMMA SameVolume ==
  ASSUME NEW f, NEW g, IsVolume(f), IsVolume(g), DOMAIN f = DOMAIN g,
         \A p \in DOMAIN f : f[p] = g[p]
  PROVE  f = g
  BY DEF IsVolume

LEMMA PutType ==
  ASSUME NEW content \in Seq(Version), NEW k \in Nat \ {0}, NEW block \in Version
  PROVE  /\ Put(content, k, block) \in Seq(Version)
         /\ Len(Put(content, k, block)) = IF k <= Len(content) THEN Len(content) ELSE Len(content) + 1
         /\ k <= Len(content) => Put(content, k, block)[k] = block
         /\ k = Len(content) + 1 => Put(content, k, block)[k] = block
         /\ \A j \in 1..Len(content) : j # k => Put(content, k, block)[j] = content[j]
<1>1. CASE k <= Len(content)
  <2>1. Put(content, k, block) = [content EXCEPT ![k] = block]
    BY <1>1 DEF Put
  <2> QED
    BY <1>1, <2>1
<1>2. CASE ~(k <= Len(content))
  <2>1. Put(content, k, block) = Append(content, block)
    BY <1>2 DEF Put
  <2> QED
    BY <1>2, <2>1
<1> QED
  BY <1>1, <1>2

-----------------------------------------------------------------------------
(* The types. *)

LEMMA InitType == Init => TypeOK
<1> SUFFICES ASSUME Init PROVE TypeOK
  OBVIOUS
<1>1. IsVolume(src) /\ \A p \in DOMAIN src : Len(src[p]) <= MaxLen
  <2> DEFINE one == <<0>>
             two == <<0, 0>>
  <2>1. PICK F \in SUBSET File : src \in [F -> {one, two}]
    BY DEF Init
  <2>2. /\ one \in Seq(Version) /\ Len(one) = 1
        /\ two \in Seq(Version) /\ Len(two) = 2
    BY ArchiveAssumption DEF Version
  <2> HIDE DEF one, two
  <2>3. /\ DOMAIN src = F /\ \A p \in F : src[p] = one \/ src[p] = two
        /\ src = [p \in F |-> src[p]]
    BY <2>1
  <2>4. \A p \in F : src[p] \in Seq(Version)
    BY <2>2, <2>3
  <2>5. src \in [F -> Seq(Version)]
    BY <2>3, <2>4
  <2>6. Len(one) <= MaxLen /\ Len(two) <= MaxLen
    BY <2>2, ArchiveAssumption
  <2>7. \A p \in F : Len(src[p]) <= MaxLen
    BY <2>3, <2>6, Zenon
  <2> QED
    BY <2>3, <2>5, <2>7, Zenon DEF IsVolume
<1>2. 0 \in Version /\ 0 \in 0..MaxLen
  BY ArchiveAssumption DEF Version
<1>3. IsVolume(dst) /\ IsVolume(arch)
  BY NoFileType DEF Init
<1>4. {} \subseteq File /\ <<>> \in Seq(Version)
  OBVIOUS
<1> QED
  BY <1>1, <1>2, <1>3, <1>4 DEF Init, TypeOK, Done

\* What the end of a pull leaves.
LEMMA AnswerType ==
  ASSUME TypeOK, NEW result \in Done, Answer(result), UNCHANGED <<src, dst, ver, shrunk>>, quiet' \in BOOLEAN
  PROVE  TypeOK'
<1>1. IsVolume(arch')
  BY NoFileType DEF Answer, TypeOK
<1>2. 0 \in 0..MaxLen /\ {} \subseteq File /\ <<>> \in Seq(Version)
  BY ArchiveAssumption
<1> QED
  BY <1>1, <1>2 DEF Answer, TypeOK, Done

\* A write of the container that leaves the file being read.
LEMMA RewriteType ==
  ASSUME TypeOK, NEW now, Rewrite(now), IsVolume(now), ver < MaxVer, shrunk' \in BOOLEAN,
         \A p \in DOMAIN now : Len(now[p]) <= MaxLen,
         pc = "copy" => Current \in DOMAIN now
  PROVE  TypeOK'
<1>1. ver' \in Version
  BY ArchiveAssumption DEF Rewrite, TypeOK, Version
<1>2. UNCHANGED <<dst, pc, todo, size, part, arch>> /\ src' = now /\ quiet' = FALSE
  BY DEF Rewrite, pull
<1>3. Current' = Current
  BY <1>2 DEF Current
<1> QED
  BY <1>1, <1>2, <1>3 DEF TypeOK

LEMMA WriteType ==
  ASSUME TypeOK, NEW p \in File, Write(p)
  PROVE  TypeOK'
<1>0. /\ ver \in Nat /\ MaxVer \in Nat /\ MaxLen \in Nat
      /\ Version = 0..MaxVer
  BY ArchiveAssumption DEF TypeOK, Version
<1>1. CASE Overwrite(p)
  <2>1. PICK k \in DOMAIN src[p] : Rewrite([src EXCEPT ![p][k] = ver + 1])
    BY <1>1 DEF Overwrite
  <2> DEFINE content == [src[p] EXCEPT ![k] = ver + 1]
             now     == [src EXCEPT ![p] = content]
  <2>2. p \in DOMAIN src /\ ver < MaxVer /\ src[p] \in Seq(Version) /\ Len(src[p]) <= MaxLen
    BY <1>1 DEF Overwrite, MayWrite, TypeOK, IsVolume
  <2>3. content \in Seq(Version) /\ Len(content) = Len(src[p])
    BY <1>0, <2>2
  <2> HIDE DEF content
  <2>4. IsVolume(now) /\ DOMAIN now = DOMAIN src /\ \A q \in DOMAIN now : Len(now[q]) <= MaxLen
    BY <2>2, <2>3 DEF TypeOK, IsVolume
  <2>5. Rewrite(now)
    BY <2>1 DEF content
  <2> QED
    BY <1>1, <2>2, <2>4, <2>5, RewriteType DEF Overwrite, TypeOK
<1>2. CASE AppendTo(p)
  <2> DEFINE content == IF p \in DOMAIN src THEN src[p] ELSE <<>>
             longer  == Append(content, ver + 1)
             now     == With(src, p, longer)
  <2>1. Len(content) < MaxLen /\ Rewrite(now) /\ UNCHANGED shrunk /\ ver < MaxVer
    BY <1>2 DEF AppendTo, MayWrite
  <2>2. content \in Seq(Version)
    BY DEF TypeOK, IsVolume
  <2>3. longer \in Seq(Version) /\ Len(longer) <= MaxLen
    <3> HIDE DEF content
    <3> QED
      BY <1>0, <2>1, <2>2
  <2> HIDE DEF longer, content
  <2>5. /\ IsVolume(now) /\ DOMAIN now = DOMAIN src \cup {p} /\ now[p] = longer
        /\ \A q \in DOMAIN src \ {p} : now[q] = src[q]
    <3>1. IsVolume(src) /\ p \in File /\ longer \in Seq(Version)
      BY <2>3 DEF TypeOK
    <3>2. \A q : q \in DOMAIN src => src[q] \in Seq(Version)
      BY <3>1 DEF IsVolume
    <3>3. /\ DOMAIN now = DOMAIN src \cup {p} /\ now[p] = longer
          /\ \A q \in DOMAIN src \ {p} : now[q] = src[q]
      BY DEF With
    <3>4. now \in [DOMAIN now -> Seq(Version)]
      BY <3>1, <3>2 DEF With
    <3> QED
      BY <3>1, <3>3, <3>4 DEF IsVolume
  <2> HIDE DEF now
  <2>4. \A q \in DOMAIN now : Len(now[q]) <= MaxLen
    BY <2>3, <2>5 DEF TypeOK
  <2> QED
    BY <2>1, <2>4, <2>5, RewriteType DEF TypeOK
<1>3. CASE Truncate(p)
  <2> DEFINE shorter == SubSeq(src[p], 1, Len(src[p]) - 1)
             now     == [src EXCEPT ![p] = shorter]
  <2>1. p \in DOMAIN src /\ src[p] # <<>> /\ ver < MaxVer /\ Rewrite(now) /\ Shrinks
    BY <1>3 DEF Truncate, MayWrite
  <2>2. src[p] \in Seq(Version) /\ Len(src[p]) <= MaxLen
    BY <2>1 DEF TypeOK, IsVolume
  <2>3. shorter \in Seq(Version) /\ Len(shorter) <= MaxLen
    BY <1>0, <2>1, <2>2
  <2> HIDE DEF shorter
  <2>4. IsVolume(now) /\ DOMAIN now = DOMAIN src /\ \A q \in DOMAIN now : Len(now[q]) <= MaxLen
    BY <2>1, <2>3 DEF TypeOK, IsVolume
  <2> HIDE DEF now
  <2> QED
    BY <2>1, <2>4, RewriteType DEF TypeOK, Shrinks
<1>4. CASE Remove(p)
  <2> DEFINE now == [q \in DOMAIN src \ {p} |-> src[q]]
  <2>1. ver < MaxVer /\ ~Reading(p) /\ Rewrite(now) /\ Shrinks
    BY <1>4 DEF Remove, MayWrite
  <2>2. IsVolume(now) /\ DOMAIN now = DOMAIN src \ {p} /\ \A q \in DOMAIN now : Len(now[q]) <= MaxLen
    BY DEF TypeOK, IsVolume
  <2> HIDE DEF now
  <2> QED
    BY <2>1, <2>2, RewriteType DEF TypeOK, Shrinks, Reading
<1> QED
  BY <1>1, <1>2, <1>3, <1>4 DEF Write

LEMMA TransferVolumeType ==
  ASSUME TypeOK, TransferVolume
  PROVE  TypeOK'
<1>1. CASE Answer("failed")
  BY <1>1, AnswerType DEF TransferVolume, Done
<1>2. CASE ~Answer("failed")
  <2>1. 0 \in 0..MaxLen /\ <<>> \in Seq(Version)
    BY ArchiveAssumption
  <2> QED
    BY <1>2, <2>1, NoFileType DEF TransferVolume, Goto, TypeOK, Done, IsVolume
<1> QED
  BY <1>1, <1>2

LEMMA WriteHeaderType ==
  ASSUME TypeOK, WriteHeader
  PROVE  TypeOK'
<1>1. CASE Answer("failed")
  BY <1>1, AnswerType DEF WriteHeader, past, Done, TypeOK
<1>2. CASE ~Answer("failed")
  <2>1. /\ Current \in DOMAIN src /\ todo # {} /\ pc' = "copy" /\ size' = Len(src[Current]) /\ part' = <<>>
        /\ UNCHANGED <<todo, arch, src, dst, ver, quiet, shrunk>>
    BY <1>2 DEF WriteHeader, Goto, past
  <2>2. Len(src[Current]) \in 0..MaxLen /\ 0 <= Len(src[Current])
    BY <2>1, ArchiveAssumption DEF TypeOK, IsVolume
  <2>3. Current' = Current
    BY <2>1 DEF Current
  <2>4. <<>> \in Seq(Version) /\ Len(<<>>) = 0
    OBVIOUS
  <2> QED
    BY <2>1, <2>2, <2>3, <2>4 DEF TypeOK
<1> QED
  BY <1>1, <1>2

LEMMA CopyFileType ==
  ASSUME TypeOK, CopyFile
  PROVE  TypeOK'
<1> DEFINE content == src[Current]
<1>1. /\ pc = "copy" /\ todo # {} /\ Current \in DOMAIN src /\ Len(part) <= size
      /\ UNCHANGED <<src, dst, ver, quiet, shrunk>>
  BY DEF CopyFile, TypeOK, past
<1>2. content \in Seq(Version) /\ part \in Seq(Version) /\ size \in Nat /\ Current \in File
  BY <1>1, ArchiveAssumption, CurrentToDo DEF TypeOK, IsVolume
<1>3. \/ /\ Len(part) < Len(content) /\ Len(part) < size
         /\ part' = Append(part, content[Len(part) + 1]) /\ UNCHANGED <<pc, todo, size, arch>>
      \/ FileEnd
      \/ Answer("failed")
  BY DEF CopyFile
<1> HIDE DEF content
<1>4. CASE /\ Len(part) < Len(content) /\ Len(part) < size
           /\ part' = Append(part, content[Len(part) + 1]) /\ UNCHANGED <<pc, todo, size, arch>>
  <2>1. part' \in Seq(Version) /\ Len(part') <= size
    BY <1>2, <1>4
  <2>2. Current' = Current
    BY <1>4 DEF Current
  <2> QED
    BY <1>1, <1>4, <2>1, <2>2 DEF TypeOK
<1>5. CASE Answer("failed")
  BY <1>1, <1>5, AnswerType DEF Done, TypeOK
<1>6. CASE FileEnd /\ ~Answer("failed")
  <2>1. /\ arch' = With(arch, Current, part) /\ todo' = todo \ {Current}
        /\ pc' = "walk" /\ UNCHANGED <<size, part>>
    BY <1>6 DEF FileEnd, Goto
  <2>2. IsVolume(arch')
    BY <1>2, <2>1, WithType DEF TypeOK
  <2> QED
    BY <1>1, <2>1, <2>2 DEF TypeOK
<1> QED
  BY <1>3, <1>4, <1>5, <1>6

LEMMA VolumeType ==
  ASSUME TypeOK, VolumeResponse \/ VolumeCreate
  PROVE  TypeOK'
<1>1. CASE Answer("failed")
  BY <1>1, AnswerType DEF VolumeResponse, VolumeCreate, past, Done, TypeOK
<1>2. CASE ~Answer("failed")
  <2>1. /\ (pc' = "create" /\ todo' = todo) \/ (pc' = "open" /\ todo' = DOMAIN arch)
        /\ UNCHANGED <<size, part, arch, src, dst, ver, quiet, shrunk>>
    BY <1>2 DEF VolumeResponse, VolumeCreate, Unpack, Goto, past
  <2>2. DOMAIN arch \subseteq File
    BY DEF TypeOK, IsVolume
  <2>3. CASE pc' = "create" /\ todo' = todo
    BY <2>1, <2>3 DEF TypeOK
  <2>4. CASE pc' = "open" /\ todo' = DOMAIN arch
    BY <2>1, <2>2, <2>4 DEF TypeOK
  <2> QED
    BY <2>1, <2>3, <2>4
<1> QED
  BY <1>1, <1>2

LEMMA OpenFileType ==
  ASSUME TypeOK, OpenFile
  PROVE  TypeOK'
<1>1. UNCHANGED <<src, ver, quiet, shrunk>> /\ pc = "open" /\ todo \subseteq DOMAIN arch
  BY DEF OpenFile, past, TypeOK
<1>2. CASE Answer("failed") \/ (Answer("ok") /\ UNCHANGED dst)
  BY <1>1, <1>2, AnswerType DEF OpenFile, Done, TypeOK, Answer
<1>3. CASE /\ todo # {}
           /\ dst' = With(dst, Current, Opened(Current))
           /\ Goto("write") /\ part' = <<>> /\ size' = Offset(Current)
           /\ UNCHANGED <<todo, arch>>
  <2>1. Current \in File
    BY <1>3, CurrentToDo DEF TypeOK
  <2>2. Opened(Current) \in Seq(Version)
    BY DEF Opened, TypeOK, IsVolume
  <2>3. IsVolume(dst') /\ Current \in DOMAIN dst'
    <3>1. IsVolume(dst)
      BY DEF TypeOK
    <3>2. /\ IsVolume(With(dst, Current, Opened(Current)))
          /\ DOMAIN With(dst, Current, Opened(Current)) = DOMAIN dst \cup {Current}
      BY <2>1, <2>2, <3>1, WithType, Zenon
    <3> QED
      BY <1>3, <3>2
  <2>4. Current' = Current
    BY <1>3 DEF Current
  <2>5. <<>> \in Seq(Version) /\ 0 \in 0..MaxLen
    BY ArchiveAssumption
  <2> QED
    BY <1>1, <1>3, <2>3, <2>4, <2>5 DEF TypeOK, Goto, Offset
<1> QED
  BY <1>2, <1>3 DEF OpenFile

LEMMA WriteFileType ==
  ASSUME TypeOK, WriteFile
  PROVE  TypeOK'
<1>1. /\ UNCHANGED <<src, ver, quiet, shrunk>> /\ pc = "write" /\ todo \subseteq DOMAIN arch
      /\ todo # {} /\ Current \in DOMAIN dst /\ Current \in todo
  BY CurrentToDo DEF WriteFile, past, TypeOK
<1> DEFINE p == Current
           k == Len(part) + 1
<1>2. /\ dst[p] \in Seq(Version) /\ arch[p] \in Seq(Version) /\ part \in Seq(Version)
      /\ k \in Nat \ {0} /\ size \in Nat
  BY <1>1, ArchiveAssumption DEF TypeOK, IsVolume
<1>3. CASE /\ k <= Len(arch[p])
           /\ dst' = [dst EXCEPT ![p] = Put(@, size + k, arch[p][k])]
           /\ part' = Append(part, arch[p][k]) /\ UNCHANGED <<pc, todo, size, arch>>
  <2> HIDE DEF p
  <2>1. arch[p][k] \in Version /\ part' \in Seq(Version) /\ size + k \in Nat \ {0}
    BY <1>2, <1>3
  <2> HIDE DEF k
  <2>2. Put(dst[p], size + k, arch[p][k]) \in Seq(Version)
    BY <1>2, <2>1, PutType
  <2>3. dst' = [dst EXCEPT ![p] = Put(dst[p], size + k, arch[p][k])]
    BY <1>3
  <2>4. IsVolume(dst') /\ DOMAIN dst' = DOMAIN dst
    BY <2>2, <2>3 DEF TypeOK, IsVolume
  <2>5. Current' = Current
    BY <1>3 DEF Current
  <2> QED
    BY <1>1, <1>3, <2>1, <2>4, <2>5 DEF TypeOK
<1>4. CASE todo' = todo \ {Current} /\ Goto("open") /\ UNCHANGED <<dst, size, part, arch>>
  BY <1>1, <1>4 DEF TypeOK, Goto
<1>5. CASE Answer("failed") /\ UNCHANGED dst
  BY <1>1, <1>5, AnswerType DEF Done, TypeOK
<1> QED
  BY <1>3, <1>4, <1>5 DEF WriteFile

LEMMA NextType ==
  ASSUME TypeOK, [Next]_vars
  PROVE  TypeOK'
<1>1. CASE UNCHANGED vars
  <2>1. Current' = Current
    BY <1>1 DEF Current, vars, pull
  <2> QED
    BY <1>1, <2>1 DEF TypeOK, vars, pull, past
<1>2. CASE Pull
  BY <1>2, TransferVolumeType, WriteHeaderType, CopyFileType, VolumeType, OpenFileType, WriteFileType DEF Pull
<1>3. CASE \E p \in File : Write(p)
  BY <1>3, WriteType
<1> QED
  BY <1>1, <1>2, <1>3 DEF Next

\* Every reachable state has the types: a file that is read is there, no more of it is
\* read than its header says, and what is unpacked is in the archive.
THEOREM TypeCorrect == Spec => []TypeOK
  BY InitType, NextType, PTL DEF Spec

-----------------------------------------------------------------------------
(* What the invariants rest on. *)

\* Begins, block by block.
Starts(content, by) == Len(by) <= Len(content) /\ \A k \in 1..Len(by) : content[k] = by[k]

\* What has been unpacked is on the destination.
UnpackInv ==
  /\ pc \in {"idle", "failed"} => DOMAIN arch = {}
  /\ pc \in {"open", "write", "ok"} =>
       \A p \in DOMAIN arch \ todo : p \in DOMAIN dst /\ Starts(dst[p], arch[p])
  /\ pc = "ok" => todo = {}
  /\ pc = "write" => size = 0 /\ Starts(arch[Current], part) /\ Starts(dst[Current], part)

\* f has no files but those of g, and none is longer.
Within(f, g) == \A p \in DOMAIN f : p \in DOMAIN g /\ Len(f[p]) <= Len(g[p])

\* As long as no file has become shorter.
LengthInv ==
  ~shrunk =>
    /\ Within(dst, src) /\ Within(arch, src)
    /\ \A p \in DOMAIN dst \cap DOMAIN arch : Len(dst[p]) <= Len(arch[p])
    /\ pc = "copy" => /\ size <= Len(src[Current])
                      /\ Current \in DOMAIN dst => Len(dst[Current]) <= size

\* As long as the container has left its files alone.
QuietInv ==
  quiet =>
    /\ pc \in {"walk", "copy"} => todo \subseteq DOMAIN src /\ DOMAIN arch = DOMAIN src \ todo
    /\ pc \in {"create", "open", "write", "ok"} => DOMAIN arch = DOMAIN src
    /\ \A p \in DOMAIN arch : arch[p] = src[p]
    /\ pc = "copy" => size = Len(src[Current]) /\ Starts(src[Current], part)

\* Where both have a block, g's is not older.
NotNewer(f, g) == \A k \in DOMAIN f \cap DOMAIN g : f[k] <= g[k]

OrderInv ==
  /\ \A p \in DOMAIN src : \A k \in DOMAIN src[p] : src[p][k] <= ver
  /\ ~shrunk =>
       /\ \A p \in DOMAIN dst  : NotNewer(dst[p], src[p])
       /\ \A p \in DOMAIN arch : NotNewer(arch[p], src[p])
       /\ \A p \in DOMAIN dst \cap DOMAIN arch : NotNewer(dst[p], arch[p])
       /\ pc = "copy" => /\ NotNewer(part, src[Current])
                         /\ Current \in DOMAIN dst => NotNewer(dst[Current], part)

LEMMA BeginsStarts ==
  ASSUME NEW content \in Seq(Version), NEW by \in Seq(Version)
  PROVE  Begins(content, by) <=> Starts(content, by)
<1> DEFINE n == Len(by)
           c == SubSeq(content, 1, n)
<1>1. ASSUME n <= Len(content)
      PROVE  c \in Seq(Version) /\ Len(c) = n /\ \A k \in 1..n : c[k] = content[k]
  <2>1. n \in Nat /\ \A k \in 1..n : content[k] \in Version
    BY <1>1
  <2> QED
    BY <1>1, <2>1, SubSeqProperties
<1>2. ASSUME n <= Len(content) PROVE c = by <=> \A k \in 1..n : content[k] = by[k]
  BY <1>1, <1>2, SeqEqual
<1> QED
  BY <1>2 DEF Begins, Starts

\* The blocks of every file have numbers.
LEMMA Blocks ==
  ASSUME NEW f, IsVolume(f), NEW p \in DOMAIN f
  PROVE  /\ p \in File /\ f[p] \in Seq(Version) /\ Len(f[p]) \in Nat
         /\ DOMAIN f[p] = 1..Len(f[p])
         /\ \A k \in DOMAIN f[p] : f[p][k] \in Nat /\ f[p][k] \in Version
<1>1. p \in File /\ f[p] \in Seq(Version)
  BY DEF IsVolume
<1> DEFINE s == f[p]
<1> HIDE DEF s
<1>2. s \in Seq(Version) => /\ Len(s) \in Nat /\ DOMAIN s = 1..Len(s)
                            /\ \A k \in DOMAIN s : s[k] \in Version
  OBVIOUS
<1>3. \A v \in Version : v \in Nat
  BY ArchiveAssumption DEF Version
<1> QED
  BY <1>1, <1>2, <1>3 DEF s

LEMMA WriteEffect ==
  ASSUME TypeOK, NEW p \in File, Write(p)
  PROVE  /\ UNCHANGED <<dst, pc, todo, size, part, arch>> /\ Current' = Current
         /\ quiet' = FALSE /\ ver' = ver + 1
         /\ \A q \in DOMAIN src' : \A k \in DOMAIN src'[q] :
              \/ src'[q][k] = ver + 1
              \/ q \in DOMAIN src /\ k \in DOMAIN src[q] /\ src'[q][k] = src[q][k]
         /\ shrunk => shrunk'
         /\ shrunk' \/ (dst = NoFile /\ pc \in Done) \/ (UNCHANGED shrunk /\ Within(src, src'))
<1>0. IsVolume(src) /\ shrunk \in BOOLEAN
  BY DEF TypeOK
<1>1. \E now : Rewrite(now)
  BY DEF Write, Overwrite, AppendTo, Truncate, Remove
<1>2. /\ UNCHANGED <<dst, pc, todo, size, part, arch>> /\ Current' = Current
      /\ quiet' = FALSE /\ ver' = ver + 1
  BY <1>1 DEF Rewrite, pull, Current
<1>3. CASE Overwrite(p)
  <2>1. PICK k \in DOMAIN src[p] : src' = [src EXCEPT ![p][k] = ver + 1]
    BY <1>3 DEF Overwrite, Rewrite
  <2> DEFINE content == [src[p] EXCEPT ![k] = ver + 1]
  <2>2. p \in DOMAIN src /\ src[p] \in Seq(Version) /\ UNCHANGED shrunk
    BY <1>0, <1>3, Blocks DEF Overwrite
  <2>3. /\ DOMAIN content = DOMAIN src[p] /\ Len(content) = Len(src[p]) /\ Len(src[p]) \in Nat
        /\ \A j \in DOMAIN content : content[j] = ver + 1 \/ content[j] = src[p][j]
    BY <2>2
  <2> HIDE DEF content
  <2>4. src' = [src EXCEPT ![p] = content]
    BY <2>1 DEF content
  <2>5. DOMAIN src' = DOMAIN src /\ src'[p] = content /\ \A q \in DOMAIN src \ {p} : src'[q] = src[q]
    BY <2>2, <2>4
  <2>6. \A q \in DOMAIN src : Len(src[q]) \in Nat
    BY <1>0, Blocks
  <2>7. Within(src, src')
    BY <2>3, <2>5, <2>6 DEF Within
  <2> QED
    BY <1>2, <2>2, <2>3, <2>5, <2>7
<1>4. CASE AppendTo(p)
  <2> DEFINE content == IF p \in DOMAIN src THEN src[p] ELSE <<>>
             longer  == Append(content, ver + 1)
  <2>1. src' = With(src, p, longer) /\ UNCHANGED shrunk /\ ver < MaxVer
    BY <1>4 DEF AppendTo, Rewrite, MayWrite
  <2>2. content \in Seq(Version) /\ (p \in DOMAIN src => content = src[p]) /\ (p \notin DOMAIN src => content = <<>>)
    BY <1>0, Blocks
  <2> HIDE DEF content
  <2>3. ver + 1 \in Version
    BY <2>1, ArchiveAssumption DEF TypeOK, Version
  <2>4. /\ longer \in Seq(Version) /\ Len(content) \in Nat /\ Len(content) <= Len(longer)
        /\ \A j \in DOMAIN longer : longer[j] = ver + 1 \/ (j \in DOMAIN content /\ longer[j] = content[j])
    BY <2>2, <2>3
  <2> HIDE DEF longer
  <2>5. /\ DOMAIN src' = DOMAIN src \cup {p} /\ src'[p] = longer
        /\ \A q \in DOMAIN src \ {p} : src'[q] = src[q]
    <3>1. /\ DOMAIN With(src, p, longer) = DOMAIN src \cup {p} /\ With(src, p, longer)[p] = longer
          /\ \A q \in DOMAIN src \ {p} : With(src, p, longer)[q] = src[q]
      BY DEF With
    <3> QED
      BY <2>1, <3>1, Zenon
  <2>6. \A q \in DOMAIN src : Len(src[q]) \in Nat
    BY <1>0, Blocks
  <2>7. Within(src, src')
    BY <2>2, <2>4, <2>5, <2>6 DEF Within
  <2>8. p \notin DOMAIN src => DOMAIN content = {}
    BY <2>2
  <2> QED
    BY <1>2, <2>1, <2>2, <2>4, <2>5, <2>7, <2>8
<1>5. CASE Truncate(p) \/ Remove(p)
  <2>1. shrunk' = (shrunk \/ dst # NoFile \/ pc \notin Done)
    BY <1>5 DEF Truncate, Remove, Shrinks
  <2>2. \A q \in DOMAIN src' : \A k \in DOMAIN src'[q] : q \in DOMAIN src /\ k \in DOMAIN src[q] /\ src'[q][k] = src[q][k]
    <3>1. CASE Truncate(p)
      <4> DEFINE shorter == SubSeq(src[p], 1, Len(src[p]) - 1)
      <4>1. /\ p \in DOMAIN src /\ src' = [src EXCEPT ![p] = shorter] /\ src[p] # <<>>
            /\ src[p] \in Seq(Version)
        BY <1>0, <3>1, Blocks DEF Truncate, Rewrite
      <4>2. \A k \in DOMAIN shorter : k \in DOMAIN src[p] /\ shorter[k] = src[p][k]
        BY <4>1
      <4> HIDE DEF shorter
      <4> QED
        BY <4>1, <4>2
    <3>2. CASE Remove(p)
      BY <3>2 DEF Remove, Rewrite
    <3> QED
      BY <1>5, <3>1, <3>2
  <2> QED
    BY <1>2, <2>1, <2>2
<1> QED
  BY <1>3, <1>4, <1>5 DEF Write

-----------------------------------------------------------------------------
(* The archive on the destination. *)

\* A block that is put where the file's part ends.
LEMMA PutNext ==
  ASSUME NEW content \in Seq(Version), NEW by \in Seq(Version), NEW all \in Seq(Version),
         Starts(content, by), Starts(all, by), Len(by) < Len(all)
  PROVE  LET k   == Len(by) + 1
             now == Put(content, k, all[k])
         IN /\ now \in Seq(Version)
            /\ Starts(now, Append(by, all[k])) /\ Starts(all, Append(by, all[k]))
            /\ Len(content) <= Len(now)
            /\ Len(content) <= Len(all) => Len(now) <= Len(all)
            /\ \A j \in DOMAIN now : now[j] = all[j] \/ (j \in DOMAIN content /\ now[j] = content[j])
<1> DEFINE k == Len(by) + 1
           block == all[k]
           now == Put(content, k, block)
           longer == Append(by, block)
<1>1. k \in Nat \ {0} /\ k <= Len(all) /\ block \in Version /\ k <= Len(content) + 1
  BY DEF Starts
<1>2. /\ longer \in Seq(Version) /\ Len(longer) = k /\ longer[k] = block
      /\ \A j \in 1..Len(by) : longer[j] = by[j]
  BY <1>1
<1>3. Starts(all, longer)
  BY <1>1, <1>2 DEF Starts
<1> HIDE DEF longer
<1>4. /\ now \in Seq(Version) /\ now[k] = block
      /\ Len(now) = IF k <= Len(content) THEN Len(content) ELSE Len(content) + 1
      /\ \A j \in 1..Len(content) : j # k => now[j] = content[j]
  <2> HIDE DEF k, block
  <2>1. k \in Nat \ {0} /\ block \in Version
    BY <1>1
  <2>2. /\ now \in Seq(Version)
        /\ Len(now) = IF k <= Len(content) THEN Len(content) ELSE Len(content) + 1
        /\ k <= Len(content) => now[k] = block
        /\ k = Len(content) + 1 => now[k] = block
        /\ \A j \in 1..Len(content) : j # k => now[j] = content[j]
    BY <2>1, PutType, Zenon
  <2>3. k <= Len(content) \/ k = Len(content) + 1
    BY <1>1
  <2> QED
    BY <2>2, <2>3
<1> HIDE DEF now
<1>5. Starts(now, longer)
  <2>1. Len(longer) <= Len(now)
    BY <1>1, <1>2, <1>4
  <2>2. ASSUME NEW j \in 1..Len(longer) PROVE now[j] = longer[j]
    <3>1. CASE j = k
      BY <1>2, <1>4, <3>1
    <3>2. CASE j # k
      <4>1. j \in 1..Len(by) /\ j \in 1..Len(content)
        BY <1>2, <2>2, <3>2 DEF Starts
      <4>2. now[j] = content[j] /\ content[j] = by[j] /\ longer[j] = by[j]
        BY <1>2, <1>4, <3>2, <4>1 DEF Starts
      <4> QED
        BY <4>2
    <3> QED
      BY <3>1, <3>2
  <2> QED
    BY <2>1, <2>2 DEF Starts
<1>6. \A j \in DOMAIN now : now[j] = all[j] \/ (j \in DOMAIN content /\ now[j] = content[j])
  BY <1>1, <1>4
<1>7. Len(content) <= Len(now) /\ (Len(content) <= Len(all) => Len(now) <= Len(all))
  BY <1>1, <1>4
<1> QED
  BY <1>3, <1>4, <1>5, <1>6, <1>7 DEF now, longer

\* What WriteFile does to the destination, if it does anything.
LEMMA WriteFileEffect ==
  ASSUME TypeOK, UnpackInv, WriteFile
  PROVE  LET p == Current
         IN /\ p \in todo /\ p \in DOMAIN dst /\ p \in DOMAIN arch /\ todo \subseteq DOMAIN arch
            /\ UNCHANGED <<src, ver, quiet, shrunk>>
            /\ \/ /\ UNCHANGED <<pc, todo, size, arch>> /\ Current' = p
                  /\ IsVolume(dst') /\ DOMAIN dst' = DOMAIN dst
                  /\ \A q \in DOMAIN dst \ {p} : dst'[q] = dst[q]
                  /\ Starts(dst'[p], part') /\ Starts(arch[p], part')
                  /\ Len(dst[p]) <= Len(dst'[p])
                  /\ Len(dst[p]) <= Len(arch[p]) => Len(dst'[p]) <= Len(arch[p])
                  /\ \A k \in DOMAIN dst'[p] :
                       \/ dst'[p][k] = arch[p][k]
                       \/ k \in DOMAIN dst[p] /\ dst'[p][k] = dst[p][k]
               \/ /\ todo' = todo \ {p} /\ pc' = "open" /\ UNCHANGED <<dst, arch>>
                  /\ Starts(dst[p], arch[p])
               \/ Answer("failed") /\ UNCHANGED dst
<1> DEFINE p == Current
           k == Len(part) + 1
<1>1. /\ p \in todo /\ p \in DOMAIN dst /\ p \in DOMAIN arch /\ todo \subseteq DOMAIN arch
      /\ UNCHANGED <<src, ver, quiet, shrunk>> /\ pc = "write"
  BY CurrentToDo DEF WriteFile, TypeOK, past
<1>2. /\ dst[p] \in Seq(Version) /\ arch[p] \in Seq(Version) /\ part \in Seq(Version) /\ IsVolume(dst)
      /\ size = 0 /\ Starts(arch[p], part) /\ Starts(dst[p], part)
  BY <1>1, Blocks DEF TypeOK, UnpackInv
<1>3. CASE /\ k <= Len(arch[p])
           /\ dst' = [dst EXCEPT ![p] = Put(@, size + k, arch[p][k])]
           /\ part' = Append(part, arch[p][k]) /\ UNCHANGED <<pc, todo, size, arch>>
  <2> DEFINE now == Put(dst[p], k, arch[p][k])
  <2>1. Current' = p
    BY <1>3 DEF Current
  <2> HIDE DEF p
  <2>2. size + k = k /\ Len(part) < Len(arch[p])
    BY <1>2, <1>3
  <2>3. dst' = [dst EXCEPT ![p] = now]
    BY <1>3, <2>2
  <2>4. /\ now \in Seq(Version)
        /\ Starts(now, part') /\ Starts(arch[p], part')
        /\ Len(dst[p]) <= Len(now)
        /\ Len(dst[p]) <= Len(arch[p]) => Len(now) <= Len(arch[p])
        /\ \A j \in DOMAIN now : now[j] = arch[p][j] \/ (j \in DOMAIN dst[p] /\ now[j] = dst[p][j])
    BY <1>2, <1>3, <2>2, PutNext
  <2> HIDE DEF now
  <2>5. /\ IsVolume(dst') /\ DOMAIN dst' = DOMAIN dst /\ dst'[p] = now
        /\ \A q \in DOMAIN dst \ {p} : dst'[q] = dst[q]
    BY <1>1, <1>2, <2>3, <2>4 DEF IsVolume
  <2> QED
    BY <1>1, <1>3, <2>1, <2>4, <2>5 DEF p
<1>4. CASE k > Len(arch[p]) /\ todo' = todo \ {p} /\ Goto("open") /\ UNCHANGED <<dst, size, part, arch>>
  <2>1. Starts(dst[p], arch[p])
    <3> HIDE DEF p
    <3>1. Len(part) = Len(arch[p])
      BY <1>2, <1>4 DEF Starts
    <3> QED
      BY <1>2, <3>1 DEF Starts
  <2> QED
    BY <1>1, <1>4, <2>1 DEF Goto
<1>5. CASE Answer("failed") /\ UNCHANGED dst
  BY <1>1, <1>5
<1> QED
  BY <1>3, <1>4, <1>5 DEF WriteFile

\* What OpenFile does to it.
LEMMA OpenFileEffect ==
  ASSUME TypeOK, OpenFile
  PROVE  LET p == Current
         IN /\ pc = "open" /\ todo \subseteq DOMAIN arch /\ UNCHANGED <<src, ver, quiet, shrunk>>
            /\ \/ todo = {} /\ Answer("ok") /\ UNCHANGED dst
               \/ /\ p \in todo /\ Current' = p
                  /\ DOMAIN dst' = DOMAIN dst \cup {p}
                  /\ \A q \in DOMAIN dst : dst'[q] = dst[q]
                  /\ p \notin DOMAIN dst => dst'[p] = <<>>
                  /\ pc' = "write" /\ part' = <<>> /\ size' = 0
                  /\ UNCHANGED <<todo, arch>>
               \/ Answer("failed") /\ UNCHANGED dst
<1> DEFINE p == Current
<1>1. pc = "open" /\ todo \subseteq DOMAIN arch /\ UNCHANGED <<src, ver, quiet, shrunk>> /\ IsVolume(dst)
  BY DEF OpenFile, TypeOK, past
<1>2. CASE /\ todo # {}
           /\ dst' = With(dst, p, Opened(p))
           /\ Goto("write") /\ part' = <<>> /\ size' = Offset(p)
           /\ UNCHANGED <<todo, arch>>
  <2>1. p \in todo /\ Current' = p
    BY <1>2, CurrentToDo DEF TypeOK, Current
  <2>2. /\ DOMAIN dst' = DOMAIN dst \cup {p} /\ dst'[p] = Opened(p)
        /\ \A q \in DOMAIN dst \ {p} : dst'[q] = dst[q]
    <3> HIDE DEF p
    <3> QED
      BY <1>2 DEF With
  <2>3. IF p \in DOMAIN dst THEN dst'[p] = dst[p] ELSE dst'[p] = <<>>
    BY <2>2 DEF Opened
  <2> HIDE DEF p
  <2>4. \A q \in DOMAIN dst : dst'[q] = dst[q]
    BY <2>2, <2>3
  <2> QED
    BY <1>1, <1>2, <2>1, <2>2, <2>3, <2>4 DEF p, Goto, Offset
<1>3. CASE ~(/\ todo # {}
             /\ dst' = With(dst, p, Opened(p))
             /\ Goto("write") /\ part' = <<>> /\ size' = Offset(p)
             /\ UNCHANGED <<todo, arch>>)
  BY <1>1, <1>3 DEF OpenFile
<1> QED
  BY <1>2, <1>3

\* What the other steps of a pull do.
LEMMA WalkEffect ==
  ASSUME TypeOK, TransferVolume \/ WriteHeader \/ CopyFile \/ VolumeResponse \/ VolumeCreate
  PROVE  /\ UNCHANGED <<src, dst, ver, shrunk>> /\ (~TransferVolume => UNCHANGED quiet)
         /\ \/ Answer("failed")
            \/ TransferVolume /\ pc' = "walk" /\ DOMAIN arch' = {} /\ todo' = DOMAIN src
            \/ /\ pc = "walk" /\ pc' = "copy" /\ UNCHANGED <<todo, arch>> /\ Current' = Current
               /\ Current \in DOMAIN src /\ size' = Len(src[Current]) /\ part' = <<>>
            \/ CopyFile /\ pc = "copy" /\ ~Answer("failed")
            \/ pc = "walk" /\ todo = {} /\ pc' = "create" /\ UNCHANGED arch
            \/ pc = "create" /\ pc' = "open" /\ todo' = DOMAIN arch /\ UNCHANGED arch
<1>1. CASE TransferVolume
  BY <1>1, NoFileType DEF TransferVolume, Goto
<1>2. CASE WriteHeader
  <2>1. UNCHANGED todo => Current' = Current
    BY DEF Current
  <2> QED
    BY <1>2, <2>1 DEF WriteHeader, Goto, past
<1>3. CASE CopyFile
  BY <1>3 DEF CopyFile, past
<1>4. CASE VolumeResponse
  BY <1>4 DEF VolumeResponse, Goto, past
<1>5. CASE VolumeCreate
  BY <1>5 DEF VolumeCreate, Unpack, Goto, past
<1> QED
  BY <1>1, <1>2, <1>3, <1>4, <1>5

\* The block that is copied next, or the file that is complete.
LEMMA CopyEffect ==
  ASSUME TypeOK, CopyFile, ~Answer("failed")
  PROVE  LET p == Current
         IN /\ p \in todo /\ p \in DOMAIN src /\ IsVolume(arch')
            /\ \/ /\ UNCHANGED <<pc, todo, size, arch>> /\ Current' = p
                  /\ Len(part) < Len(src[p]) /\ Len(part) < size
                  /\ part' = Append(part, src[p][Len(part) + 1])
               \/ /\ pc' = "walk" /\ todo' = todo \ {p}
                  /\ Len(part) = size /\ Len(part) >= Len(src[p])
                  /\ DOMAIN arch' = DOMAIN arch \cup {p} /\ arch'[p] = part
                  /\ \A q \in DOMAIN arch \ {p} : arch'[q] = arch[q]
<1> DEFINE p == Current
<1>1. p \in todo /\ p \in DOMAIN src /\ p \in File /\ IsVolume(arch) /\ part \in Seq(Version)
  BY CurrentToDo DEF CopyFile, TypeOK
<1>2. CASE Len(part) >= Len(src[p]) /\ FileEnd
  <2>1. /\ Len(part) = size /\ arch' = With(arch, p, part)
        /\ pc' = "walk" /\ todo' = todo \ {p}
    BY <1>2 DEF FileEnd, Goto
  <2> HIDE DEF p
  <2>2. /\ IsVolume(With(arch, p, part)) /\ DOMAIN With(arch, p, part) = DOMAIN arch \cup {p}
        /\ With(arch, p, part)[p] = part
        /\ \A q \in DOMAIN arch \ {p} : With(arch, p, part)[q] = arch[q]
    BY <1>1, WithType, Zenon
  <2>3. /\ IsVolume(arch') /\ DOMAIN arch' = DOMAIN arch \cup {p} /\ arch'[p] = part
        /\ \A q \in DOMAIN arch \ {p} : arch'[q] = arch[q]
    BY <2>1, <2>2, Zenon
  <2> QED
    BY <1>1, <1>2, <2>1, <2>3 DEF p
<1>3. CASE /\ Len(part) < Len(src[p]) /\ Len(part) < size
           /\ part' = Append(part, src[p][Len(part) + 1]) /\ UNCHANGED <<pc, todo, size, arch>>
  <2>1. Current' = p
    BY <1>3 DEF Current
  <2> QED
    BY <1>1, <1>3, <2>1
<1> QED
  BY <1>2, <1>3 DEF CopyFile

LEMMA FailedEffect ==
  ASSUME Answer("failed")
  PROVE  pc' = "failed" /\ todo' = {} /\ DOMAIN arch' = {}
  BY NoFileType DEF Answer

LEMMA SucceededEffect ==
  ASSUME Answer("ok")
  PROVE  pc' = "ok" /\ todo' = {} /\ UNCHANGED arch
  BY DEF Answer

LEMMA IdleEffect ==
  ASSUME UNCHANGED vars
  PROVE  UNCHANGED <<src, dst, ver, pc, todo, size, part, arch, quiet, shrunk>> /\ Current' = Current
  BY DEF vars, pull, past, Current

LEMMA UnpackStep ==
  ASSUME TypeOK, UnpackInv, [Next]_vars
  PROVE  UnpackInv'
<1>1. CASE UNCHANGED <<dst, pc, todo, size, part, arch>> /\ Current' = Current
  BY <1>1 DEF UnpackInv, Starts
<1>2. CASE Answer("failed")
  BY <1>2, FailedEffect DEF UnpackInv
<1>3. CASE TransferVolume \/ WriteHeader \/ CopyFile \/ VolumeResponse \/ VolumeCreate
  <2>1. pc' \in {"walk", "copy", "create"} => UnpackInv'
    BY DEF UnpackInv
  <2>2. CASE pc = "create" /\ pc' = "open" /\ todo' = DOMAIN arch /\ UNCHANGED arch
    BY <2>2 DEF UnpackInv
  <2>3. CASE CopyFile /\ pc = "copy" /\ ~Answer("failed")
    BY <2>1, <2>3, CopyEffect
  <2> QED
    BY <1>2, <1>3, <2>1, <2>2, <2>3, WalkEffect
<1>4. CASE OpenFile
  <2> DEFINE p == Current
  <2>1. pc = "open" /\ todo \subseteq DOMAIN arch /\ IsVolume(arch)
    BY <1>4 DEF OpenFile, TypeOK
  <2>2. CASE todo = {} /\ Answer("ok") /\ UNCHANGED dst
    BY <2>1, <2>2, SucceededEffect DEF UnpackInv, Starts
  <2>3. CASE /\ p \in todo /\ Current' = p
             /\ DOMAIN dst' = DOMAIN dst \cup {p}
             /\ \A q \in DOMAIN dst : dst'[q] = dst[q]
             /\ p \notin DOMAIN dst => dst'[p] = <<>>
             /\ pc' = "write" /\ part' = <<>> /\ size' = 0
             /\ UNCHANGED <<todo, arch>>
    <3>1. \A q \in DOMAIN arch \ todo : q \in DOMAIN dst /\ Starts(dst[q], arch[q])
      BY <2>1 DEF UnpackInv
    <3>2. \A q \in DOMAIN arch' \ todo' : q \in DOMAIN dst' /\ Starts(dst'[q], arch'[q])
      BY <2>3, <3>1
    <3>3. ASSUME NEW content, Len(content) >= 0 PROVE Starts(content, <<>>)
      BY <3>3 DEF Starts
    <3>4. Len(arch[p]) >= 0 /\ Len(dst'[p]) >= 0
      <4>1. Len(arch[p]) >= 0
        BY <2>1, <2>3, Blocks
      <4>2. CASE p \in DOMAIN dst
        BY <2>3, <4>2, Blocks DEF TypeOK
      <4>3. CASE p \notin DOMAIN dst
        BY <2>3, <4>3
      <4> QED
        BY <4>1, <4>2, <4>3
    <3> HIDE DEF p
    <3>5. Starts(arch'[Current'], part') /\ Starts(dst'[Current'], part')
      BY <2>3, <3>3, <3>4
    <3> QED
      BY <2>3, <3>2, <3>5 DEF UnpackInv
  <2> QED
    BY <1>2, <1>4, <2>2, <2>3, OpenFileEffect
<1>5. CASE WriteFile
  <2> DEFINE p == Current
  <2>1. /\ p \in todo /\ p \in DOMAIN dst /\ p \in DOMAIN arch /\ todo \subseteq DOMAIN arch
        /\ pc = "write"
    BY <1>5, WriteFileEffect DEF WriteFile
  <2>2. CASE /\ UNCHANGED <<pc, todo, size, arch>> /\ Current' = p
             /\ DOMAIN dst' = DOMAIN dst
             /\ \A q \in DOMAIN dst \ {p} : dst'[q] = dst[q]
             /\ Starts(dst'[p], part') /\ Starts(arch[p], part')
    <3> HIDE DEF p
    <3> QED
      BY <2>1, <2>2 DEF UnpackInv
  <2>3. CASE /\ todo' = todo \ {p} /\ pc' = "open" /\ UNCHANGED <<dst, arch>>
             /\ Starts(dst[p], arch[p])
    <3> HIDE DEF p
    <3> QED
      BY <2>1, <2>3 DEF UnpackInv
  <2> QED
    BY <1>2, <1>5, <2>2, <2>3, WriteFileEffect
<1>6. CASE \E p \in File : Write(p)
  BY <1>1, <1>6, WriteEffect
<1>7. CASE UNCHANGED vars
  BY <1>1, <1>7, IdleEffect
<1> QED
  BY <1>3, <1>4, <1>5, <1>6, <1>7 DEF Next, Pull

-----------------------------------------------------------------------------
(* Files that have not become shorter. *)

LEMMA Lengths ==
  ASSUME TypeOK
  PROVE  /\ \A p \in DOMAIN src : Len(src[p]) \in Nat
         /\ \A p \in DOMAIN dst : Len(dst[p]) \in Nat
         /\ \A p \in DOMAIN arch : Len(arch[p]) \in Nat
         /\ Len(part) \in Nat /\ size \in Nat
  BY Blocks, ArchiveAssumption DEF TypeOK

LEMMA LengthStep ==
  ASSUME TypeOK, TypeOK', UnpackInv, LengthInv, [Next]_vars
  PROVE  LengthInv'
<1> SUFFICES ASSUME ~shrunk'
             PROVE  /\ Within(dst', src') /\ Within(arch', src')
                    /\ \A p \in DOMAIN dst' \cap DOMAIN arch' : Len(dst'[p]) <= Len(arch'[p])
                    /\ pc' = "copy" => /\ size' <= Len(src'[Current'])
                                       /\ Current' \in DOMAIN dst' => Len(dst'[Current']) <= size'
  BY DEF LengthInv, Within
<1> DEFINE Goal == /\ Within(dst', src') /\ Within(arch', src')
                   /\ \A p \in DOMAIN dst' \cap DOMAIN arch' : Len(dst'[p]) <= Len(arch'[p])
                   /\ pc' = "copy" => /\ size' <= Len(src'[Current'])
                                      /\ Current' \in DOMAIN dst' => Len(dst'[Current']) <= size'
           L == /\ Within(dst, src) /\ Within(arch, src)
                /\ \A p \in DOMAIN dst \cap DOMAIN arch : Len(dst[p]) <= Len(arch[p])
                /\ pc = "copy" => /\ size <= Len(src[Current])
                                  /\ Current \in DOMAIN dst => Len(dst[Current]) <= size
<1>l. ~shrunk => L
  BY DEF LengthInv
<1>1. CASE UNCHANGED vars
  BY <1>1, <1>l, IdleEffect DEF Within
<1>2. ASSUME NEW p \in File, Write(p) PROVE Goal
  <2>1. /\ UNCHANGED <<dst, pc, todo, size, part, arch>> /\ Current' = Current /\ ~shrunk
        /\ (dst = NoFile /\ pc \in Done) \/ Within(src, src')
    BY <1>2, WriteEffect
  <2>2. CASE dst = NoFile /\ pc \in Done
    <3>1. DOMAIN dst = {} /\ DOMAIN arch = {}
      BY <2>2, NoFileType DEF Done, UnpackInv
    <3> QED
      BY <2>1, <2>2, <3>1 DEF Within, Done
  <2>3. CASE Within(src, src')
    <3>1. L
      BY <1>l, <2>1
    <3>2. /\ \A q \in DOMAIN src : q \in DOMAIN src' /\ Len(src[q]) <= Len(src'[q]) /\ Len(src'[q]) \in Nat
          /\ pc = "copy" => Current \in DOMAIN src
      <4>1. \A q \in DOMAIN src' : Len(src'[q]) \in Nat
        BY Blocks DEF TypeOK
      <4> QED
        BY <2>3, <4>1 DEF Within, TypeOK
    <3>3. Within(dst', src')
      BY <2>1, <3>1, <3>2, Lengths DEF Within
    <3>4. Within(arch', src')
      BY <2>1, <3>1, <3>2, Lengths DEF Within
    <3>5. pc' = "copy" => size' <= Len(src'[Current'])
      BY <2>1, <3>1, <3>2, Lengths
    <3> QED
      BY <2>1, <3>1, <3>3, <3>4, <3>5
  <2> QED
    BY <2>1, <2>2, <2>3
<1>3. CASE Answer("failed") /\ UNCHANGED <<src, dst, shrunk>>
  BY <1>3, <1>l, FailedEffect DEF Within
<1>4. CASE TransferVolume \/ WriteHeader \/ CopyFile \/ VolumeResponse \/ VolumeCreate
  <2>1. UNCHANGED <<src, dst, shrunk>> /\ L
    BY <1>4, <1>l, WalkEffect
  <2>2. CASE pc' \in {"walk", "create", "open"} /\ (UNCHANGED arch \/ DOMAIN arch' = {})
    BY <2>1, <2>2 DEF Within
  <2>3. CASE /\ pc = "walk" /\ pc' = "copy" /\ UNCHANGED <<todo, arch>> /\ Current' = Current
             /\ Current \in DOMAIN src /\ size' = Len(src[Current]) /\ part' = <<>>
    BY <2>1, <2>3, Lengths DEF Within
  <2>4. CASE CopyFile /\ pc = "copy" /\ ~Answer("failed")
    <3> DEFINE p == Current
    <3>1. CASE UNCHANGED <<pc, todo, size, arch>> /\ Current' = p
      BY <2>1, <3>1 DEF Within
    <3>2. CASE /\ p \in DOMAIN src /\ pc' = "walk" /\ Len(part) = size
               /\ DOMAIN arch' = DOMAIN arch \cup {p} /\ arch'[p] = part
               /\ \A q \in DOMAIN arch \ {p} : arch'[q] = arch[q]
      <4>1. size <= Len(src[p]) /\ (p \in DOMAIN dst => Len(dst[p]) <= size)
        BY <2>1, <2>4
      <4> HIDE DEF p
      <4>2. Within(arch', src')
        BY <2>1, <3>2, <4>1 DEF Within
      <4>3. \A q \in DOMAIN dst' \cap DOMAIN arch' : Len(dst'[q]) <= Len(arch'[q])
        BY <2>1, <3>2, <4>1
      <4> QED
        BY <2>1, <3>2, <4>2, <4>3
    <3> QED
      BY <2>4, <3>1, <3>2, CopyEffect
  <2> QED
    BY <1>3, <1>4, <2>1, <2>2, <2>3, <2>4, WalkEffect
<1>5. CASE OpenFile
  <2> DEFINE p == Current
  <2>1. UNCHANGED <<src, shrunk>> /\ L /\ pc = "open" /\ todo \subseteq DOMAIN arch
    BY <1>5, <1>l, OpenFileEffect
  <2>2. CASE Answer("ok") /\ UNCHANGED dst
    BY <2>1, <2>2, SucceededEffect DEF Within
  <2>3. CASE /\ p \in todo
             /\ DOMAIN dst' = DOMAIN dst \cup {p}
             /\ \A q \in DOMAIN dst : dst'[q] = dst[q]
             /\ p \notin DOMAIN dst => dst'[p] = <<>>
             /\ pc' = "write" /\ UNCHANGED arch
    <3> HIDE DEF p
    <3>1. p \in DOMAIN arch /\ p \in DOMAIN src /\ Len(arch[p]) \in Nat /\ Len(src[p]) \in Nat /\ Len(<<>>) = 0
      BY <2>1, <2>3, Lengths DEF Within
    <3>2. Within(dst', src')
      BY <2>1, <2>3, <3>1 DEF Within
    <3>3. \A q \in DOMAIN dst' \cap DOMAIN arch' : Len(dst'[q]) <= Len(arch'[q])
      BY <2>1, <2>3, <3>1
    <3> QED
      BY <2>1, <2>3, <3>2, <3>3
  <2> QED
    BY <1>3, <1>5, <2>1, <2>2, <2>3, OpenFileEffect
<1>6. CASE WriteFile
  <2> DEFINE p == Current
  <2>1. /\ UNCHANGED <<src, shrunk>> /\ L /\ p \in DOMAIN dst /\ p \in DOMAIN arch /\ pc = "write"
    BY <1>6, <1>l, WriteFileEffect DEF WriteFile
  <2>2. CASE /\ UNCHANGED <<pc, arch>>
             /\ IsVolume(dst') /\ DOMAIN dst' = DOMAIN dst
             /\ \A q \in DOMAIN dst \ {p} : dst'[q] = dst[q]
             /\ Len(dst[p]) <= Len(arch[p]) => Len(dst'[p]) <= Len(arch[p])
    <3> HIDE DEF p
    <3>1. /\ Len(dst'[p]) \in Nat /\ Len(arch[p]) \in Nat /\ Len(src[p]) \in Nat /\ p \in DOMAIN src
          /\ Len(dst'[p]) <= Len(arch[p]) /\ Len(arch[p]) <= Len(src[p])
      BY <2>1, <2>2, Blocks, Lengths DEF Within
    <3>2. Within(dst', src')
      BY <2>1, <2>2, <3>1 DEF Within
    <3>3. \A q \in DOMAIN dst' \cap DOMAIN arch' : Len(dst'[q]) <= Len(arch'[q])
      BY <2>1, <2>2, <3>1
    <3> QED
      BY <2>1, <2>2, <3>2, <3>3
  <2>3. CASE pc' = "open" /\ UNCHANGED <<dst, arch>>
    BY <2>1, <2>3 DEF Within
  <2> QED
    BY <1>3, <1>6, <2>1, <2>2, <2>3, WriteFileEffect
<1> QED
  BY <1>1, <1>2, <1>4, <1>5, <1>6 DEF Next, Pull

-----------------------------------------------------------------------------
(* A container that leaves its files alone. *)

LEMMA QuietStep ==
  ASSUME TypeOK, UnpackInv, QuietInv, [Next]_vars
  PROVE  QuietInv'
<1> DEFINE Read == /\ pc \in {"walk", "copy"} => todo \subseteq DOMAIN src /\ DOMAIN arch = DOMAIN src \ todo
                   /\ pc \in {"create", "open", "write", "ok"} => DOMAIN arch = DOMAIN src
                   /\ \A p \in DOMAIN arch : arch[p] = src[p]
                   /\ pc = "copy" => size = Len(src[Current]) /\ Starts(src[Current], part)
<1> SUFFICES ASSUME quiet' PROVE Read'
  BY DEF QuietInv
<1>q. quiet => Read
  BY DEF QuietInv
<1>1. CASE UNCHANGED vars
  BY <1>1, <1>q, IdleEffect DEF Starts
<1>2. ASSUME NEW p \in File, Write(p) PROVE FALSE
  BY <1>2, WriteEffect
<1>3. CASE Answer("failed")
  BY <1>3, FailedEffect
<1>4. CASE TransferVolume /\ ~Answer("failed")
  <2>1. pc' = "walk" /\ DOMAIN arch' = {} /\ todo' = DOMAIN src /\ UNCHANGED src
    BY <1>4, NoFileType DEF TransferVolume, Goto
  <2> QED
    BY <2>1
<1>5. CASE CopyFile /\ pc = "copy" /\ ~Answer("failed")
  <2> DEFINE p == Current
  <2>1. UNCHANGED <<src, quiet>> /\ Read
    BY <1>5, <1>q DEF CopyFile, past
  <2>2. /\ p \in todo /\ p \in DOMAIN src /\ todo \subseteq DOMAIN src /\ DOMAIN arch = DOMAIN src \ todo
        /\ size = Len(src[p]) /\ Starts(src[p], part)
        /\ part \in Seq(Version) /\ src[p] \in Seq(Version)
    BY <1>5, <2>1, CopyEffect, Blocks DEF TypeOK
  <2>3. CASE /\ UNCHANGED <<pc, todo, size, arch>> /\ Current' = p
             /\ Len(part) < Len(src[p])
             /\ part' = Append(part, src[p][Len(part) + 1])
    <3> DEFINE s == src[p]
    <3>1. /\ s \in Seq(Version) /\ part \in Seq(Version) /\ Starts(s, part) /\ Len(part) < Len(s)
          /\ part' = Append(part, s[Len(part) + 1])
      BY <2>2, <2>3
    <3> HIDE DEF s, p
    <3>2. Starts(s, part')
      BY <3>1, PutNext
    <3>3. src'[Current'] = s /\ size' = Len(s)
      BY <2>1, <2>2, <2>3 DEF s
    <3> QED
      BY <2>1, <2>3, <3>2, <3>3
  <2>4. CASE /\ pc' = "walk" /\ todo' = todo \ {p}
             /\ Len(part) = size
             /\ DOMAIN arch' = DOMAIN arch \cup {p} /\ arch'[p] = part
             /\ \A q \in DOMAIN arch \ {p} : arch'[q] = arch[q]
    <3> HIDE DEF p
    <3>1. part = src[p]
      BY <2>2, <2>4, SeqEqual DEF Starts
    <3>2. \A q \in DOMAIN arch' : arch'[q] = src'[q]
      BY <2>1, <2>4, <3>1
    <3>3. todo' \subseteq DOMAIN src' /\ DOMAIN arch' = DOMAIN src' \ todo'
      BY <2>1, <2>2, <2>4
    <3> QED
      BY <2>4, <3>2, <3>3
  <2> QED
    BY <1>5, <2>3, <2>4, CopyEffect
<1>6. CASE /\ WriteHeader \/ CopyFile \/ VolumeResponse \/ VolumeCreate
           /\ ~Answer("failed") /\ ~TransferVolume /\ ~(CopyFile /\ pc = "copy")
  <2>1. UNCHANGED <<src, quiet>> /\ Read
    BY <1>6, <1>q, WalkEffect
  <2>2. CASE /\ pc = "walk" /\ pc' = "copy" /\ UNCHANGED <<todo, arch>> /\ Current' = Current
             /\ Current \in DOMAIN src /\ size' = Len(src[Current]) /\ part' = <<>>
    <3>1. Starts(src[Current], <<>>)
      BY <2>2, Lengths DEF Starts
    <3> QED
      BY <2>1, <2>2, <3>1
  <2>3. CASE pc = "walk" /\ todo = {} /\ pc' = "create" /\ UNCHANGED arch
    BY <2>1, <2>3
  <2>4. CASE pc = "create" /\ pc' = "open" /\ UNCHANGED arch
    BY <2>1, <2>4
  <2> QED
    BY <1>6, <2>2, <2>3, <2>4, WalkEffect
<1>7. CASE OpenFile
  <2>1. /\ UNCHANGED <<src, quiet>> /\ Read /\ pc = "open"
        /\ Answer("failed") \/ (UNCHANGED arch /\ pc' \in {"ok", "write"})
    BY <1>7, <1>q, OpenFileEffect, SucceededEffect
  <2> QED
    BY <1>3, <2>1
<1>8. CASE WriteFile
  <2>1. /\ UNCHANGED <<src, quiet>> /\ Read /\ pc = "write"
        /\ Answer("failed") \/ (UNCHANGED arch /\ pc' \in {"write", "open"})
    BY <1>8, <1>q, WriteFileEffect DEF WriteFile
  <2> QED
    BY <1>3, <2>1
<1> QED
  BY <1>1, <1>2, <1>3, <1>4, <1>5, <1>6, <1>7, <1>8 DEF Next, Pull

-----------------------------------------------------------------------------
(* Blocks that are not replaced by older ones. *)

LEMMA OrderStep ==
  ASSUME TypeOK, TypeOK', UnpackInv, LengthInv, OrderInv, [Next]_vars
  PROVE  OrderInv'
<1> DEFINE Dated   == \A p \in DOMAIN src : \A k \in DOMAIN src[p] : src[p][k] <= ver
           Ordered == /\ \A p \in DOMAIN dst  : NotNewer(dst[p], src[p])
                      /\ \A p \in DOMAIN arch : NotNewer(arch[p], src[p])
                      /\ \A p \in DOMAIN dst \cap DOMAIN arch : NotNewer(dst[p], arch[p])
                      /\ pc = "copy" => /\ NotNewer(part, src[Current])
                                        /\ Current \in DOMAIN dst => NotNewer(dst[Current], part)
<1>o. Dated /\ (~shrunk => Ordered)
  BY DEF OrderInv
<1> SUFFICES Dated' /\ (~shrunk' => Ordered')
  BY DEF OrderInv
<1>w. ~shrunk => /\ Within(dst, src) /\ Within(arch, src)
                 /\ \A p \in DOMAIN dst \cap DOMAIN arch : Len(dst[p]) <= Len(arch[p])
                 /\ pc = "copy" => /\ size <= Len(src[Current])
                                   /\ Current \in DOMAIN dst => Len(dst[Current]) <= size
  BY DEF LengthInv
<1>1. CASE UNCHANGED vars
  BY <1>1, <1>o, IdleEffect DEF NotNewer
<1>2. ASSUME NEW p \in File, Write(p) PROVE Dated' /\ (~shrunk' => Ordered')
  <2>1. /\ UNCHANGED <<dst, pc, todo, size, part, arch>> /\ Current' = Current /\ ver' = ver + 1
        /\ \A q \in DOMAIN src' : \A k \in DOMAIN src'[q] :
              \/ src'[q][k] = ver + 1
              \/ q \in DOMAIN src /\ k \in DOMAIN src[q] /\ src'[q][k] = src[q][k]
        /\ shrunk => shrunk'
        /\ shrunk' \/ (dst = NoFile /\ pc \in Done) \/ Within(src, src')
    BY <1>2, WriteEffect
  <2>2. /\ ver \in Nat
        /\ \A q \in DOMAIN src : \A k \in DOMAIN src[q] : src[q][k] \in Nat /\ src[q][k] <= ver
        /\ \A q \in DOMAIN dst : \A k \in DOMAIN dst[q] : dst[q][k] \in Nat
        /\ \A q \in DOMAIN arch : \A k \in DOMAIN arch[q] : arch[q][k] \in Nat
        /\ \A k \in DOMAIN part : part[k] \in Nat
    <3>1. Version \subseteq Nat
      BY ArchiveAssumption DEF Version
    <3>2. \A k \in DOMAIN part : part[k] \in Version
      BY DEF TypeOK
    <3> QED
      BY <1>o, <3>1, <3>2, Blocks DEF TypeOK
  <2>3. Dated'
    BY <2>1, <2>2
  <2>4. ASSUME ~shrunk' PROVE Ordered'
    <3>1. CASE dst = NoFile /\ pc \in Done
      <4>1. DOMAIN dst = {} /\ DOMAIN arch = {}
        BY <3>1, NoFileType DEF Done, UnpackInv
      <4> QED
        BY <2>1, <3>1, <4>1 DEF Done
    <3>2. CASE Within(src, src')
      <4>1. Ordered /\ Within(dst, src) /\ Within(arch, src)
        BY <1>o, <1>w, <2>1, <2>4
      <4>2. ASSUME NEW q \in DOMAIN src, NEW f, NotNewer(f, src[q]),
                   \A k \in DOMAIN f : k \in DOMAIN src[q] /\ f[k] \in Nat
            PROVE  NotNewer(f, src'[q])
        <5>1. q \in DOMAIN src'
          BY <3>2 DEF Within
        <5>2. ASSUME NEW k \in DOMAIN f \cap DOMAIN src'[q] PROVE f[k] <= src'[q][k]
          <6>1. f[k] <= src[q][k] /\ f[k] \in Nat /\ src[q][k] \in Nat /\ src[q][k] <= ver
            BY <2>2, <4>2 DEF NotNewer
          <6>2. src'[q][k] = ver + 1 \/ src'[q][k] = src[q][k]
            BY <2>1, <5>1
          <6> QED
            BY <2>2, <6>1, <6>2
        <5> QED
          BY <5>2 DEF NotNewer
      <4>3. \A q \in DOMAIN dst : q \in DOMAIN src /\ \A k \in DOMAIN dst[q] : k \in DOMAIN src[q]
        BY <4>1, Blocks DEF Within, TypeOK
      <4>4. \A q \in DOMAIN arch : q \in DOMAIN src /\ \A k \in DOMAIN arch[q] : k \in DOMAIN src[q]
        BY <4>1, Blocks DEF Within, TypeOK
      <4>5. pc = "copy" => Current \in DOMAIN src /\ \A k \in DOMAIN part : k \in DOMAIN src[Current]
        <5> SUFFICES ASSUME pc = "copy"
                     PROVE  Current \in DOMAIN src /\ \A k \in DOMAIN part : k \in DOMAIN src[Current]
          OBVIOUS
        <5>1. Current \in DOMAIN src /\ Len(part) <= size /\ size <= Len(src[Current]) /\ part \in Seq(Version)
          BY <1>w, <2>1, <2>4 DEF TypeOK
        <5>2. DOMAIN part = 1..Len(part) /\ DOMAIN src[Current] = 1..Len(src[Current])
          BY <5>1, Blocks DEF TypeOK
        <5> QED
          BY <5>1, <5>2, Lengths
      <4>6. \A q \in DOMAIN dst : NotNewer(dst[q], src'[q])
        BY <2>2, <4>1, <4>2, <4>3
      <4>7. \A q \in DOMAIN arch : NotNewer(arch[q], src'[q])
        BY <2>2, <4>1, <4>2, <4>4
      <4>8. pc = "copy" => NotNewer(part, src'[Current])
        BY <2>2, <4>1, <4>2, <4>5
      <4> QED
        BY <2>1, <4>1, <4>6, <4>7, <4>8
    <3> QED
      BY <2>1, <2>4, <3>1, <3>2
  <2> QED
    BY <2>3, <2>4
<1>3. CASE Answer("failed") /\ UNCHANGED <<src, dst, ver, shrunk>>
  BY <1>3, <1>o, FailedEffect
<1>4. CASE TransferVolume \/ WriteHeader \/ CopyFile \/ VolumeResponse \/ VolumeCreate
  <2>1. UNCHANGED <<src, dst, ver, shrunk>> /\ Dated'
    BY <1>4, <1>o, WalkEffect
  <2>2. CASE pc' \in {"walk", "create", "open"} /\ (UNCHANGED arch \/ DOMAIN arch' = {})
    BY <1>o, <2>1, <2>2
  <2>3. CASE pc' = "copy" /\ UNCHANGED arch /\ part' = <<>>
    <3>1. DOMAIN part' = {}
      BY <2>3
    <3> QED
      BY <1>o, <2>1, <2>3, <3>1 DEF NotNewer
  <2>4. CASE CopyFile /\ pc = "copy" /\ ~Answer("failed")
    <3> SUFFICES ASSUME ~shrunk PROVE Ordered'
      BY <2>1
    <3> DEFINE p == Current
    <3>0. Ordered /\ NotNewer(part, src[p]) /\ (p \in DOMAIN dst => NotNewer(dst[p], part))
      BY <1>o, <2>4
    <3>1. CASE /\ UNCHANGED <<pc, todo, size, arch>> /\ Current' = p /\ p \in DOMAIN src
               /\ Len(part) < Len(src[p])
               /\ part' = Append(part, src[p][Len(part) + 1])
      <4> DEFINE s == src[p]
      <4>1. /\ s \in Seq(Version) /\ part \in Seq(Version) /\ part' = Append(part, s[Len(part) + 1])
            /\ Len(part) < Len(s)
        BY <3>1, Blocks DEF TypeOK
      <4>2. p \in DOMAIN dst => NotNewer(dst[p], s)
        BY <3>0
      <4>3. \A k \in DOMAIN s : s[k] \in Nat
        BY <3>1, Blocks DEF TypeOK
      <4> HIDE DEF s
      <4>4. \A k \in DOMAIN part' : k \in DOMAIN s /\ ((k \in DOMAIN part /\ part'[k] = part[k]) \/ part'[k] = s[k])
        BY <4>1
      <4>5. NotNewer(part', s)
        BY <3>0, <4>3, <4>4 DEF NotNewer, s
      <4>6. p \in DOMAIN dst => NotNewer(dst[p], part')
        BY <3>0, <4>2, <4>4 DEF NotNewer
      <4> QED
        BY <2>1, <3>0, <3>1, <4>5, <4>6 DEF s
    <3>2. CASE /\ pc' = "walk"
               /\ DOMAIN arch' = DOMAIN arch \cup {p} /\ arch'[p] = part
               /\ \A q \in DOMAIN arch \ {p} : arch'[q] = arch[q]
      <4> HIDE DEF p
      <4>1. \A q \in DOMAIN arch' : NotNewer(arch'[q], src[q])
        BY <3>0, <3>2
      <4>2. \A q \in DOMAIN dst \cap DOMAIN arch' : NotNewer(dst[q], arch'[q])
        BY <3>0, <3>2
      <4> QED
        BY <2>1, <3>0, <3>2, <4>1, <4>2
    <3> QED
      BY <2>4, <3>1, <3>2, CopyEffect
  <2> QED
    BY <1>3, <1>4, <2>1, <2>2, <2>3, <2>4, WalkEffect
<1>5. CASE OpenFile
  <2> DEFINE p == Current
  <2>1. UNCHANGED <<src, ver, shrunk>> /\ Dated' /\ pc = "open"
    BY <1>5, <1>o, OpenFileEffect
  <2>2. CASE Answer("ok") /\ UNCHANGED dst
    BY <1>o, <2>1, <2>2, SucceededEffect
  <2>3. CASE /\ DOMAIN dst' = DOMAIN dst \cup {p}
             /\ \A q \in DOMAIN dst : dst'[q] = dst[q]
             /\ p \notin DOMAIN dst => dst'[p] = <<>>
             /\ pc' = "write" /\ UNCHANGED arch
    <3> HIDE DEF p
    <3>1. \A f : NotNewer(<<>>, f)
      BY DEF NotNewer
    <3>2. ~shrunk => \A q \in DOMAIN dst' : NotNewer(dst'[q], src[q])
      BY <1>o, <2>3, <3>1
    <3>3. ~shrunk => \A q \in DOMAIN dst' \cap DOMAIN arch : NotNewer(dst'[q], arch[q])
      BY <1>o, <2>3, <3>1
    <3> QED
      BY <1>o, <2>1, <2>3, <3>2, <3>3
  <2> QED
    BY <1>3, <1>5, <2>1, <2>2, <2>3, OpenFileEffect
<1>6. CASE WriteFile
  <2> DEFINE p == Current
  <2>1. UNCHANGED <<src, ver, shrunk>> /\ Dated' /\ pc = "write" /\ p \in DOMAIN dst /\ p \in DOMAIN arch
    BY <1>6, <1>o, WriteFileEffect DEF WriteFile
  <2>2. CASE /\ UNCHANGED <<pc, arch>>
             /\ DOMAIN dst' = DOMAIN dst
             /\ \A q \in DOMAIN dst \ {p} : dst'[q] = dst[q]
             /\ Starts(dst'[p], part') /\ Starts(arch[p], part')
             /\ \A k \in DOMAIN dst'[p] :
                  \/ dst'[p][k] = arch[p][k]
                  \/ k \in DOMAIN dst[p] /\ dst'[p][k] = dst[p][k]
             /\ Len(dst[p]) <= Len(arch[p]) => Len(dst'[p]) <= Len(arch[p])
             /\ IsVolume(dst')
    <3> SUFFICES ASSUME ~shrunk PROVE Ordered'
      BY <2>1
    <3> HIDE DEF p
    <3>1. \A k \in DOMAIN arch[p] : arch[p][k] \in Nat
      BY <2>1, Blocks DEF TypeOK
    <3>2. \A k \in DOMAIN dst'[p] : k \in DOMAIN arch[p]
      <4>1. Len(dst'[p]) <= Len(arch[p])
        BY <1>w, <2>1, <2>2
      <4>2. /\ DOMAIN dst'[p] = 1..Len(dst'[p]) /\ DOMAIN arch[p] = 1..Len(arch[p])
            /\ Len(dst'[p]) \in Nat /\ Len(arch[p]) \in Nat
        BY <2>1, <2>2, Blocks DEF TypeOK
      <4> QED
        BY <4>1, <4>2
    <3>3. NotNewer(dst'[p], arch[p])
      BY <1>o, <2>1, <2>2, <3>1 DEF NotNewer
    <3>4. NotNewer(dst'[p], src[p])
      BY <1>o, <2>1, <2>2, <3>2 DEF NotNewer
    <3> QED
      BY <1>o, <2>1, <2>2, <3>3, <3>4
  <2>3. CASE pc' = "open" /\ UNCHANGED <<dst, arch>>
    BY <1>o, <2>1, <2>3
  <2> QED
    BY <1>3, <1>6, <2>1, <2>2, <2>3, WriteFileEffect
<1> QED
  BY <1>1, <1>2, <1>4, <1>5, <1>6 DEF Next, Pull

-----------------------------------------------------------------------------
(* The theorems. *)

IInv == TypeOK /\ UnpackInv /\ LengthInv /\ QuietInv /\ OrderInv

LEMMA Invariant == Spec => []IInv
<1>1. Init => IInv
  <2> SUFFICES ASSUME Init PROVE IInv
    OBVIOUS
  <2>1. DOMAIN dst = {} /\ DOMAIN arch = {} /\ pc = "idle"
    BY NoFileType DEF Init
  <2>2. UnpackInv /\ LengthInv /\ QuietInv
    BY <2>1 DEF UnpackInv, LengthInv, QuietInv, Within
  <2>3. OrderInv
    <3>1. \A p \in DOMAIN src : src[p] = <<0>> \/ src[p] = <<0, 0>>
      BY DEF Init
    <3>2. /\ \A k \in DOMAIN <<0>> : <<0>>[k] <= 0
          /\ \A k \in DOMAIN <<0, 0>> : <<0, 0>>[k] <= 0
      OBVIOUS
    <3>3. ver = 0
      BY DEF Init
    <3>4. \A p \in DOMAIN src : \A k \in DOMAIN src[p] : src[p][k] <= ver
      BY <3>1, <3>2, <3>3
    <3> QED
      BY <2>1, <3>4 DEF OrderInv
  <2> QED
    BY <2>2, <2>3, InitType DEF IInv
<1>2. IInv /\ [Next]_vars => IInv'
  BY NextType, UnpackStep, LengthStep, QuietStep, OrderStep DEF IInv
<1> QED
  BY <1>1, <1>2, PTL DEF Spec

LEMMA Unpacked ==
  ASSUME IInv, pc = "ok", NEW p \in DOMAIN arch
  PROVE  /\ p \in DOMAIN dst /\ Begins(dst[p], arch[p])
         /\ ~shrunk => dst[p] = arch[p]
<1>1. p \in DOMAIN dst /\ Starts(dst[p], arch[p])
  BY DEF IInv, UnpackInv
<1>2. dst[p] \in Seq(Version) /\ arch[p] \in Seq(Version)
  BY <1>1, Blocks DEF IInv, TypeOK
<1>3. Begins(dst[p], arch[p])
  BY <1>1, <1>2, BeginsStarts
<1>4. ASSUME ~shrunk PROVE dst[p] = arch[p]
  <2>1. Len(dst[p]) <= Len(arch[p])
    BY <1>1, <1>4 DEF IInv, LengthInv
  <2>2. Len(dst[p]) = Len(arch[p])
    BY <1>1, <1>2, <2>1 DEF Starts
  <2> QED
    BY <1>1, <1>2, <2>2, SeqEqual DEF Starts
<1> QED
  BY <1>1, <1>3, <1>4

\* A pull that succeeds has put every file of its archive on the destination, whatever
\* earlier pulls left there, and nothing behind it unless files became shorter.
THEOREM ArchiveArrives == Spec => []VolumeIsArchive
<1>1. IInv => VolumeIsArchive
  BY Unpacked DEF VolumeIsArchive
<1> QED
  BY <1>1, Invariant, PTL

\* A pull during which the container was quiet leaves the destination up to date.
THEOREM PullsConverge == Spec => []Converges
<1>1. IInv => Converges
  <2> SUFFICES ASSUME IInv, pc = "ok", quiet
               PROVE  /\ \A p \in DOMAIN src : p \in DOMAIN dst /\ Begins(dst[p], src[p])
                      /\ ~shrunk => dst = src
    BY DEF Converges
  <2>1. DOMAIN arch = DOMAIN src /\ \A p \in DOMAIN src : arch[p] = src[p]
    BY DEF IInv, QuietInv
  <2>2. \A p \in DOMAIN src : p \in DOMAIN dst /\ Begins(dst[p], src[p])
    BY <2>1, Unpacked
  <2>3. ASSUME ~shrunk PROVE dst = src
    <3>1. \A p \in DOMAIN src : dst[p] = src[p]
      BY <2>1, <2>3, Unpacked
    <3>2. DOMAIN dst = DOMAIN src
      BY <2>2, <2>3 DEF IInv, LengthInv, Within
    <3> QED
      BY <3>1, <3>2, SameVolume DEF IInv, TypeOK
  <2> QED
    BY <2>2, <2>3
<1> QED
  BY <1>1, Invariant, PTL

\* No pull takes away what is on the destination, nor puts an older block over it.
THEOREM NothingUndone == Spec => NeverOlder
<1> DEFINE Kept == \A p \in DOMAIN dst :
                     /\ p \in DOMAIN dst' /\ Len(dst'[p]) >= Len(dst[p])
                     /\ ~shrunk' => \A k \in DOMAIN dst[p] : dst'[p][k] >= dst[p][k]
<1>1. ASSUME IInv, IInv', [Next]_vars PROVE Kept
  <2>0. /\ \A p \in DOMAIN dst : Len(dst[p]) \in Nat /\ \A k \in DOMAIN dst[p] : dst[p][k] \in Nat
    BY <1>1, Blocks DEF IInv, TypeOK
  <2>1. CASE UNCHANGED dst
    BY <2>0, <2>1
  <2>2. CASE OpenFile
    <3>1. UNCHANGED dst \/ (\A q \in DOMAIN dst : q \in DOMAIN dst' /\ dst'[q] = dst[q])
      BY <1>1, <2>2, OpenFileEffect DEF IInv
    <3> QED
      BY <2>0, <3>1
  <2>3. CASE WriteFile /\ dst' # dst
    <3> DEFINE p == Current
    <3>1. /\ p \in DOMAIN dst /\ p \in DOMAIN arch /\ UNCHANGED shrunk
          /\ DOMAIN dst' = DOMAIN dst /\ IsVolume(dst')
          /\ \A q \in DOMAIN dst \ {p} : dst'[q] = dst[q]
          /\ Len(dst[p]) <= Len(dst'[p])
          /\ \A k \in DOMAIN dst'[p] :
               \/ dst'[p][k] = arch[p][k]
               \/ k \in DOMAIN dst[p] /\ dst'[p][k] = dst[p][k]
      BY <1>1, <2>3, WriteFileEffect DEF IInv
    <3> HIDE DEF p
    <3>2. ASSUME ~shrunk', NEW k \in DOMAIN dst[p] PROVE dst'[p][k] >= dst[p][k]
      <4>1. NotNewer(dst[p], arch[p]) /\ Len(dst[p]) <= Len(arch[p])
        BY <1>1, <3>1, <3>2 DEF IInv, OrderInv, LengthInv
      <4>2. /\ DOMAIN dst[p] = 1..Len(dst[p]) /\ DOMAIN dst'[p] = 1..Len(dst'[p])
            /\ DOMAIN arch[p] = 1..Len(arch[p])
            /\ Len(dst[p]) \in Nat /\ Len(dst'[p]) \in Nat /\ Len(arch[p]) \in Nat
        BY <1>1, <3>1, Blocks DEF IInv, TypeOK
      <4>3. k \in DOMAIN dst'[p] /\ k \in DOMAIN arch[p]
        BY <3>1, <3>2, <4>1, <4>2
      <4>4. dst[p][k] <= arch[p][k] /\ arch[p][k] \in Nat /\ dst[p][k] \in Nat
        BY <1>1, <2>0, <3>1, <4>1, <4>3, Blocks DEF IInv, TypeOK, NotNewer
      <4> QED
        BY <3>1, <4>3, <4>4
    <3>3. Len(dst'[p]) >= Len(dst[p])
      BY <1>1, <2>0, <3>1, Blocks
    <3> QED
      BY <2>0, <3>1, <3>2, <3>3
  <2>4. ASSUME Next, ~OpenFile, ~WriteFile PROVE UNCHANGED dst
    <3>1. CASE \E p \in File : Write(p)
      BY <1>1, <3>1, WriteEffect DEF IInv
    <3>2. CASE Pull
      BY <1>1, <2>4, <3>2, WalkEffect DEF Pull, IInv
    <3> QED
      BY <2>4, <3>1, <3>2 DEF Next
  <2>5. CASE UNCHANGED vars
    BY <2>1, <2>5, IdleEffect
  <2> QED
    BY <1>1, <2>1, <2>2, <2>3, <2>4, <2>5
<1>2. IInv /\ IInv' /\ [Next]_vars => [Kept]_vars
  BY <1>1
<1> QED
  BY <1>2, Invariant, PTL DEF Spec, NeverOlder

=============================================================================
