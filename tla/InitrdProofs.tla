----------------------------- MODULE InitrdProofs -----------------------------
(***************************************************************************)
(* Proofs about Initrd, for every initrd image, every list of mounts, every*)
(* bound on inodes and any number of creates on one snapshot.              *)
(***************************************************************************)
EXTENDS Initrd, WellFoundedInduction, TLAPS

\* While a merge is under way the allocator knows every inode of the archive.
\* Only a merge, which only a Unikraft guest has, appends records with inodes.
InodeInv ==
    /\ TypeOK
    /\ InodesApart
    /\ pc = "copy" => guest = "linux"
    /\ pc = "merge" => \A k \in DOMAIN archive : archive[k].ino \in used

-----------------------------------------------------------------------------
(* The choices of the module are of something.                             *)

Less == {p \in Nat \X Nat : p[1] < p[2]}

\* A set of natural numbers has a least element.
LEMMA LeastNat ==
    ASSUME NEW S \in SUBSET Nat, S # {}
    PROVE  \E i \in S : \A j \in S : i <= j
<1>1. IsWellFoundedOn(Less, Nat)
  BY NatLessThanWellFounded, Zenon DEF OpToRel, Less
<1>2. PICK i \in S : \A j \in S : <<j, i>> \notin Less
  BY <1>1, WFMin, Zenon
<1>3. ASSUME NEW j \in S PROVE i <= j
  <2>1. <<j, i>> \notin Less
    BY <1>2
  <2>2. i \in Nat /\ j \in Nat
    OBVIOUS
  <2>3. ~(j < i)
    BY <2>1, <2>2 DEF Less
  <2> QED
    BY <2>2, <2>3
<1> QED
  BY <1>3

\* The allocator returns an inode that is in its range and not in use.
LEMMA AllocatedIsFree ==
    ASSUME TypeOK, Free # {}
    PROVE  Allocated \in next..MaxInode /\ Allocated \notin used /\ Allocated \in Nat
<1>1. Free \in SUBSET Nat
  BY InodeAssumption DEF Free, TypeOK
<1>2. \E i \in Free : \A j \in Free : i <= j
  BY <1>1, LeastNat
<1>3. Allocated \in Free
  BY <1>2 DEF Allocated
<1> QED
  BY <1>1, <1>3 DEF Free

\* The mount that is added next is one of the container's.
LEMMA CurrentIsMount ==
    ASSUME TypeOK, todo # {}
    PROVE  Current \in todo /\ Current \in DOMAIN mounts /\ mounts[Current] \in BindMounts
<1>1. mounts \in Seq(BindMounts) /\ todo \subseteq DOMAIN mounts
  BY DEF TypeOK
<1>2. DOMAIN mounts \subseteq Nat
  BY <1>1
<1>3. todo \in SUBSET Nat
  BY <1>1, <1>2
<1>4. \E i \in todo : \A j \in todo : i <= j
  BY <1>3, LeastNat
<1>5. Current \in todo
  BY <1>4 DEF Current
<1> QED
  BY <1>1, <1>5

\* A directory that addMissingParents creates has a name, and one that is missing.
LEMMA TopMissingIsName ==
    ASSUME NEW n \in Name, Missing(n) # {}
    PROVE  TopMissing(n) \in Name /\ TopMissing(n) \in Missing(n)
<1>1. ASSUME NEW p \in Missing(n) PROVE p \in Name /\ Len(p) \in Nat
  <2>1. PICK k \in 1..(Len(n) - 1) : p = SubSeq(n, 1, k)
    BY DEF Missing, Parents
  <2>2. Len(n) \in Nat /\ k \in 1..Len(n)
    BY <2>1 DEF Name
  <2> QED
    BY <2>1, <2>2 DEF Name
<1> DEFINE Lens == {Len(p) : p \in Missing(n)}
<1>2. Lens \in SUBSET Nat /\ Lens # {}
  BY <1>1
<1>3. \E i \in Lens : \A j \in Lens : i <= j
  BY <1>2, LeastNat
<1>4. \E p \in Missing(n) : \A q \in Missing(n) : Len(p) <= Len(q)
  BY <1>3
<1>5. TopMissing(n) \in Missing(n)
  BY <1>4 DEF TopMissing
<1> QED
  BY <1>1, <1>5

-----------------------------------------------------------------------------
(* What appending does to the archive.                                     *)

\* An item more leaves the archive well formed and the other items in place.
LEMMA Appended ==
    ASSUME NEW a \in Seq(Items), NEW x \in Items
    PROVE  /\ Append(a, x) \in Seq(Items)
           /\ DOMAIN Append(a, x) = DOMAIN a \cup {Len(a) + 1}
           /\ Append(a, x)[Len(a) + 1] = x
           /\ \A k \in DOMAIN a : Append(a, x)[k] = a[k]
OBVIOUS

\* What an item is made of.
LEMMA ItemType ==
    \A k, n, i, s :
        k \in {"dir", "file", "trailer", "torn"} /\ n \in Name /\ i \in Nat /\ s \in Sources \cup {"image", "parent", "conf"}
        => Item(k, n, i, s) \in Items /\ Item(k, n, i, s).ino = i /\ Item(k, n, i, s).kind = k
BY DEF Item, Items

\* A trailer and a torn record are items, and no records.
LEMMA Marks ==
    /\ Trailer \in Items /\ Torn \in Items
    /\ ~IsRecord(Trailer) /\ ~IsRecord(Torn)
<1>1. <<>> \in Name
  BY DEF Name
<1>2. Trailer \in Items /\ Trailer.kind = "trailer"
  BY <1>1, ItemType DEF Trailer
<1>3. Torn \in Items /\ Torn.kind = "torn"
  BY <1>1, ItemType DEF Torn
<1> QED
  BY <1>2, <1>3 DEF IsRecord

\* Appending what is no record keeps the inodes apart.
LEMMA MarkApart ==
    ASSUME InodeInv, NEW x \in Items, ~IsRecord(x),
           archive' = Append(archive, x), guest' = guest
    PROVE  InodesApart'
<1>1. archive \in Seq(Items)
  BY DEF InodeInv, TypeOK
<1>2. /\ DOMAIN archive' = DOMAIN archive \cup {Len(archive) + 1}
      /\ archive'[Len(archive) + 1] = x
      /\ \A k \in DOMAIN archive : archive'[k] = archive[k]
  BY <1>1, Appended
<1> QED
  BY <1>2 DEF InodeInv, InodesApart

\* So does a record with an inode of its own, if the others' are known.
LEMMA RecordApart ==
    ASSUME InodeInv, pc = "merge", NEW x \in Items, x.ino \notin used,
           archive' = Append(archive, x), guest' = guest
    PROVE  InodesApart'
<1>1. archive \in Seq(Items)
  BY DEF InodeInv, TypeOK
<1>2. /\ DOMAIN archive' = DOMAIN archive \cup {Len(archive) + 1}
      /\ archive'[Len(archive) + 1] = x
      /\ \A k \in DOMAIN archive : archive'[k] = archive[k]
  BY <1>1, Appended
<1>3. \A k \in DOMAIN archive : archive[k].ino # x.ino
  BY DEF InodeInv
<1> QED
  BY <1>2, <1>3 DEF InodeInv, InodesApart

-----------------------------------------------------------------------------
\* The images and the mounts that a container comes with satisfy the invariant.
LEMMA InodeInvInit == Init => InodeInv
<1> SUFFICES ASSUME Init PROVE InodeInv
  OBVIOUS
<1>1. mounts \in Seq(BindMounts) /\ archive \in Seq(Items)
  BY ImageAssumption, MountAssumption DEF Init
<1>2. next \in 1..(MaxInode + 1) /\ creates \in 0..MaxCreates
  BY InodeAssumption DEF Init
<1>3. kind \in [DOMAIN mounts -> {"reg", "other", "gone"}]
  BY DEF Init
<1>4. TypeOK
  BY <1>1, <1>2, <1>3 DEF Init, TypeOK
<1>5. InodesApart
  BY ImageAssumption DEF Init, InodesApart
<1> QED
  BY <1>4, <1>5 DEF Init, InodeInv

\* The steps that leave the archive as it is.
LEMMA InodeInvQuiet ==
    ASSUME InodeInv, archive' = archive, guest' = guest, TypeOK',
           pc' = "copy" => guest = "linux",
           pc' = "merge" => pc = "merge" /\ used \subseteq used'
    PROVE  InodeInv'
BY DEF InodeInv, InodesApart

\* Every step keeps the invariant.
LEMMA InodeInvNext == InodeInv /\ [Next]_vars => InodeInv'
<1> SUFFICES ASSUME InodeInv, [Next]_vars PROVE InodeInv'
  OBVIOUS
<1>t. TypeOK
  BY DEF InodeInv
<1>0. CASE UNCHANGED vars
  BY <1>0 DEF vars, InodeInv, TypeOK, InodesApart
<1>1. ASSUME NEW i \in DOMAIN mounts, SourceChanges(i) PROVE InodeInv'
  <2>1. TypeOK'
    BY <1>1, <1>t DEF SourceChanges, TypeOK
  <2> QED
    BY <1>1, <2>1, InodeInvQuiet DEF SourceChanges, InodeInv
<1>2. CASE MergeBegin
  <2>1. creates' \in 0..MaxCreates
    BY <1>2, <1>t, InodeAssumption DEF MergeBegin, TypeOK
  <2>2. todo' \subseteq DOMAIN mounts
    BY <1>2 DEF MergeBegin, RegularFileBindMounts
  <2>3. pc' \in {"failed", "done", "inspect"}
    BY <1>2 DEF MergeBegin
  <2>4. TypeOK'
    BY <1>2, <1>t, <2>1, <2>2, <2>3 DEF MergeBegin, TypeOK
  <2> QED
    BY <1>2, <2>3, <2>4, InodeInvQuiet DEF MergeBegin
<1>3. CASE MergeInspect
  <2>1. ASSUME NEW t \in DOMAIN archive, TrailerAt(archive, t),
               archive' = SubSeq(archive, 1, t - 1),
               names' = Collected(archive, t).names,
               used' = Collected(archive, t).inodes,
               next' = 1, Goto("merge")
        PROVE  InodeInv'
    <3>1. archive \in Seq(Items) /\ t \in 1..Len(archive) /\ Len(archive) \in Nat
      BY <1>t DEF TypeOK
    <3>2. /\ archive' \in Seq(Items)
          /\ DOMAIN archive' = 1..(t - 1)
          /\ \A k \in 1..(t - 1) : archive'[k] = archive[k]
      BY <3>1, <2>1
    <3>3. \A k \in 1..(t - 1) : k \in DOMAIN archive /\ archive[k] \in Items
      BY <3>1
    <3>4. names' \subseteq Name /\ used' \subseteq Nat
      BY <2>1, <3>3 DEF Collected, Items
    <3>5. next' \in 1..(MaxInode + 1)
      BY <2>1, InodeAssumption
    <3>6. TypeOK'
      BY <1>3, <1>t, <2>1, <3>2, <3>4, <3>5 DEF MergeInspect, Goto, TypeOK
    <3>7. InodesApart'
      BY <2>1, <3>2, <3>3 DEF InodeInv, InodesApart, Goto
    <3>8. \A k \in DOMAIN archive' : archive'[k].ino \in used'
      BY <2>1, <3>2 DEF Collected
    <3> QED
      BY <2>1, <3>6, <3>7, <3>8 DEF InodeInv, Goto
  <2>2. ASSUME Goto("failed"), UNCHANGED <<archive, names, used, next>> PROVE InodeInv'
    <3>1. TypeOK'
      BY <1>3, <1>t, <2>2 DEF MergeInspect, Goto, TypeOK
    <3> QED
      BY <2>2, <3>1, InodeInvQuiet DEF Goto
  <2> QED
    BY <1>3, <2>1, <2>2 DEF MergeInspect
<1>4. CASE MergeParent
  <2> DEFINE dest == mounts[Current].dest
  <2>1. /\ pc = "merge" /\ todo # {} /\ Missing(dest) # {}
        /\ todo' = todo /\ UNCHANGED <<guest, mounts, kind, creates>>
    BY <1>4 DEF MergeParent, Goto
  <2>2. dest \in Name
    BY <1>t, <2>1, CurrentIsMount DEF BindMounts
  <2>3. ASSUME Free = {} PROVE InodeInv'
    <3>1. pc' = "failed" /\ UNCHANGED <<archive, names, used, next>>
      BY <1>4, <2>3 DEF MergeParent, Goto
    <3>2. TypeOK'
      BY <1>t, <2>1, <3>1 DEF TypeOK
    <3> QED
      BY <2>1, <3>1, <3>2, InodeInvQuiet
  <2>4. ASSUME Free # {} PROVE InodeInv'
    <3>1. /\ archive' = Append(archive, Dir(TopMissing(dest), Allocated))
          /\ names' = names \cup {TopMissing(dest)}
          /\ used' = used \cup {Allocated}
          /\ next' = Allocated + 1 /\ pc' = "merge"
      BY <1>4, <2>4 DEF MergeParent, Goto
    <3>2. Allocated \in next..MaxInode /\ Allocated \notin used /\ Allocated \in Nat
      BY <1>t, <2>4, AllocatedIsFree
    <3>3. TopMissing(dest) \in Name
      BY <2>1, <2>2, TopMissingIsName
    <3>4. Dir(TopMissing(dest), Allocated) \in Items /\ Dir(TopMissing(dest), Allocated).ino = Allocated
      BY <3>2, <3>3, ItemType DEF Dir
    <3>5. archive \in Seq(Items)
      BY <1>t DEF TypeOK
    <3>6. /\ archive' \in Seq(Items)
          /\ DOMAIN archive' = DOMAIN archive \cup {Len(archive) + 1}
          /\ archive'[Len(archive) + 1] = Dir(TopMissing(dest), Allocated)
          /\ \A k \in DOMAIN archive : archive'[k] = archive[k]
      BY <3>1, <3>4, <3>5, Appended
    <3>7. next' \in 1..(MaxInode + 1)
      BY <1>t, <3>1, <3>2, InodeAssumption DEF TypeOK
    <3>8. TypeOK'
      BY <1>t, <2>1, <3>1, <3>2, <3>3, <3>6, <3>7 DEF TypeOK
    <3>9. InodesApart'
      BY <2>1, <3>1, <3>2, <3>4, RecordApart
    <3>10. \A k \in DOMAIN archive' : archive'[k].ino \in used'
      BY <2>1, <3>1, <3>4, <3>6 DEF InodeInv
    <3> QED
      BY <3>1, <3>8, <3>9, <3>10 DEF InodeInv
  <2> QED
    BY <2>3, <2>4
<1>5. CASE MergeFile
  <2> DEFINE i == Current
  <2>1. /\ pc = "merge" /\ todo # {}
        /\ UNCHANGED <<guest, mounts, kind, creates>>
    BY <1>5 DEF MergeFile, Goto
  <2>2. i \in DOMAIN mounts /\ mounts[i].dest \in Name /\ mounts[i].src \in Sources
    BY <1>t, <2>1, CurrentIsMount DEF BindMounts
  <2>3. ASSUME Free = {} \/ kind[i] = "gone" PROVE InodeInv'
    <3>1. pc' = "failed" /\ UNCHANGED <<archive, todo, names, used, next>>
      BY <1>5, <2>3 DEF MergeFile, Goto
    <3>2. TypeOK'
      BY <1>t, <2>1, <3>1 DEF TypeOK
    <3> QED
      BY <2>1, <3>1, <3>2, InodeInvQuiet
  <2>4. ASSUME ~(Free = {} \/ kind[i] = "gone") PROVE InodeInv'
    <3> DEFINE x == File(mounts[i].dest, Allocated, mounts[i].src)
    <3>1. /\ archive' = IF kind[i] = "reg" THEN Append(archive, x) ELSE archive
          /\ names' = names \cup {mounts[i].dest}
          /\ used' = used \cup {Allocated}
          /\ next' = Allocated + 1 /\ pc' = "merge"
          /\ todo' = todo \ {i}
      BY <1>5, <2>4 DEF MergeFile, Goto
    <3>2. Allocated \in next..MaxInode /\ Allocated \notin used /\ Allocated \in Nat
      BY <1>t, <2>4, AllocatedIsFree
    <3>3. x \in Items /\ x.ino = Allocated
      BY <2>2, <3>2, ItemType DEF File
    <3>4. archive \in Seq(Items)
      BY <1>t DEF TypeOK
    <3>5. next' \in 1..(MaxInode + 1)
      BY <1>t, <3>1, <3>2, InodeAssumption DEF TypeOK
    <3>6. CASE kind[i] = "reg"
      <4>1. archive' = Append(archive, x)
        BY <3>1, <3>6
      <4>2. /\ archive' \in Seq(Items)
            /\ DOMAIN archive' = DOMAIN archive \cup {Len(archive) + 1}
            /\ archive'[Len(archive) + 1] = x
            /\ \A k \in DOMAIN archive : archive'[k] = archive[k]
        BY <4>1, <3>3, <3>4, Appended
      <4>3. TypeOK'
        BY <1>t, <2>1, <2>2, <3>1, <3>2, <3>5, <4>2 DEF TypeOK
      <4>4. InodesApart'
        BY <2>1, <3>2, <3>3, <4>1, RecordApart
      <4>5. \A k \in DOMAIN archive' : archive'[k].ino \in used'
        BY <2>1, <3>1, <3>3, <4>2 DEF InodeInv
      <4> QED
        BY <3>1, <4>3, <4>4, <4>5 DEF InodeInv
    <3>7. CASE kind[i] # "reg"
      <4>1. archive' = archive
        BY <3>1, <3>7
      <4>2. TypeOK'
        BY <1>t, <2>1, <2>2, <3>1, <3>2, <3>5, <4>1 DEF TypeOK
      <4> QED
        BY <2>1, <3>1, <4>1, <4>2, InodeInvQuiet
    <3> QED
      BY <3>6, <3>7
  <2> QED
    BY <2>3, <2>4
<1>6. CASE CopyBegin
  <2>1. creates' \in 0..MaxCreates
    BY <1>6, <1>t, InodeAssumption DEF CopyBegin, TypeOK
  <2>2. TypeOK'
    BY <1>6, <1>t, <2>1 DEF CopyBegin, TypeOK
  <2> QED
    BY <1>6, <2>2, InodeInvQuiet DEF CopyBegin
<1>7. CASE CopyFile
  <2> DEFINE i == Current
             x == File(mounts[i].dest, 0, mounts[i].src)
  <2>1. /\ pc = "copy" /\ todo # {} /\ guest = "linux"
        /\ UNCHANGED <<guest, mounts, kind, creates, names, used, next>>
    BY <1>7 DEF CopyFile, Goto, InodeInv
  <2>2. i \in DOMAIN mounts /\ x \in Items
    BY <1>t, <2>1, CurrentIsMount, ItemType DEF BindMounts, File
  <2>3. archive' \in {archive, Append(archive, x)} /\ todo' \subseteq todo /\ pc' \in {"copy", "failed"}
    BY <1>7 DEF CopyFile, Goto
  <2>4. archive \in Seq(Items)
    BY <1>t DEF TypeOK
  <2>5. archive' \in Seq(Items)
    BY <2>2, <2>3, <2>4, Appended
  <2>6. TypeOK'
    BY <1>t, <2>1, <2>3, <2>5 DEF TypeOK
  <2> QED
    BY <2>1, <2>3, <2>6 DEF InodeInv, InodesApart
<1>8. CASE WriterClose
  <2>1. /\ archive' = Append(archive, Trailer) /\ pc' = "done"
        /\ UNCHANGED <<guest, mounts, kind, creates, todo, names, used, next>>
    BY <1>8 DEF WriterClose, Goto
  <2>2. archive' \in Seq(Items)
    BY <1>t, <2>1, Marks, Appended DEF TypeOK
  <2>3. TypeOK'
    BY <1>t, <2>1, <2>2 DEF TypeOK
  <2>4. InodesApart'
    BY <2>1, Marks, MarkApart
  <2> QED
    BY <2>1, <2>3, <2>4 DEF InodeInv
<1>9. CASE AddFileToInitrd
  <2>1. /\ archive' = Append(archive, UrunitConf) /\ pc' = "conf" /\ guest = "linux"
        /\ UNCHANGED <<guest, mounts, kind, creates, todo, names, used, next>>
    BY <1>9 DEF AddFileToInitrd, Goto
  <2>9. <<"urunit.conf">> \in Name
    BY DEF Name
  <2>2. UrunitConf \in Items
    BY <2>9, ItemType DEF UrunitConf, File
  <2>3. archive' \in Seq(Items)
    BY <1>t, <2>1, <2>2, Appended DEF TypeOK
  <2>4. TypeOK'
    BY <1>t, <2>1, <2>3 DEF TypeOK
  <2> QED
    BY <2>1, <2>4 DEF InodeInv, InodesApart
<1>10. CASE AddFileClose
  <2>1. /\ archive' = Append(archive, Trailer) /\ pc' = "booted"
        /\ UNCHANGED <<guest, mounts, kind, creates, todo, names, used, next>>
    BY <1>10 DEF AddFileClose, Goto
  <2>2. archive' \in Seq(Items)
    BY <1>t, <2>1, Marks, Appended DEF TypeOK
  <2>3. TypeOK'
    BY <1>t, <2>1, <2>2 DEF TypeOK
  <2>4. InodesApart'
    BY <2>1, Marks, MarkApart
  <2> QED
    BY <2>1, <2>3, <2>4 DEF InodeInv
<1>11. CASE WriteBreaks
  <2>1. /\ archive' \in {archive, Append(archive, Torn)} /\ pc' = "failed"
        /\ UNCHANGED <<guest, mounts, kind, creates, todo, names, used, next>>
    BY <1>11 DEF WriteBreaks, Goto
  <2>2. archive' \in Seq(Items)
    <3>1. archive \in Seq(Items)
      BY <1>t DEF TypeOK
    <3>2. Append(archive, Torn) \in Seq(Items)
      BY <3>1, Marks, Appended
    <3> QED
      BY <2>1, <3>1, <3>2
  <2>3. TypeOK'
    BY <1>t, <2>1, <2>2 DEF TypeOK
  <2>4. CASE archive' = archive
    BY <2>1, <2>3, <2>4, InodeInvQuiet
  <2>5. CASE archive' = Append(archive, Torn)
    <3>1. InodesApart'
      BY <2>1, <2>5, Marks, MarkApart
    <3> QED
      BY <2>1, <2>3, <3>1 DEF InodeInv
  <2> QED
    BY <2>1, <2>4, <2>5
<1>12. CASE Again
  <2>1. TypeOK'
    BY <1>12, <1>t DEF Again, Goto, TypeOK
  <2> QED
    BY <1>12, <2>1, InodeInvQuiet DEF Again, Goto
<1> QED
  BY <1>0, <1>1, <1>2, <1>3, <1>4, <1>5, <1>6, <1>7, <1>8, <1>9, <1>10, <1>11, <1>12
  DEF Next, PostSetup

\* Type correctness of the archive, the allocator and the list of mounts that
\* MergeFileMountsIntoInitrd and CopyFileMountsToInitrd work on.
THEOREM InitrdTypeCorrect == Spec => []TypeOK
<1>1. InodeInv => TypeOK
  BY DEF InodeInv
<1> QED
  BY <1>1, InodeInvInit, InodeInvNext, PTL DEF Spec

\* inodeAllocator keeps its promise: whatever inodes the image uses, however
\* often the container is created on the snapshot and wherever a create is
\* killed, no record merged into a Unikraft initrd shares its inode.
THEOREM InodesStayApart == Spec => []InodesApart
<1>1. InodeInv => InodesApart
  BY DEF InodeInv
<1> QED
  BY <1>1, InodeInvInit, InodeInvNext, PTL DEF Spec

-----------------------------------------------------------------------------
(* The mounts are visible.                                                 *)

\* A merge is Unikraft's, everything after a copy Linux's.
Guests ==
    /\ pc \in {"inspect", "merge"} => guest = "unikraft"
    /\ pc \in {"copy", "conf", "booted"} => guest = "linux"

\* A Unikraft initrd has the image's files and the mounts'.
FilesKnown ==
    guest = "unikraft" =>
        \A j \in DOMAIN archive : archive[j].kind = "file" =>
            \/ \E k \in DOMAIN image : image[k].kind = "file" /\ image[k].name = archive[j].name
            \/ \E m \in DOMAIN mounts : mounts[m].dest = archive[j].name

\* A Linux initrd begins with the image and goes on with files of the mounts
\* and the urunit configuration.
BeginsWithImage ==
    guest = "linux" =>
        /\ DOMAIN image \subseteq DOMAIN archive
        /\ \A j \in DOMAIN image : archive[j] = image[j]
        /\ \A j \in DOMAIN archive \ DOMAIN image :
             /\ archive[j].kind # "dir"
             /\ IsRecord(archive[j]) => \/ archive[j].name = UrunitConf.name
                                        \/ \E m \in DOMAIN mounts : mounts[m].dest = archive[j].name

\* In a merge the archive has only records, whose names are those in names, but
\* for the destination of a mount that was passed over.
NamesHold ==
    pc = "merge" =>
        /\ \A j \in DOMAIN archive : IsRecord(archive[j]) /\ archive[j].name \in names
        /\ \A n \in names : \/ \E j \in DOMAIN archive : archive[j].name = n
                            \/ \E m \in DOMAIN mounts : mounts[m].dest = n

\* The file of mount i is in the archive, the last one of its name, with its
\* parents before it.
Written(i) ==
    \E x \in DOMAIN archive :
        /\ archive[x].kind = "file" /\ archive[x].name = mounts[i].dest
        /\ archive[x].src = mounts[i].src
        /\ \A y \in DOMAIN archive : y > x /\ IsRecord(archive[y]) => archive[y].name # mounts[i].dest
        /\ guest = "linux" => x \notin DOMAIN image
        /\ guest = "unikraft" =>
             \A p \in Parents(mounts[i].dest) :
                 \E j \in DOMAIN archive : j < x /\ archive[j].kind = "dir" /\ archive[j].name = p

\* So are all that the create has come past.
MountsWritten ==
    /\ pc = "inspect" => \A i \in DOMAIN mounts : kind[i] = "reg" => i \in todo
    /\ pc \in {"merge", "copy", "done", "conf", "booted"} =>
         \A i \in DOMAIN mounts : kind[i] = "reg" /\ i \notin todo /\ Undisturbed(i) => Written(i)

\* A create that was successful has closed the archive.
Closed ==
    /\ pc \in {"done", "conf", "booted"} => todo = {}
    /\ pc = "done" /\ guest = "unikraft" =>
         \/ \A i \in DOMAIN mounts : kind[i] # "reg"
         \/ TrailerAt(archive, Len(archive))

SeenInv ==
    /\ InodeInv /\ image \in Seq(Items)
    /\ Guests /\ FilesKnown /\ BeginsWithImage /\ NamesHold /\ MountsWritten /\ Closed

\* The parts of an item.
LEMMA ItemParts ==
    ASSUME NEW k, NEW n, NEW i, NEW s
    PROVE  Item(k, n, i, s).kind = k /\ Item(k, n, i, s).name = n /\ Item(k, n, i, s).src = s
BY DEF Item

\* The archive up to its trailer.
LEMMA CutOff ==
    ASSUME NEW a \in Seq(Items), NEW t \in DOMAIN a
    PROVE  /\ DOMAIN SubSeq(a, 1, t - 1) = 1..(t - 1)
           /\ 1..(t - 1) \subseteq DOMAIN a
           /\ \A k \in 1..(t - 1) : SubSeq(a, 1, t - 1)[k] = a[k]
<1>1. t \in 1..Len(a) /\ Len(a) \in Nat
  OBVIOUS
<1>2. /\ DOMAIN SubSeq(a, 1, t - 1) = 1..(t - 1)
      /\ \A k \in 1..(t - 1) : SubSeq(a, 1, t - 1)[k] = a[k]
  BY <1>1
<1>3. 1..(t - 1) \subseteq DOMAIN a
  BY <1>1
<1> QED
  BY <1>2, <1>3

\* No step changes what the container comes with, and no source becomes a
\* regular file.
LEMMA Given ==
    ASSUME InodeInv, [Next]_vars
    PROVE  /\ UNCHANGED <<guest, mounts, image>>
           /\ \A i \in DOMAIN mounts : kind'[i] = "reg" => kind[i] = "reg"
<1>1. CASE \E i \in DOMAIN mounts : SourceChanges(i)
  <2>1. PICK i \in DOMAIN mounts : SourceChanges(i)
    BY <1>1
  <2>2. /\ UNCHANGED <<guest, mounts, image>>
        /\ \E k \in {"other", "gone"} : kind' = [kind EXCEPT ![i] = k]
    BY <2>1 DEF SourceChanges
  <2>3. kind \in [DOMAIN mounts -> {"reg", "other", "gone"}]
    BY DEF InodeInv, TypeOK
  <2> QED
    BY <2>2, <2>3
<1>2. CASE ~ \E i \in DOMAIN mounts : SourceChanges(i)
  <2>1. UNCHANGED <<guest, mounts, image, kind>>
    BY <1>2 DEF Next, vars, Goto, PostSetup, MergeBegin, CopyBegin, MergeInspect, MergeParent,
                MergeFile, CopyFile, WriterClose, AddFileToInitrd, AddFileClose, WriteBreaks, Again
  <2> QED
    BY <2>1
<1> QED
  BY <1>1, <1>2

\* An item more, of a file that is a mount's or the configuration, or of none.
LEMMA FilesAppend ==
    ASSUME SeenInv, NEW x \in Items, archive' = Append(archive, x), UNCHANGED <<guest, mounts, image>>,
           guest = "unikraft" /\ x.kind = "file" => \E m \in DOMAIN mounts : mounts[m].dest = x.name,
           guest = "linux" =>
              /\ x.kind # "dir"
              /\ IsRecord(x) => \/ x.name = UrunitConf.name
                                \/ \E m \in DOMAIN mounts : mounts[m].dest = x.name
    PROVE  FilesKnown' /\ BeginsWithImage'
<1>1. archive \in Seq(Items)
  BY DEF SeenInv, InodeInv, TypeOK
<1>2. /\ DOMAIN archive' = DOMAIN archive \cup {Len(archive) + 1}
      /\ archive'[Len(archive) + 1] = x
      /\ \A k \in DOMAIN archive : archive'[k] = archive[k]
  BY <1>1, Appended
<1>3. FilesKnown'
  BY <1>2 DEF SeenInv, FilesKnown
<1>4. BeginsWithImage'
  <2> SUFFICES ASSUME guest = "linux"
               PROVE  /\ DOMAIN image \subseteq DOMAIN archive'
                      /\ \A j \in DOMAIN image : archive'[j] = image[j]
                      /\ \A j \in DOMAIN archive' \ DOMAIN image :
                           /\ archive'[j].kind # "dir"
                           /\ IsRecord(archive'[j]) =>
                                \/ archive'[j].name = UrunitConf.name
                                \/ \E m \in DOMAIN mounts : mounts[m].dest = archive'[j].name
    BY DEF BeginsWithImage
  <2>1. /\ DOMAIN image \subseteq DOMAIN archive
        /\ \A j \in DOMAIN image : archive[j] = image[j]
        /\ \A j \in DOMAIN archive \ DOMAIN image :
             /\ archive[j].kind # "dir"
             /\ IsRecord(archive[j]) => \/ archive[j].name = UrunitConf.name
                                        \/ \E m \in DOMAIN mounts : mounts[m].dest = archive[j].name
    BY DEF SeenInv, BeginsWithImage
  <2> QED
    BY <1>2, <2>1
<1> QED
  BY <1>3, <1>4

\* A file that is there stays the last one of its name.
LEMMA WrittenStays ==
    ASSUME SeenInv, NEW x \in Items, archive' = Append(archive, x), UNCHANGED <<guest, mounts, image>>,
           NEW i \in DOMAIN mounts, Written(i), IsRecord(x) => x.name # mounts[i].dest
    PROVE  Written(i)'
<1>1. archive \in Seq(Items)
  BY DEF SeenInv, InodeInv, TypeOK
<1>2. /\ DOMAIN archive' = DOMAIN archive \cup {Len(archive) + 1}
      /\ archive'[Len(archive) + 1] = x
      /\ \A k \in DOMAIN archive : archive'[k] = archive[k]
  BY <1>1, Appended
<1>3. PICK w \in DOMAIN archive :
        /\ archive[w].kind = "file" /\ archive[w].name = mounts[i].dest
        /\ archive[w].src = mounts[i].src
        /\ \A y \in DOMAIN archive : y > w /\ IsRecord(archive[y]) => archive[y].name # mounts[i].dest
        /\ guest = "linux" => w \notin DOMAIN image
        /\ guest = "unikraft" =>
             \A p \in Parents(mounts[i].dest) :
                 \E j \in DOMAIN archive : j < w /\ archive[j].kind = "dir" /\ archive[j].name = p
  BY DEF Written
<1>4. w \in DOMAIN archive' /\ archive'[w] = archive[w]
  BY <1>2
<1>5. \A y \in DOMAIN archive' : y > w /\ IsRecord(archive'[y]) => archive'[y].name # mounts[i].dest
  BY <1>2, <1>3
<1>6. guest = "unikraft" =>
        \A p \in Parents(mounts[i].dest) :
            \E j \in DOMAIN archive' : j < w /\ archive'[j].kind = "dir" /\ archive'[j].name = p
  BY <1>2, <1>3
<1>7. mounts' = mounts /\ image' = image /\ guest' = guest
  OBVIOUS
<1>8. /\ archive'[w].kind = "file" /\ archive'[w].name = mounts'[i].dest
      /\ archive'[w].src = mounts'[i].src
      /\ guest' = "linux" => w \notin DOMAIN image'
  BY <1>3, <1>4, <1>7
<1>9. /\ \A y \in DOMAIN archive' : y > w /\ IsRecord(archive'[y]) => archive'[y].name # mounts'[i].dest
      /\ guest' = "unikraft" =>
           \A p \in Parents(mounts'[i].dest) :
               \E j \in DOMAIN archive' : j < w /\ archive'[j].kind = "dir" /\ archive'[j].name = p
  BY <1>5, <1>6, <1>7
<1> QED
  BY <1>4, <1>8, <1>9, Zenon DEF Written

\* One that is appended is.
LEMMA WrittenNow ==
    ASSUME SeenInv, NEW i \in DOMAIN mounts, NEW n \in Nat,
           archive' = Append(archive, File(mounts[i].dest, n, mounts[i].src)),
           UNCHANGED <<guest, mounts, image>>,
           guest = "unikraft" =>
             \A p \in Parents(mounts[i].dest) :
                 \E j \in DOMAIN archive : archive[j].kind = "dir" /\ archive[j].name = p
    PROVE  Written(i)'
<1> DEFINE x == File(mounts[i].dest, n, mounts[i].src)
           w == Len(archive) + 1
<1>1. archive \in Seq(Items) /\ mounts[i] \in BindMounts
  BY DEF SeenInv, InodeInv, TypeOK
<1>2. x \in Items /\ x.kind = "file" /\ x.name = mounts[i].dest /\ x.src = mounts[i].src
  <2>1. mounts[i].dest \in Name /\ mounts[i].src \in Sources
    BY <1>1 DEF BindMounts
  <2> QED
    BY <2>1, ItemType, ItemParts DEF File
<1> HIDE DEF x
<1>3. /\ DOMAIN archive' = DOMAIN archive \cup {w}
      /\ archive'[w] = x
      /\ \A k \in DOMAIN archive : archive'[k] = archive[k]
  BY <1>1, <1>2, Appended DEF x
<1>4. \A k \in DOMAIN archive : k < w
  BY <1>1
<1>5. ~(w < w) /\ w \notin DOMAIN archive
  BY <1>1
<1>6. \A y \in DOMAIN archive' : ~(y > w)
  BY <1>1, <1>3, <1>4
<1>7. guest = "linux" => w \notin DOMAIN image
  BY <1>5 DEF SeenInv, BeginsWithImage
<1> HIDE DEF w
<1>8. guest = "unikraft" =>
        \A p \in Parents(mounts[i].dest) :
            \E j \in DOMAIN archive' : j < w /\ archive'[j].kind = "dir" /\ archive'[j].name = p
  BY <1>3, <1>4
<1>9. w \in DOMAIN archive'
  BY <1>3
<1> QED
  BY <1>2, <1>3, <1>6, <1>7, <1>8, <1>9 DEF Written, Parents

\* Where the archive stays as it is, so do its files.
LEMMA WrittenSame ==
    ASSUME UNCHANGED <<guest, mounts, image, archive>>, NEW i
    PROVE  Written(i)' <=> Written(i)
BY DEF Written, Parents

LEMMA UndisturbedSame ==
    ASSUME UNCHANGED <<mounts, image>>, NEW i
    PROVE  Undisturbed(i)' <=> Undisturbed(i)
BY DEF Undisturbed, Parents, UrunitConf, File, Item

\* The parents of a file that is about to be merged are directories.
LEMMA ParentsAreThere ==
    ASSUME SeenInv, pc = "merge", NEW i \in DOMAIN mounts, Undisturbed(i),
           Missing(mounts[i].dest) = {}, NEW p \in Parents(mounts[i].dest)
    PROVE  \E j \in DOMAIN archive : archive[j].kind = "dir" /\ archive[j].name = p
<1>1. p \in names
  BY DEF Missing
<1>2. \A m \in DOMAIN mounts : mounts[m].dest # p
  BY DEF Undisturbed
<1>3. PICK j \in DOMAIN archive : archive[j].name = p
  BY <1>1, <1>2 DEF SeenInv, NamesHold
<1>4. IsRecord(archive[j])
  BY DEF SeenInv, NamesHold
<1>5. archive[j].kind # "file"
  <2>1. guest = "unikraft"
    BY DEF SeenInv, Guests
  <2> QED
    BY <1>2, <1>3, <2>1 DEF SeenInv, FilesKnown, Undisturbed
<1> QED
  BY <1>3, <1>4, <1>5 DEF IsRecord

\* What is left to show of a step that does not touch the archive.
LEMMA SeenQuiet ==
    ASSUME SeenInv, InodeInv', UNCHANGED <<guest, mounts, image, archive>>,
           Guests', NamesHold', MountsWritten', Closed'
    PROVE  SeenInv'
<1>1. FilesKnown' /\ BeginsWithImage'
  BY DEF SeenInv, FilesKnown, BeginsWithImage
<1> QED
  BY <1>1 DEF SeenInv

\* A create that stops, or is not begun yet, has promised nothing.
LEMMA SeenStops ==
    ASSUME SeenInv, InodeInv', UNCHANGED <<guest, mounts, image, archive>>, pc' \in {"failed", "idle"}
    PROVE  SeenInv'
<1>1. Guests' /\ NamesHold' /\ MountsWritten' /\ Closed'
  BY DEF Guests, NamesHold, MountsWritten, Closed
<1> QED
  BY <1>1, SeenQuiet

LEMMA SeenInvInit == Init => SeenInv
<1> SUFFICES ASSUME Init PROVE SeenInv
  OBVIOUS
<1>1. InodeInv /\ image \in Seq(Items)
  BY InodeInvInit, ImageAssumption DEF Init
<1>2. archive = image /\ pc = "idle"
  BY DEF Init
<1>3. FilesKnown /\ BeginsWithImage
  BY <1>2 DEF FilesKnown, BeginsWithImage
<1> QED
  BY <1>1, <1>2, <1>3 DEF SeenInv, Guests, NamesHold, MountsWritten, Closed

\* The files that were there are there where the archive stays as it is.
LEMMA MountsQuiet ==
    ASSUME SeenInv, UNCHANGED <<guest, mounts, image, archive>>, pc' = pc,
           \A i \in DOMAIN mounts : kind'[i] = "reg" => kind[i] = "reg",
           todo \subseteq todo' \cup {i \in DOMAIN mounts : kind'[i] # "reg"}
    PROVE  MountsWritten'
<1>1. pc = "inspect" => \A i \in DOMAIN mounts : kind'[i] = "reg" => i \in todo'
  BY DEF SeenInv, MountsWritten
<1>2. ASSUME pc \in {"merge", "copy", "done", "conf", "booted"}, NEW i \in DOMAIN mounts,
             kind'[i] = "reg", i \notin todo', Undisturbed(i)'
      PROVE  Written(i)'
  <2>1. kind[i] = "reg" /\ i \notin todo
    BY <1>2
  <2>2. Undisturbed(i)
    BY <1>2, UndisturbedSame
  <2>3. Written(i)
    BY <1>2, <2>1, <2>2 DEF SeenInv, MountsWritten
  <2> QED
    BY <2>3, WrittenSame
<1>3. mounts' = mounts /\ pc' = pc
  OBVIOUS
<1> QED
  BY <1>1, <1>2, <1>3 DEF MountsWritten

\* And behind them an item that is of another name.
LEMMA MountsAppend ==
    ASSUME SeenInv, UNCHANGED <<guest, mounts, image, kind, todo>>, NEW x \in Items,
           archive' = Append(archive, x),
           pc \in {"merge", "copy", "done", "conf", "booted"}, pc' # "inspect",
           \A i \in DOMAIN mounts : Undisturbed(i) /\ Written(i) /\ IsRecord(x) => x.name # mounts[i].dest
    PROVE  MountsWritten'
<1>1. ASSUME NEW i \in DOMAIN mounts, kind[i] = "reg", i \notin todo, Undisturbed(i)'
      PROVE  Written(i)'
  <2>1. Undisturbed(i)
    BY <1>1, UndisturbedSame
  <2>2. Written(i)
    BY <1>1, <2>1 DEF SeenInv, MountsWritten
  <2> QED
    BY <2>1, <2>2, WrittenStays
<1>2. mounts' = mounts /\ kind' = kind /\ todo' = todo
  OBVIOUS
<1> QED
  BY <1>1, <1>2 DEF MountsWritten

\* And with them the file of the mount that is next.
LEMMA MountsFile ==
    ASSUME SeenInv, UNCHANGED <<guest, mounts, image, kind>>,
           pc \in {"merge", "copy"}, pc' = pc, NEW c \in todo, todo' = todo \ {c}, NEW n \in Nat,
           archive' = Append(archive, File(mounts[c].dest, n, mounts[c].src)),
           Undisturbed(c) /\ guest = "unikraft" =>
             \A p \in Parents(mounts[c].dest) :
                 \E j \in DOMAIN archive : archive[j].kind = "dir" /\ archive[j].name = p
    PROVE  MountsWritten'
<1> DEFINE x == File(mounts[c].dest, n, mounts[c].src)
<1>1. c \in DOMAIN mounts /\ mounts[c] \in BindMounts
  BY DEF SeenInv, InodeInv, TypeOK
<1>2. x \in Items /\ x.name = mounts[c].dest
  <2>1. mounts[c].dest \in Name /\ mounts[c].src \in Sources
    BY <1>1 DEF BindMounts
  <2> QED
    BY <2>1, ItemType, ItemParts DEF File
<1>3. ASSUME NEW i \in DOMAIN mounts, kind[i] = "reg", i \notin todo', Undisturbed(i)'
      PROVE  Written(i)'
  <2>1. Undisturbed(i)
    BY <1>3, UndisturbedSame
  <2>2. CASE i = c
    <3>1. guest = "unikraft" =>
             \A p \in Parents(mounts[c].dest) :
                 \E j \in DOMAIN archive : archive[j].kind = "dir" /\ archive[j].name = p
      BY <2>1, <2>2
    <3>2. Written(c)'
      BY <1>1, <3>1, WrittenNow
    <3> QED
      BY <2>2, <3>2
  <2>3. CASE i # c
    <3>1. i \notin todo
      BY <1>3, <2>3
    <3>2. Written(i)
      BY <1>3, <2>1, <3>1 DEF SeenInv, MountsWritten
    <3>3. x.name # mounts[i].dest
      BY <1>1, <1>2, <2>1, <2>3 DEF Undisturbed
    <3> HIDE DEF x
    <3>4. archive' = Append(archive, x)
      BY DEF x
    <3> QED
      BY <1>2, <3>2, <3>3, <3>4, WrittenStays
  <2> QED
    BY <2>2, <2>3
<1>4. mounts' = mounts /\ kind' = kind /\ pc' # "inspect"
  OBVIOUS
<1> QED
  BY <1>3, <1>4 DEF MountsWritten

\* In a merge an item that is a record of a known name keeps the names known.
LEMMA NamesAppend ==
    ASSUME SeenInv, pc = "merge", NEW x \in Items, IsRecord(x), UNCHANGED mounts,
           archive' = Append(archive, x), names' = names \cup {x.name}
    PROVE  NamesHold'
<1>1. archive \in Seq(Items)
  BY DEF SeenInv, InodeInv, TypeOK
<1>2. /\ DOMAIN archive' = DOMAIN archive \cup {Len(archive) + 1}
      /\ archive'[Len(archive) + 1] = x
      /\ \A k \in DOMAIN archive : archive'[k] = archive[k]
  BY <1>1, Appended
<1>3. /\ \A j \in DOMAIN archive : IsRecord(archive[j]) /\ archive[j].name \in names
      /\ \A n \in names : \/ \E j \in DOMAIN archive : archive[j].name = n
                          \/ \E m \in DOMAIN mounts : mounts[m].dest = n
  BY DEF SeenInv, NamesHold
<1>4. \A j \in DOMAIN archive' : IsRecord(archive'[j]) /\ archive'[j].name \in names'
  BY <1>2, <1>3
<1>5. ASSUME NEW n \in names'
      PROVE  \/ \E j \in DOMAIN archive' : archive'[j].name = n
             \/ \E m \in DOMAIN mounts' : mounts'[m].dest = n
  <2>1. CASE n = x.name
    BY <1>2, <2>1
  <2>2. CASE n \in names
    BY <1>2, <1>3, <2>2
  <2> QED
    BY <2>1, <2>2
<1> QED
  BY <1>4, <1>5 DEF NamesHold

\* Every step keeps it.
LEMMA SeenInvNext == SeenInv /\ [Next]_vars => SeenInv'
<1> SUFFICES ASSUME SeenInv, [Next]_vars PROVE SeenInv'
  OBVIOUS
<1>i. InodeInv /\ InodeInv' /\ TypeOK
  BY InodeInvNext DEF SeenInv, InodeInv
<1>g. /\ guest' = guest /\ mounts' = mounts /\ image' = image
      /\ \A i \in DOMAIN mounts : kind'[i] = "reg" => kind[i] = "reg"
  BY <1>i, Given
<1>a. archive \in Seq(Items) /\ Len(archive) \in Nat /\ DOMAIN archive = 1..Len(archive)
  BY <1>i DEF TypeOK
<1>s. ASSUME archive' = archive, pc' \in {"failed", "idle"} PROVE SeenInv'
  BY <1>i, <1>g, <1>s, SeenStops
<1>q. ASSUME UNCHANGED <<archive, pc, todo, names>> PROVE SeenInv'
  <2>1. MountsWritten'
    BY <1>g, <1>q, MountsQuiet
  <2>2. Guests' /\ NamesHold'
    BY <1>g, <1>q DEF SeenInv, Guests, NamesHold
  <2>3. Closed'
    BY <1>g, <1>q DEF SeenInv, Closed
  <2> QED
    BY <1>i, <1>g, <1>q, <2>1, <2>2, <2>3, SeenQuiet
<1>0. CASE UNCHANGED vars
  BY <1>0, <1>q DEF vars
<1>1. ASSUME NEW i \in DOMAIN mounts, SourceChanges(i) PROVE SeenInv'
  BY <1>1, <1>q DEF SourceChanges
<1>2. CASE MergeBegin
  <2>1. /\ guest = "unikraft" /\ archive' = archive /\ kind' = kind
        /\ \/ pc' = "failed"
           \/ pc' = "inspect" /\ todo' = {i \in DOMAIN mounts : kind[i] = "reg"}
           \/ pc' = "done" /\ todo' = {} /\ \A i \in DOMAIN mounts : kind[i] # "reg"
    BY <1>2 DEF MergeBegin, RegularFileBindMounts
  <2>2. CASE pc' = "failed"
    BY <1>s, <2>1, <2>2
  <2>3. CASE pc' # "failed"
    <3>1. Guests' /\ NamesHold'
      BY <1>g, <2>1, <2>3 DEF Guests, NamesHold
    <3>2. MountsWritten' /\ Closed'
      BY <1>g, <2>1, <2>3 DEF MountsWritten, Closed
    <3> QED
      BY <1>i, <1>g, <2>1, <3>1, <3>2, SeenQuiet
  <2> QED
    BY <2>2, <2>3
<1>3. CASE MergeInspect
  <2>1. ASSUME NEW t \in DOMAIN archive, TrailerAt(archive, t),
               archive' = SubSeq(archive, 1, t - 1),
               names' = Collected(archive, t).names, Goto("merge")
        PROVE  SeenInv'
    <3>1. pc = "inspect" /\ pc' = "merge" /\ kind' = kind /\ todo' = todo /\ guest = "unikraft"
      BY <1>3, <2>1 DEF MergeInspect, Goto, SeenInv, Guests
    <3>2. /\ DOMAIN archive' = 1..(t - 1)
          /\ 1..(t - 1) \subseteq DOMAIN archive
          /\ \A k \in 1..(t - 1) : archive'[k] = archive[k]
      BY <1>a, <2>1, CutOff
    <3>3. \A k \in 1..(t - 1) : IsRecord(archive[k])
      BY <2>1 DEF TrailerAt
    <3>4. names' = {archive[j].name : j \in 1..(t - 1)}
      BY <2>1 DEF Collected
    <3>5. NamesHold'
      BY <3>2, <3>3, <3>4 DEF NamesHold
    <3>6. MountsWritten'
      <4>1. \A i \in DOMAIN mounts : kind[i] = "reg" => i \in todo
        BY <3>1 DEF SeenInv, MountsWritten
      <4> QED
        BY <1>g, <3>1, <4>1 DEF MountsWritten
    <3>7. FilesKnown' /\ BeginsWithImage'
      BY <1>g, <3>1, <3>2 DEF SeenInv, FilesKnown, BeginsWithImage
    <3>8. Guests' /\ Closed'
      BY <1>g, <3>1 DEF Guests, Closed
    <3> QED
      BY <1>i, <1>g, <3>5, <3>6, <3>7, <3>8 DEF SeenInv
  <2>2. ASSUME Goto("failed"), UNCHANGED <<archive, names, used, next>> PROVE SeenInv'
    BY <1>s, <2>2 DEF Goto
  <2> QED
    BY <1>3, <2>1, <2>2 DEF MergeInspect
<1>4. CASE MergeParent
  <2> DEFINE dest == mounts[Current].dest
             x == Dir(TopMissing(dest), Allocated)
  <2>1. pc = "merge" /\ todo # {} /\ Missing(dest) # {} /\ todo' = todo /\ kind' = kind
    BY <1>4 DEF MergeParent, Goto
  <2>2. dest \in Name /\ guest = "unikraft"
    BY <1>i, <2>1, CurrentIsMount DEF BindMounts, SeenInv, Guests
  <2>3. CASE Free = {}
    BY <1>4, <1>s, <2>3 DEF MergeParent, Goto
  <2>4. CASE Free # {}
    <3>1. archive' = Append(archive, x) /\ names' = names \cup {TopMissing(dest)} /\ pc' = "merge"
      BY <1>4, <2>4 DEF MergeParent, Goto
    <3>2. Allocated \in Nat
      BY <1>i, <2>4, AllocatedIsFree
    <3>3. TopMissing(dest) \in Name /\ TopMissing(dest) \notin names
      BY <2>1, <2>2, TopMissingIsName DEF Missing
    <3>4. x \in Items /\ x.kind = "dir" /\ x.name = TopMissing(dest)
      BY <3>2, <3>3, ItemType, ItemParts DEF Dir
    <3> HIDE DEF x, dest
    <3>5. NamesHold'
      BY <1>g, <2>1, <3>1, <3>4, NamesAppend DEF IsRecord
    <3>6. FilesKnown' /\ BeginsWithImage'
      BY <1>g, <2>2, <3>1, <3>4, FilesAppend
    <3>7. \A i \in DOMAIN mounts : Written(i) => mounts[i].dest \in names
      BY <2>1 DEF SeenInv, NamesHold, Written
    <3>8. MountsWritten'
      BY <1>g, <2>1, <3>1, <3>3, <3>4, <3>7, MountsAppend
    <3>9. Guests' /\ Closed'
      BY <1>g, <2>2, <3>1 DEF Guests, Closed
    <3> QED
      BY <1>i, <1>g, <3>5, <3>6, <3>8, <3>9 DEF SeenInv
  <2> QED
    BY <2>3, <2>4
<1>5. CASE MergeFile
  <2> DEFINE c == Current
             x == File(mounts[c].dest, Allocated, mounts[c].src)
  <2>1. pc = "merge" /\ todo # {} /\ kind' = kind /\ guest = "unikraft" /\ Missing(mounts[c].dest) = {}
    BY <1>5 DEF MergeFile, Goto, SeenInv, Guests
  <2>2. /\ c \in todo /\ c \in DOMAIN mounts
        /\ mounts[c].dest \in Name /\ mounts[c].src \in Sources
    BY <1>i, <2>1, CurrentIsMount DEF BindMounts
  <2>3. CASE Free = {} \/ kind[c] = "gone"
    BY <1>5, <1>s, <2>3 DEF MergeFile, Goto
  <2>4. CASE ~(Free = {} \/ kind[c] = "gone")
    <3>1. /\ archive' = IF kind[c] = "reg" THEN Append(archive, x) ELSE archive
          /\ names' = names \cup {mounts[c].dest}
          /\ pc' = "merge" /\ todo' = todo \ {c}
      BY <1>5, <2>4 DEF MergeFile, Goto
    <3>2. Allocated \in Nat
      BY <1>i, <2>4, AllocatedIsFree
    <3>3. x \in Items /\ x.kind = "file" /\ x.name = mounts[c].dest
      BY <2>2, <3>2, ItemType, ItemParts DEF File
    <3>4. Guests' /\ Closed'
      BY <1>g, <2>1, <3>1 DEF Guests, Closed
    <3> HIDE DEF c
    <3>5. CASE kind[c] = "reg"
      <4>1. archive' = Append(archive, x)
        BY <3>1, <3>5
      <4>2. ASSUME Undisturbed(c), NEW p \in Parents(mounts[c].dest)
            PROVE  \E j \in DOMAIN archive : archive[j].kind = "dir" /\ archive[j].name = p
        BY <2>1, <2>2, <4>2, ParentsAreThere
      <4>3. MountsWritten'
        BY <1>g, <2>1, <2>2, <3>1, <3>2, <4>1, <4>2, MountsFile
      <4> HIDE DEF x
      <4>4. NamesHold'
        BY <1>g, <2>1, <3>1, <3>3, <4>1, NamesAppend DEF IsRecord
      <4>5. FilesKnown' /\ BeginsWithImage'
        BY <1>g, <2>1, <2>2, <3>3, <4>1, FilesAppend
      <4> QED
        BY <1>i, <1>g, <3>4, <4>3, <4>4, <4>5 DEF SeenInv
    <3>6. CASE kind[c] # "reg"
      <4>1. archive' = archive
        BY <3>1, <3>6
      <4>2. MountsWritten'
        BY <1>g, <2>1, <2>2, <3>1, <3>6, <4>1, MountsQuiet
      <4>3. NamesHold'
        BY <1>g, <2>1, <2>2, <3>1, <4>1 DEF SeenInv, NamesHold
      <4> QED
        BY <1>i, <1>g, <3>4, <4>1, <4>2, <4>3, SeenQuiet
    <3> QED
      BY <3>5, <3>6
  <2> QED
    BY <2>3, <2>4
<1>6. CASE CopyBegin
  <2>1. guest = "linux" /\ archive' = archive /\ pc' = "copy" /\ todo' = DOMAIN mounts
    BY <1>6 DEF CopyBegin
  <2>2. Guests' /\ NamesHold' /\ MountsWritten' /\ Closed'
    BY <1>g, <2>1 DEF Guests, NamesHold, MountsWritten, Closed
  <2> QED
    BY <1>i, <1>g, <2>1, <2>2, SeenQuiet
<1>7. CASE CopyFile
  <2> DEFINE c == Current
             x == File(mounts[c].dest, 0, mounts[c].src)
  <2>1. pc = "copy" /\ todo # {} /\ kind' = kind /\ guest = "linux"
    BY <1>7 DEF CopyFile, Goto, SeenInv, Guests
  <2>2. /\ c \in todo /\ c \in DOMAIN mounts
        /\ mounts[c].dest \in Name /\ mounts[c].src \in Sources
    BY <1>i, <2>1, CurrentIsMount DEF BindMounts
  <2>3. CASE kind[c] = "gone"
    BY <1>7, <1>s, <2>3 DEF CopyFile, Goto
  <2>4. CASE kind[c] # "gone"
    <3>1. /\ archive' = IF kind[c] = "reg" THEN Append(archive, x) ELSE archive
          /\ pc' = "copy" /\ todo' = todo \ {c}
      BY <1>7, <2>4 DEF CopyFile, Goto
    <3>2. x \in Items /\ x.kind = "file" /\ x.name = mounts[c].dest
      BY <2>2, ItemType, ItemParts DEF File
    <3>3. Guests' /\ Closed' /\ NamesHold'
      BY <1>g, <2>1, <3>1 DEF Guests, Closed, NamesHold
    <3> HIDE DEF c
    <3>4. CASE kind[c] = "reg"
      <4>1. archive' = Append(archive, x)
        BY <3>1, <3>4
      <4>2. MountsWritten'
        BY <1>g, <2>1, <2>2, <3>1, <4>1, MountsFile
      <4> HIDE DEF x
      <4>3. FilesKnown' /\ BeginsWithImage'
        BY <1>g, <2>1, <2>2, <3>2, <4>1, FilesAppend
      <4> QED
        BY <1>i, <1>g, <3>3, <4>2, <4>3 DEF SeenInv
    <3>5. CASE kind[c] # "reg"
      <4>1. archive' = archive
        BY <3>1, <3>5
      <4>2. MountsWritten'
        BY <1>g, <2>1, <2>2, <3>1, <3>5, <4>1, MountsQuiet
      <4> QED
        BY <1>i, <1>g, <3>3, <4>1, <4>2, SeenQuiet
    <3> QED
      BY <3>4, <3>5
  <2> QED
    BY <2>3, <2>4
<1>m. Trailer.kind = "trailer" /\ Torn.kind = "torn"
  BY ItemParts DEF Trailer, Torn
<1>8. CASE WriterClose
  <2>1. /\ pc \in {"merge", "copy"} /\ todo = {} /\ archive' = Append(archive, Trailer)
        /\ pc' = "done" /\ kind' = kind /\ todo' = todo
    BY <1>8 DEF WriterClose, Goto
  <2>2. FilesKnown' /\ BeginsWithImage'
    BY <1>g, <1>m, <2>1, Marks, FilesAppend
  <2>3. MountsWritten'
    BY <1>g, <2>1, Marks, MountsAppend
  <2>4. ASSUME guest = "unikraft" PROVE TrailerAt(archive', Len(archive'))
    <3>1. pc = "merge"
      BY <2>1, <2>4 DEF SeenInv, Guests
    <3>2. \A j \in DOMAIN archive : IsRecord(archive[j])
      BY <3>1 DEF SeenInv, NamesHold
    <3>3. /\ Len(archive') = Len(archive) + 1
          /\ Len(archive') \in DOMAIN archive' /\ archive'[Len(archive')] = Trailer
          /\ \A j \in DOMAIN archive : archive'[j] = archive[j]
      BY <1>a, <2>1, Marks
    <3>4. \A j \in 1..(Len(archive') - 1) : j \in DOMAIN archive
      BY <1>a, <3>3
    <3> QED
      BY <1>m, <3>2, <3>3, <3>4 DEF TrailerAt
  <2>5. Closed'
    BY <1>g, <2>1, <2>4 DEF Closed
  <2>6. Guests' /\ NamesHold'
    BY <1>g, <2>1 DEF Guests, NamesHold
  <2> QED
    BY <1>i, <1>g, <2>2, <2>3, <2>5, <2>6 DEF SeenInv
<1>9. CASE AddFileToInitrd
  <2>1. /\ pc = "done" /\ guest = "linux" /\ archive' = Append(archive, UrunitConf)
        /\ pc' = "conf" /\ kind' = kind /\ todo' = todo
    BY <1>9 DEF AddFileToInitrd, Goto
  <2>2. <<"urunit.conf">> \in Name
    BY DEF Name
  <2>3. UrunitConf \in Items /\ UrunitConf.kind = "file"
    BY <2>2, ItemType DEF UrunitConf, File
  <2>4. FilesKnown' /\ BeginsWithImage'
    BY <1>g, <2>1, <2>3, FilesAppend
  <2>5. \A i \in DOMAIN mounts : Undisturbed(i) => UrunitConf.name # mounts[i].dest
    BY DEF Undisturbed
  <2>6. MountsWritten'
    BY <1>g, <2>1, <2>3, <2>5, MountsAppend
  <2>7. Guests' /\ NamesHold' /\ Closed'
    BY <1>g, <2>1 DEF SeenInv, Guests, NamesHold, Closed
  <2> QED
    BY <1>i, <1>g, <2>4, <2>6, <2>7 DEF SeenInv
<1>10. CASE AddFileClose
  <2>1. /\ pc = "conf" /\ archive' = Append(archive, Trailer)
        /\ pc' = "booted" /\ kind' = kind /\ todo' = todo
    BY <1>10 DEF AddFileClose, Goto
  <2>2. guest = "linux"
    BY <2>1 DEF SeenInv, Guests
  <2>3. FilesKnown' /\ BeginsWithImage'
    BY <1>g, <1>m, <2>1, Marks, FilesAppend
  <2>4. MountsWritten'
    BY <1>g, <2>1, Marks, MountsAppend
  <2>5. Guests' /\ NamesHold' /\ Closed'
    BY <1>g, <2>1, <2>2 DEF SeenInv, Guests, NamesHold, Closed
  <2> QED
    BY <1>i, <1>g, <2>3, <2>4, <2>5 DEF SeenInv
<1>11. CASE WriteBreaks
  <2>1. archive' \in {archive, Append(archive, Torn)} /\ pc' = "failed"
    BY <1>11 DEF WriteBreaks, Goto
  <2>2. CASE archive' = archive
    BY <1>s, <2>1, <2>2
  <2>3. CASE archive' = Append(archive, Torn)
    <3>1. FilesKnown' /\ BeginsWithImage'
      BY <1>g, <1>m, <2>3, Marks, FilesAppend
    <3>2. Guests' /\ NamesHold' /\ MountsWritten' /\ Closed'
      BY <2>1 DEF Guests, NamesHold, MountsWritten, Closed
    <3> QED
      BY <1>i, <1>g, <3>1, <3>2 DEF SeenInv
  <2> QED
    BY <2>1, <2>2, <2>3
<1>12. CASE Again
  BY <1>12, <1>s DEF Again, Goto
<1> QED
  BY <1>0, <1>1, <1>2, <1>3, <1>4, <1>5, <1>6, <1>7, <1>8, <1>9, <1>10, <1>11, <1>12
  DEF Next, PostSetup

\* What the last create wrote is what the guest sees.
LEMMA SeenIsVisible == SeenInv => MountsVisible
<1> SUFFICES ASSUME SeenInv, pc \in {"done", "booted"}, NEW i \in DOMAIN mounts,
                    kind[i] = "reg", Undisturbed(i),
                    guest = "linux" =>
                      /\ \A j \in DOMAIN archive : archive[j].kind # "torn"
                      /\ \A p \in Parents(mounts[i].dest) :
                           \E j \in DOMAIN archive : archive[j].kind = "dir" /\ archive[j].name = p
             PROVE  GuestSees(archive, mounts[i].dest, mounts[i].src)
  BY DEF MountsVisible
<1>a. /\ Len(archive) \in Nat /\ DOMAIN archive = 1..Len(archive)
      /\ Len(image) \in Nat /\ DOMAIN image = 1..Len(image)
  BY DEF SeenInv, InodeInv, TypeOK
<1>1. Written(i)
  BY DEF SeenInv, MountsWritten, Closed
<1>2. PICK x \in DOMAIN archive :
        /\ archive[x].kind = "file" /\ archive[x].name = mounts[i].dest
        /\ archive[x].src = mounts[i].src
        /\ \A y \in DOMAIN archive : y > x /\ IsRecord(archive[y]) => archive[y].name # mounts[i].dest
        /\ guest = "linux" => x \notin DOMAIN image
        /\ guest = "unikraft" =>
             \A p \in Parents(mounts[i].dest) :
                 \E j \in DOMAIN archive : j < x /\ archive[j].kind = "dir" /\ archive[j].name = p
  BY <1>1, Zenon DEF Written
<1>3. Effective(archive, x)
  <2>1. CASE guest = "linux"
    <3>1. \A j \in DOMAIN archive : IsRecord(archive[j]) => j \in Readable(archive)
      BY <1>a, <2>1 DEF Readable
    <3>2. x \in Readable(archive)
      BY <1>2, <3>1 DEF IsRecord
    <3>3. ASSUME NEW p \in Parents(mounts[i].dest)
          PROVE  \E j \in Readable(archive) : j < x /\ archive[j].kind = "dir" /\ archive[j].name = p
      <4>1. PICK j \in DOMAIN archive : archive[j].kind = "dir" /\ archive[j].name = p
        BY <2>1
      <4>2. j \in DOMAIN image
        BY <2>1, <4>1 DEF SeenInv, BeginsWithImage
      <4>3. j < x
        BY <1>2, <1>a, <2>1, <4>2
      <4> QED
        BY <3>1, <4>1, <4>3 DEF IsRecord
    <3> QED
      BY <1>2, <3>2, <3>3 DEF Effective
  <2>2. CASE guest = "unikraft"
    <3>1. pc = "done"
      BY <2>2 DEF SeenInv, Guests
    <3>2. TrailerAt(archive, Len(archive))
      BY <2>2, <3>1 DEF SeenInv, Closed
    <3>3. Len(archive) \in DOMAIN archive /\ archive[Len(archive)].kind = "trailer"
      BY <3>2 DEF TrailerAt
    <3>4. x < Len(archive)
      BY <1>2, <1>a, <3>3
    <3>5. \A j \in 1..(Len(archive) - 1) : IsRecord(archive[j])
      BY <3>2 DEF TrailerAt
    <3>6. Parses(archive)
      BY <3>2, <3>3 DEF Parses
    <3>7. ASSUME NEW j \in DOMAIN archive, j <= x PROVE j \in Readable(archive)
      <4>1. \A k \in 1..j : k \in 1..(Len(archive) - 1)
        BY <1>a, <3>4, <3>7
      <4>2. j \in 1..j
        BY <1>a
      <4> QED
        BY <2>2, <3>5, <3>6, <4>1, <4>2 DEF Readable
    <3>8. x \in Readable(archive)
      BY <1>a, <3>7
    <3>9. \A p \in Parents(mounts[i].dest) :
            \E j \in Readable(archive) : j < x /\ archive[j].kind = "dir" /\ archive[j].name = p
      BY <1>2, <1>a, <2>2, <3>7
    <3> QED
      BY <1>2, <3>8, <3>9 DEF Effective
  <2> QED
    BY <2>1, <2>2 DEF SeenInv, InodeInv, TypeOK
<1>4. \A j \in DOMAIN archive : j > x /\ archive[j].name = mounts[i].dest => ~Effective(archive, j)
  BY <1>2 DEF Effective, Readable
<1> QED
  BY <1>2, <1>3, <1>4, Zenon DEF GuestSees

\* MergeFileMountsIntoInitrd and CopyFileMountsToInitrd keep their promise: after
\* a create that succeeds the guest has the contents of each file mount at its
\* destination, whatever image the container comes with and however many creates
\* on the snapshot succeeded, failed or were killed before.
THEOREM MountedFilesSeen == Spec => []MountsVisible
BY SeenInvInit, SeenInvNext, SeenIsVisible, PTL DEF Spec

-----------------------------------------------------------------------------
(* The image is kept.                                                      *)

\* What was written behind the image's records has other names, or the mounts'.
Beyond(t) ==
    \A j \in DOMAIN archive : j >= t /\ IsRecord(archive[j]) =>
        \/ \A k \in 1..(t - 1) : image[k].name # archive[j].name
        \/ \E m \in DOMAIN mounts : mounts[m].dest = archive[j].name

\* Every cut of a Unikraft initrd is at the image's trailer or behind it.
KeptInv ==
    /\ SeenInv
    /\ guest = "unikraft" =>
        \A t \in DOMAIN image : TrailerAt(image, t) =>
            /\ \A j \in 1..(t - 1) : j \in DOMAIN archive /\ archive[j] = image[j]
            /\ archive = image \/ Beyond(t)
            /\ pc = "merge" => Beyond(t)
            /\ pc = "done" => (\A i \in DOMAIN mounts : kind[i] # "reg") \/ Beyond(t)

\* An archive has its first trailer in one place.
LEMMA OneTrailer ==
    ASSUME NEW a \in Seq(Items), NEW t \in DOMAIN a, NEW u \in DOMAIN a, TrailerAt(a, t), TrailerAt(a, u)
    PROVE  t = u
<1>1. t \in Nat /\ u \in Nat /\ t >= 1 /\ u >= 1
  OBVIOUS
<1>2. ~(t \in 1..(u - 1)) /\ ~(u \in 1..(t - 1))
  BY DEF TrailerAt, IsRecord
<1> QED
  BY <1>1, <1>2

\* Where the archive stays as it is, what is behind the image does.
LEMMA KeptSame ==
    ASSUME KeptInv, SeenInv', UNCHANGED <<guest, mounts, image, archive>>,
           \A i \in DOMAIN mounts : kind'[i] = "reg" => kind[i] = "reg",
           pc' = "merge" => pc = "merge",
           pc' = "done" => pc = "done" \/ guest = "linux" \/ \A i \in DOMAIN mounts : kind'[i] # "reg"
    PROVE  KeptInv'
<1>1. \A t : Beyond(t)' <=> Beyond(t)
  BY DEF Beyond
<1> QED
  BY <1>1 DEF KeptInv

\* A merge appends what has a name of its own, or a mount's, or none.
LEMMA KeptAppend ==
    ASSUME KeptInv, SeenInv', UNCHANGED <<guest, mounts, image>>, NEW x \in Items,
           archive' = Append(archive, x), guest = "unikraft" => pc = "merge",
           \/ ~IsRecord(x)
           \/ x.name \notin names
           \/ \E m \in DOMAIN mounts : mounts[m].dest = x.name
    PROVE  KeptInv'
<1> SUFFICES ASSUME guest = "unikraft", NEW t \in DOMAIN image, TrailerAt(image, t)
             PROVE  /\ \A j \in 1..(t - 1) : j \in DOMAIN archive' /\ archive'[j] = image[j]
                    /\ Beyond(t)'
  BY DEF KeptInv
<1>1. archive \in Seq(Items)
  BY DEF KeptInv, SeenInv, InodeInv, TypeOK
<1>2. /\ DOMAIN archive' = DOMAIN archive \cup {Len(archive) + 1}
      /\ archive'[Len(archive) + 1] = x
      /\ \A k \in DOMAIN archive : archive'[k] = archive[k]
  BY <1>1, Appended
<1>3. /\ \A j \in 1..(t - 1) : j \in DOMAIN archive /\ archive[j] = image[j]
      /\ Beyond(t)
  BY DEF KeptInv
<1>4. \A j \in DOMAIN archive : archive[j].name \in names
  BY DEF KeptInv, SeenInv, NamesHold
<1>5. ASSUME NEW j \in DOMAIN archive', j >= t, IsRecord(archive'[j])
      PROVE  \/ \A k \in 1..(t - 1) : image[k].name # archive'[j].name
             \/ \E m \in DOMAIN mounts : mounts[m].dest = archive'[j].name
  <2>1. CASE j \in DOMAIN archive
    BY <1>2, <1>3, <1>5, <2>1 DEF Beyond
  <2>2. CASE j = Len(archive) + 1
    BY <1>2, <1>3, <1>4, <1>5, <2>2
  <2> QED
    BY <1>2, <2>1, <2>2
<1>6. Beyond(t)'
  BY <1>5 DEF Beyond
<1> QED
  BY <1>2, <1>3, <1>6

\* inspectInitrd finds no trailer before the image's: the cut keeps the image.
LEMMA KeptCut ==
    ASSUME KeptInv, SeenInv', UNCHANGED <<guest, mounts, image>>, pc' = "merge",
           NEW c \in DOMAIN archive, TrailerAt(archive, c), archive' = SubSeq(archive, 1, c - 1)
    PROVE  KeptInv'
<1> SUFFICES ASSUME guest = "unikraft", NEW t \in DOMAIN image, TrailerAt(image, t)
             PROVE  /\ \A j \in 1..(t - 1) : j \in DOMAIN archive' /\ archive'[j] = image[j]
                    /\ Beyond(t)'
  BY DEF KeptInv
<1>1. archive \in Seq(Items) /\ image \in Seq(Items)
  BY DEF KeptInv, SeenInv, InodeInv, TypeOK
<1>2. /\ DOMAIN archive' = 1..(c - 1)
      /\ 1..(c - 1) \subseteq DOMAIN archive
      /\ \A k \in 1..(c - 1) : archive'[k] = archive[k]
  BY <1>1, CutOff
<1>3. c \in Nat /\ t \in Nat /\ c >= 1 /\ t >= 1
  BY <1>1
<1>4. /\ \A j \in 1..(t - 1) : j \in DOMAIN archive /\ archive[j] = image[j]
      /\ archive = image \/ Beyond(t)
  BY DEF KeptInv
<1>5. c >= t
  <2>1. \A j \in 1..(t - 1) : IsRecord(archive[j])
    BY <1>4 DEF TrailerAt
  <2>2. ~IsRecord(archive[c])
    BY DEF TrailerAt, IsRecord
  <2> QED
    BY <1>3, <2>1, <2>2
<1>6. \A j \in 1..(t - 1) : j \in DOMAIN archive' /\ archive'[j] = image[j]
  BY <1>2, <1>3, <1>4, <1>5
<1>7. CASE archive = image
  <2>1. c = t
    BY <1>1, <1>7, OneTrailer
  <2>2. \A j \in DOMAIN archive' : ~(j >= t)
    BY <1>2, <1>3, <2>1
  <2> QED
    BY <1>6, <2>2 DEF Beyond
<1>8. CASE Beyond(t)
  <2>1. Beyond(t)'
    BY <1>2, <1>8 DEF Beyond
  <2> QED
    BY <1>6, <2>1
<1> QED
  BY <1>4, <1>7, <1>8

LEMMA KeptInvInit == Init => KeptInv
<1> SUFFICES ASSUME Init PROVE KeptInv
  OBVIOUS
<1>1. SeenInv /\ archive = image /\ pc = "idle" /\ image \in Seq(Items)
  BY SeenInvInit DEF Init, SeenInv
<1>2. \A t \in DOMAIN image : \A j \in 1..(t - 1) : j \in DOMAIN image
  BY <1>1
<1> QED
  BY <1>1, <1>2 DEF KeptInv

LEMMA KeptInvNext == KeptInv /\ [Next]_vars => KeptInv'
<1> SUFFICES ASSUME KeptInv, [Next]_vars PROVE KeptInv'
  OBVIOUS
<1>i. SeenInv /\ SeenInv' /\ InodeInv /\ TypeOK
  BY SeenInvNext DEF KeptInv, SeenInv, InodeInv
<1>g. /\ guest' = guest /\ mounts' = mounts /\ image' = image
      /\ \A i \in DOMAIN mounts : kind'[i] = "reg" => kind[i] = "reg"
  BY <1>i, Given
<1>h. Guests
  BY <1>i DEF SeenInv
<1>q. ASSUME archive' = archive, pc' = pc \/ pc' \notin {"merge", "done"} PROVE KeptInv'
  BY <1>i, <1>g, <1>q, KeptSame
<1>0. CASE UNCHANGED vars
  BY <1>0, <1>q DEF vars
<1>1. ASSUME NEW i \in DOMAIN mounts, SourceChanges(i) PROVE KeptInv'
  BY <1>1, <1>q DEF SourceChanges
<1>2. CASE MergeBegin
  <2>1. /\ archive' = archive /\ kind' = kind /\ pc' # "merge"
        /\ pc' = "done" => \A i \in DOMAIN mounts : kind[i] # "reg"
    BY <1>2 DEF MergeBegin, RegularFileBindMounts
  <2> QED
    BY <1>i, <1>g, <2>1, KeptSame
<1>3. CASE MergeInspect
  <2>1. ASSUME NEW t \in DOMAIN archive, TrailerAt(archive, t),
               archive' = SubSeq(archive, 1, t - 1), Goto("merge")
        PROVE  KeptInv'
    BY <1>i, <1>g, <2>1, KeptCut DEF Goto
  <2>2. ASSUME Goto("failed"), UNCHANGED <<archive, names, used, next>> PROVE KeptInv'
    BY <1>q, <2>2 DEF Goto
  <2> QED
    BY <1>3, <2>1, <2>2 DEF MergeInspect
<1>4. CASE MergeParent
  <2> DEFINE dest == mounts[Current].dest
             x == Dir(TopMissing(dest), Allocated)
  <2>1. pc = "merge" /\ todo # {} /\ Missing(dest) # {}
    BY <1>4 DEF MergeParent
  <2>2. dest \in Name
    BY <1>i, <2>1, CurrentIsMount DEF BindMounts
  <2>3. CASE Free = {}
    BY <1>4, <1>q, <2>3 DEF MergeParent, Goto
  <2>4. CASE Free # {}
    <3>1. archive' = Append(archive, x)
      BY <1>4, <2>4 DEF MergeParent
    <3>2. Allocated \in Nat
      BY <1>i, <2>4, AllocatedIsFree
    <3>3. TopMissing(dest) \in Name /\ TopMissing(dest) \notin names
      BY <2>1, <2>2, TopMissingIsName DEF Missing
    <3>4. x \in Items /\ x.name = TopMissing(dest)
      BY <3>2, <3>3, ItemType, ItemParts DEF Dir
    <3> HIDE DEF x, dest
    <3> QED
      BY <1>i, <1>g, <2>1, <3>1, <3>3, <3>4, KeptAppend
  <2> QED
    BY <2>3, <2>4
<1>5. CASE MergeFile
  <2> DEFINE c == Current
             x == File(mounts[c].dest, Allocated, mounts[c].src)
  <2>1. pc = "merge" /\ todo # {}
    BY <1>5 DEF MergeFile
  <2>2. c \in DOMAIN mounts /\ mounts[c].dest \in Name /\ mounts[c].src \in Sources
    BY <1>i, <2>1, CurrentIsMount DEF BindMounts
  <2>3. \/ archive' = archive /\ pc' \in {"failed", "merge"}
        \/ archive' = Append(archive, x) /\ Free # {}
    BY <1>5 DEF MergeFile, Goto
  <2>4. CASE archive' = archive /\ pc' \in {"failed", "merge"}
    BY <1>q, <2>1, <2>4
  <2>5. CASE archive' = Append(archive, x) /\ Free # {}
    <3>1. Allocated \in Nat
      BY <1>i, <2>5, AllocatedIsFree
    <3>2. x \in Items /\ x.name = mounts[c].dest
      BY <2>2, <3>1, ItemType, ItemParts DEF File
    <3> HIDE DEF x, c
    <3> QED
      BY <1>i, <1>g, <2>1, <2>2, <2>5, <3>2, KeptAppend
  <2> QED
    BY <2>3, <2>4, <2>5
<1>6. CASE CopyBegin
  BY <1>6, <1>q DEF CopyBegin
<1>l. ASSUME guest = "linux" PROVE KeptInv'
  BY <1>i, <1>g, <1>l DEF KeptInv
<1>7. CASE CopyFile
  BY <1>7, <1>h, <1>l DEF CopyFile, Guests
<1>8. CASE WriterClose
  <2>1. pc \in {"merge", "copy"} /\ archive' = Append(archive, Trailer)
    BY <1>8 DEF WriterClose
  <2>2. guest = "unikraft" => pc = "merge"
    BY <1>h, <2>1 DEF Guests
  <2> QED
    BY <1>i, <1>g, <2>1, <2>2, Marks, KeptAppend
<1>9. CASE AddFileToInitrd
  BY <1>9, <1>l DEF AddFileToInitrd
<1>10. CASE AddFileClose
  BY <1>10, <1>h, <1>l DEF AddFileClose, Guests
<1>11. CASE WriteBreaks
  <2>1. /\ pc \in {"merge", "copy", "conf"} \/ guest = "linux"
        /\ archive' \in {archive, Append(archive, Torn)} /\ pc' = "failed"
    BY <1>11 DEF WriteBreaks, Goto
  <2>2. CASE archive' = archive
    BY <1>q, <2>1, <2>2
  <2>3. CASE archive' = Append(archive, Torn)
    <3>1. guest = "unikraft" => pc = "merge"
      BY <1>h, <2>1 DEF Guests
    <3> QED
      BY <1>i, <1>g, <2>3, <3>1, Marks, KeptAppend
  <2> QED
    BY <2>1, <2>2, <2>3
<1>12. CASE Again
  BY <1>12, <1>q DEF Again, Goto
<1> QED
  BY <1>0, <1>1, <1>2, <1>3, <1>4, <1>5, <1>6, <1>7, <1>8, <1>9, <1>10, <1>11, <1>12
  DEF Next, PostSetup

\* Two archives that begin alike, up to a last item l, give the guest the same
\* there, where it reads both.
LEMMA SameBeginning ==
    ASSUME NEW a \in Seq(Items), NEW b \in Seq(Items), NEW l \in Nat,
           \A j \in 1..l : j \in DOMAIN a /\ j \in DOMAIN b /\ a[j] = b[j],
           guest = "unikraft" => Parses(b),
           NEW i \in 1..l, Effective(a, i)
    PROVE  Effective(b, i)
<1>1. ASSUME NEW j \in 1..i, j \in Readable(a) PROVE j \in Readable(b)
  <2>1. j \in 1..l /\ \A k \in 1..j : k \in 1..l
    OBVIOUS
  <2>2. \A k \in 1..j : a[k] = b[k]
    BY <2>1
  <2>3. j \in DOMAIN b /\ a[j] = b[j]
    BY <2>1
  <2> QED
    BY <1>1, <2>2, <2>3 DEF Readable
<1>2. i \in 1..i /\ a[i] = b[i]
  OBVIOUS
<1>3. i \in Readable(b)
  BY <1>1, <1>2 DEF Effective
<1>4. ASSUME NEW p \in Parents(b[i].name)
      PROVE  \E j \in Readable(b) : j < i /\ b[j].kind = "dir" /\ b[j].name = p
  <2>1. PICK j \in Readable(a) : j < i /\ a[j].kind = "dir" /\ a[j].name = p
    BY <1>2 DEF Effective
  <2>2. j \in DOMAIN a
    BY DEF Readable
  <2>3. j \in 1..i /\ j \in 1..l
    BY <2>1, <2>2
  <2> QED
    BY <1>1, <2>1, <2>3
<1> QED
  BY <1>3, <1>4 DEF Effective

\* What the guest sees of the image it sees of the archive.
LEMMA KeptIsVisible == KeptInv => ImageKept
<1> SUFFICES ASSUME KeptInv, pc \in {"done", "booted"},
                    guest = "unikraft" => \E i \in DOMAIN mounts : kind[i] = "reg",
                    NEW i \in DOMAIN image, GuestSees(image, image[i].name, "image"),
                    \A m \in DOMAIN mounts : mounts[m].dest # image[i].name,
                    guest = "linux" => image[i].name # UrunitConf.name
             PROVE  GuestSees(archive, image[i].name, "image")
  BY DEF ImageKept
<1> DEFINE n == image[i].name
<1> HIDE DEF n
<1>a. archive \in Seq(Items) /\ image \in Seq(Items)
  BY DEF KeptInv, SeenInv, InodeInv, TypeOK
<1>d. /\ DOMAIN archive = 1..Len(archive) /\ Len(archive) \in Nat
      /\ DOMAIN image = 1..Len(image) /\ Len(image) \in Nat
  BY <1>a
<1>1. PICK w \in DOMAIN image :
        /\ Effective(image, w) /\ image[w].name = n /\ image[w].src = "image"
        /\ \A j \in DOMAIN image : j > w /\ image[j].name = n => ~Effective(image, j)
  BY Zenon DEF GuestSees, n
<1>2. ASSUME NEW l \in Nat, l <= Len(image), w <= l,
             \A j \in 1..l : j \in DOMAIN archive /\ archive[j] = image[j],
             guest = "unikraft" => Parses(archive) /\ Parses(image),
             \A j \in DOMAIN archive : j > l /\ IsRecord(archive[j]) => archive[j].name # n
      PROVE  GuestSees(archive, n, "image")
  <2>1. \A j \in 1..l : j \in DOMAIN image
    BY <1>2, <1>d
  <2>2. w \in 1..l
    BY <1>2, <1>d
  <2>3. Effective(archive, w)
    BY <1>1, <1>2, <1>a, <2>1, <2>2, SameBeginning
  <2>4. w \in DOMAIN archive /\ archive[w] = image[w]
    BY <1>2, <2>2
  <2>5. ASSUME NEW j \in DOMAIN archive, j > w, archive[j].name = n, Effective(archive, j) PROVE FALSE
    <3>1. IsRecord(archive[j])
      BY <2>5 DEF Effective, Readable
    <3>2. j \in 1..l
      BY <1>2, <1>d, <2>5, <3>1
    <3>3. Effective(image, j)
      BY <1>2, <1>a, <2>1, <2>5, <3>2, SameBeginning
    <3> QED
      BY <1>1, <1>2, <2>1, <2>5, <3>2, <3>3
  <2> QED
    BY <1>1, <2>3, <2>4, <2>5, Zenon DEF GuestSees
<1>3. CASE guest = "linux"
  <2>1. \A j \in 1..Len(image) : j \in DOMAIN archive /\ archive[j] = image[j]
    BY <1>3, <1>d DEF KeptInv, SeenInv, BeginsWithImage
  <2>2. ASSUME NEW j \in DOMAIN archive, j > Len(image), IsRecord(archive[j]) PROVE archive[j].name # n
    <3>1. j \notin DOMAIN image
      BY <1>d, <2>2
    <3> QED
      BY <1>3, <2>2, <3>1 DEF KeptInv, SeenInv, BeginsWithImage, n
  <2> QED
    BY <1>2, <1>3, <1>d, <2>1, <2>2 DEF n
<1>4. CASE guest = "unikraft"
  <2>1. pc = "done"
    BY <1>4 DEF KeptInv, SeenInv, Guests
  <2>2. Len(archive) \in DOMAIN archive /\ TrailerAt(archive, Len(archive))
    BY <1>4, <2>1 DEF KeptInv, SeenInv, Closed, TrailerAt
  <2>3. Parses(archive)
    BY <2>2 DEF Parses
  <2>4. Parses(image) /\ \A j \in 1..w : IsRecord(image[j])
    BY <1>1, <1>4 DEF Effective, Readable
  <2>5. PICK t \in DOMAIN image : TrailerAt(image, t)
    BY <2>4 DEF Parses
  <2>6. t \notin 1..w
    BY <2>4, <2>5 DEF TrailerAt, IsRecord
  <2>7. t - 1 \in Nat /\ t - 1 <= Len(image) /\ w <= t - 1
    BY <1>d, <2>6
  <2>8. /\ \A j \in 1..(t - 1) : j \in DOMAIN archive /\ archive[j] = image[j]
        /\ Beyond(t)
    BY <1>4, <2>1, <2>5 DEF KeptInv
  <2>9. ASSUME NEW j \in DOMAIN archive, j > t - 1, IsRecord(archive[j]) PROVE archive[j].name # n
    <3>1. j >= t
      BY <1>d, <2>9
    <3>2. w \in 1..(t - 1)
      BY <1>d, <2>7
    <3> QED
      BY <1>1, <2>8, <2>9, <3>1, <3>2 DEF Beyond, n
  <2> QED
    BY <1>2, <2>3, <2>4, <2>7, <2>8, <2>9 DEF n
<1> QED
  BY <1>3, <1>4 DEF KeptInv, SeenInv, InodeInv, TypeOK

\* Editing the initrd in place loses nothing of the image: inspectInitrd cuts the
\* file only behind the last record of it that Unikraft reads, and neither a merge nor a copy
\* replaces a file that is not a mount's (or the urunit configuration), on any
\* number of creates and wherever one of them is killed.
THEOREM ImageFilesKept == Spec => []ImageKept
BY KeptInvInit, KeptInvNext, KeptIsVisible, PTL DEF Spec

===============================================================================
