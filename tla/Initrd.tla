------------------------------- MODULE Initrd -------------------------------
(***************************************************************************)
(* The guest's initrd, which urunc edits in place so that the guest finds  *)
(* the container's file mounts in it (pkg/unikontainers/initrd).  The file *)
(* is in the container's snapshot: a container that is created again, after*)
(* a stop or after a create that failed half way, edits what the last      *)
(* create left.                                                            *)
(*                                                                         *)
(* A newc archive is a sequence of records and ends with a trailer; the    *)
(* file is a sequence of items.  A name is the sequence of its components, *)
(* as archiveLookupPath cleans it; contents are the name of their source.  *)
(* A write that does not complete leaves a "torn" item.  An initrd that    *)
(* does not exist is the empty file: Merge refuses both, Copy fills both.  *)
(***************************************************************************)
EXTENDS Naturals, Sequences, FiniteSets

CONSTANTS
    Components,     \* of the names in the images and of the mounts
    Sources,        \* the files on the host that are mounted
    Images,         \* the initrd files that images come with
    MountLists,     \* the bind mounts that containers have, in order
    MaxInode,       \* maxNewcInode
    MaxCreates      \* bound: how often the container is created

VARIABLES
    guest,          \* "unikraft" (Merge) or "linux" (Copy)
    mounts,         \* the bind mounts of the container: [src, dest]
    kind,           \* what each mount's source is: "reg", "other", "gone"
    image,          \* the initrd file as the image has it (history)
    archive,        \* the initrd file: a sequence of items
    pc,             \* what the editing process is about to do
    todo,           \* the indexes of the mounts still to add
    names,          \* existingNames
    used, next,     \* the inodeAllocator
    creates         \* how many creates there have been

vars == <<guest, mounts, kind, image, archive, pc, todo, names, used, next, creates>>

Name == Seq(Components \cup {"urunit.conf"})
Item(k, n, i, s) == [kind |-> k, name |-> n, ino |-> i, src |-> s]
Items == [kind : {"dir", "file", "trailer", "torn"}, name : Name, ino : Nat,
          src : Sources \cup {"image", "parent", "conf"}]
BindMounts == [src : Sources, dest : Name]

ASSUME InodeAssumption == MaxInode \in Nat /\ MaxCreates \in Nat
ASSUME ImageAssumption ==
    /\ Images \subseteq Seq(Items)
    /\ \A a \in Images : \A k \in DOMAIN a : a[k].src = "image"
ASSUME MountAssumption == MountLists \subseteq Seq(BindMounts)

Trailer == Item("trailer", <<>>, 0, "image")
Torn == Item("torn", <<>>, 0, "image")
IsRecord(r) == r.kind \in {"dir", "file"}

Dir(n, i) == Item("dir", n, i, "parent")
File(n, i, s) == Item("file", n, i, s)
UrunitConf == File(<<"urunit.conf">>, 0, "conf")

-----------------------------------------------------------------------------
(* Reading the archive.                                                    *)

\* inspectInitrd ends at t: records up to the trailer at t, which
\* validateTrailerAt finds whole.
TrailerAtEOF(a, t) ==
    /\ t \in DOMAIN a /\ (a[t].kind = "trailer" \/ t = Len(a))
    /\ \A j \in 1..(t - 1) : IsRecord(a[j])
TrailerAt(a, t) ==
    /\ t \in DOMAIN a /\ a[t].kind = "trailer"
    /\ \A j \in 1..(t - 1) : IsRecord(a[j])

Parses(a) == \E t \in DOMAIN a : TrailerAt(a, t)

\* The names and inodes that inspectInitrd collects on its way to t.
Collected(a, t) ==
    [names |-> {a[j].name : j \in 1..(t - 1)}, inodes |-> {a[j].ino : j \in 1..(t - 1)}]

\* The proper prefixes of a name: what addMissingParents walks, top down.
Parents(n) == {SubSeq(n, 1, k) : k \in 1..(Len(n) - 1)}
MissingNone(n) == {}
Missing(n) == Parents(n) \ names
TopMissing(n) == CHOOSE p \in Missing(n) : \A q \in Missing(n) : Len(p) <= Len(q)

\* inodeAllocator.allocate: the first inode from next on that is not in use.
FreeUnchecked == next..MaxInode
FreeUnbounded == {i \in next..(MaxInode + 1) : i \notin used}
Free == {i \in next..MaxInode : i \notin used}
Allocated == CHOOSE i \in Free : \A j \in Free : i <= j

-----------------------------------------------------------------------------
Init ==
    /\ guest \in {"unikraft", "linux"}
    /\ mounts \in MountLists
    /\ kind \in [DOMAIN mounts -> {"reg", "other"}]
    /\ image \in Images /\ archive = image
    /\ pc = "idle" /\ todo = {}
    /\ names = {} /\ used = {} /\ next = 1
    /\ creates = 0

\* The host removes or replaces the source of a mount, before or between the
\* two looks that a create takes at it.
SourceChanges(i) ==
    /\ \E k \in {"other", "gone"} : k # kind[i] /\ kind' = [kind EXCEPT ![i] = k]
    /\ UNCHANGED <<guest, mounts, image, archive, pc, todo, names, used, next, creates>>

Goto(p) ==
    /\ pc' = p
    /\ UNCHANGED <<guest, mounts, kind, image, creates>>

\* The mounts are added in their order.
Current == CHOOSE i \in todo : \A j \in todo : i <= j

\* regularFileBindMounts: the mounts to merge.
RegularFileBindMounts == {i \in DOMAIN mounts : kind[i] = "reg"}

\* MergeFileMountsIntoInitrd up to the open; it fails if one of the sources is
\* not there and is done if none is a regular file.
MergeBegin ==
    /\ pc = "idle" /\ guest = "unikraft" /\ creates < MaxCreates
    /\ creates' = creates + 1
    /\ IF \E i \in DOMAIN mounts : kind[i] = "gone"
       THEN pc' = "failed" /\ todo' = {}
       ELSE /\ todo' = RegularFileBindMounts
            /\ pc' = IF todo' = {} THEN "done" ELSE "inspect"
    /\ UNCHANGED <<guest, mounts, kind, image, archive, names, used, next>>

\* inspectInitrd reads the names and inodes, then the file is cut off at its
\* trailer; an archive that does not parse is left as it is.
MergeInspect ==
    /\ pc = "inspect"
    /\ \/ \E t \in DOMAIN archive :
            /\ TrailerAt(archive, t)
            /\ archive' = SubSeq(archive, 1, t - 1)
            /\ names' = Collected(archive, t).names
            /\ used' = Collected(archive, t).inodes
            /\ next' = 1
            /\ Goto("merge")
       \/ /\ ~Parses(archive)
          /\ Goto("failed") /\ UNCHANGED <<archive, names, used, next>>
    /\ UNCHANGED todo

\* One turn of addMissingParents.
MergeParent ==
    /\ pc = "merge" /\ todo # {}
    /\ LET dest == mounts[Current].dest
       IN  /\ Missing(dest) # {}
           /\ IF Free = {}
              THEN Goto("failed") /\ UNCHANGED <<archive, names, used, next>>
              ELSE /\ archive' = Append(archive, Dir(TopMissing(dest), Allocated))
                   /\ names' = names \cup {TopMissing(dest)}
                   /\ used' = used \cup {Allocated}
                   /\ next' = Allocated + 1
                   /\ Goto("merge")
    /\ UNCHANGED todo

\* The file itself: an inode is allocated, the source is looked at once more,
\* and a source that is no regular file any more gets no record.
MergeFile ==
    /\ pc = "merge" /\ todo # {}
    /\ LET i == Current IN
       /\ Missing(mounts[i].dest) = {}
       /\ IF Free = {} \/ kind[i] = "gone"
          THEN Goto("failed") /\ UNCHANGED <<archive, todo, names, used, next>>
          ELSE /\ archive' = IF kind[i] = "reg"
                             THEN Append(archive, File(mounts[i].dest, Allocated, mounts[i].src))
                             ELSE archive
               /\ names' = names \cup {mounts[i].dest}
               /\ used' = used \cup {Allocated}
               /\ next' = Allocated + 1
               /\ todo' = todo \ {i}
               /\ Goto("merge")

\* CopyFileMountsToInitrd opens the file for appending and asks nothing of it.
CopyBegin ==
    /\ pc = "idle" /\ guest = "linux" /\ creates < MaxCreates
    /\ creates' = creates + 1
    /\ pc' = "copy"
    /\ todo' = DOMAIN mounts
    /\ UNCHANGED <<guest, mounts, kind, image, archive, names, used, next>>

\* initrdRootfs.postSetup: only Unikraft reads a single archive.
PostSetup == MergeBegin \/ CopyBegin

\* CopyFileToInitrd: no parents, no inode of its own.
CopyFile ==
    /\ pc = "copy" /\ todo # {}
    /\ LET i == Current IN
       IF kind[i] = "gone"
       THEN Goto("failed") /\ UNCHANGED <<archive, todo>>
       ELSE /\ archive' = IF kind[i] = "reg"
                          THEN Append(archive, File(mounts[i].dest, 0, mounts[i].src))
                          ELSE archive
            /\ todo' = todo \ {i}
            /\ Goto("copy")
    /\ UNCHANGED <<names, used, next>>

\* The cpio writer's Close writes the trailer, and the create succeeds.
WriterClose ==
    /\ pc \in {"merge", "copy"} /\ todo = {}
    /\ archive' = Append(archive, Trailer)
    /\ Goto("done")
    /\ UNCHANGED <<todo, names, used, next>>

\* Exec of a Linux guest with urunit: AddFileToInitrd appends the
\* configuration as one more archive.
AddFileToInitrd ==
    /\ pc = "done" /\ guest = "linux"
    /\ archive' = Append(archive, UrunitConf)
    /\ Goto("conf")
    /\ UNCHANGED <<todo, names, used, next>>

AddFileClose ==
    /\ pc = "conf"
    /\ archive' = Append(archive, Trailer)
    /\ Goto("booted")
    /\ UNCHANGED <<todo, names, used, next>>

\* A write fails, or the process is killed: before the next write or in it.
WriteBreaks ==
    /\ pc \in {"merge", "copy", "conf"} \/ (pc = "done" /\ guest = "linux")
    /\ archive' \in {archive, Append(archive, Torn)}
    /\ Goto("failed")
    /\ UNCHANGED <<todo, names, used, next>>

\* The container is created again on the same snapshot.
Again ==
    /\ pc \in {"done", "booted", "failed"} /\ creates < MaxCreates
    /\ Goto("idle")
    /\ UNCHANGED <<archive, todo, names, used, next>>

Next ==
    \/ \E i \in DOMAIN mounts : SourceChanges(i)
    \/ PostSetup
    \/ MergeInspect \/ MergeParent \/ MergeFile
    \/ CopyFile \/ WriterClose
    \/ AddFileToInitrd \/ AddFileClose
    \/ WriteBreaks \/ Again

Spec == Init /\ [][Next]_vars

-----------------------------------------------------------------------------
(* What the guest's kernel makes of the file (external).  Unikraft reads   *)
(* one archive, up to its trailer; Linux goes on after a trailer and takes *)
(* what follows a torn record for its contents.  Either creates a file only*)
(* in a directory that is there, and a later record replaces an earlier.   *)

Readable(a) ==
    {i \in DOMAIN a :
        /\ IsRecord(a[i])
        /\ guest = "unikraft" => Parses(a) /\ \A j \in 1..i : IsRecord(a[j])
        /\ guest = "linux" => \A j \in 1..i : a[j].kind # "torn"}

Effective(a, i) ==
    /\ i \in Readable(a)
    /\ \A p \in Parents(a[i].name) :
         \E j \in Readable(a) : j < i /\ a[j].kind = "dir" /\ a[j].name = p

GuestSees(a, n, s) ==
    \E i \in DOMAIN a :
        /\ Effective(a, i) /\ a[i].name = n /\ a[i].src = s
        /\ \A j \in DOMAIN a : j > i /\ a[j].name = n => ~Effective(a, j)

-----------------------------------------------------------------------------
(* Properties.                                                             *)

\* Type invariant.
TypeOK ==
    /\ guest \in {"unikraft", "linux"}
    /\ mounts \in Seq(BindMounts)
    /\ kind \in [DOMAIN mounts -> {"reg", "other", "gone"}]
    /\ archive \in Seq(Items)
    /\ pc \in {"idle", "inspect", "merge", "copy", "conf", "done", "booted", "failed"}
    /\ todo \subseteq DOMAIN mounts
    /\ names \subseteq Name
    /\ used \subseteq Nat
    /\ next \in 1..(MaxInode + 1)
    /\ creates \in 0..MaxCreates

\* No record that urunc merges into a Unikraft initrd shares its inode with
\* any other record of the archive, the image's and those of earlier creates
\* included: Unikraft would take the two for links to one file
\* (inodeAllocator).
InodesApart ==
    guest = "unikraft" =>
        \A i, j \in DOMAIN archive :
            i # j /\ IsRecord(archive[i]) /\ IsRecord(archive[j]) /\ archive[i].src # "image"
                => archive[i].ino # archive[j].ino

\* Nothing else is at the destination of a mount, neither another mount nor the
\* urunit configuration, and nothing above it is a file.
Undisturbed(i) ==
    /\ mounts[i].dest # UrunitConf.name
    /\ \A m \in DOMAIN mounts \ {i} : mounts[m].dest # mounts[i].dest
    /\ \A p \in Parents(mounts[i].dest) :
         /\ \A m \in DOMAIN mounts : mounts[m].dest # p
         /\ \A j \in DOMAIN image : image[j].kind = "file" => image[j].name # p

\* A create that succeeds gives the guest the contents of every file mount at
\* its destination, however many creates before it failed, were killed or
\* succeeded.  Copy adds no parent directories and does not look at the file
\* it appends to: for a Linux guest this needs the directories in the image
\* and no torn record.
MountsVisible ==
    pc \in {"done", "booted"} =>
        \A i \in DOMAIN mounts :
            /\ kind[i] = "reg" /\ Undisturbed(i)
            /\ guest = "linux" =>
                 /\ \A j \in DOMAIN archive : archive[j].kind # "torn"
                 /\ \A p \in Parents(mounts[i].dest) :
                      \E j \in DOMAIN archive : archive[j].kind = "dir" /\ archive[j].name = p
            => GuestSees(archive, mounts[i].dest, mounts[i].src)

\* A create that succeeds keeps every file of the image that the guest would
\* have seen without it, but for those that a mount or the urunit configuration
\* replaces: cutting the archive at its trailer and writing on loses nothing.
\* (A Unikraft create without a file mount does not look at the file, and
\* succeeds on one that a killed create has cut off.)
ImageKept ==
    /\ pc \in {"done", "booted"}
    /\ guest = "unikraft" => \E i \in DOMAIN mounts : kind[i] = "reg"
    =>
        \A i \in DOMAIN image :
            /\ IsRecord(image[i])
            /\ GuestSees(image, image[i].name, "image")
            /\ \A m \in DOMAIN mounts : mounts[m].dest # image[i].name
            /\ guest = "linux" => image[i].name # UrunitConf.name
            => GuestSees(archive, image[i].name, "image")

=============================================================================
