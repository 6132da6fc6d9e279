------------------------------ MODULE Archive ------------------------------
(***************************************************************************)
(* A directory on its way to a paired device: ZipDir of                    *)
(* internal/storage/zip.go walks it into an archive, pushDir of            *)
(* internal/daemon/daemon.go sends that, and UnpackZip of                  *)
(* internal/storage/unpack.go expands it on the other side.  An archive    *)
(* may also come from a device that built it in some other way.            *)
(*                                                                         *)
(* The walk reads each directory once, looks at a file and opens it by     *)
(* separate calls, and does not stop the owner from working in the tree.   *)
(* Push models the transfer, and the renames around the expansion.         *)
(***************************************************************************)
EXTENDS Integers, FiniteSets, SequencesExt

CONSTANTS
  Sources,    \* the directories that may be pushed: relative path -> node
  Archives,   \* archives a peer may send that ZipDir did not make
  Backslashed,  \* names with a backslash
  Volumed,    \* names with a colon after their first letter
  Edited,     \* bound: what the owner may put in the source while it is walked
  MaxSourceEdits,   \* bound: steps of the owner
  MaxBytes, MaxEntries,  \* MaxExtractBytes, MaxExtractEntries
  MaxArchive, \* DefaultMaxWriteBytes, counted in entries
  Width       \* bits of a declared size

Sizes == 0 .. 2^Width - 1
Bodies == {""} \cup STRING   \* a directory's is ""
Item == [kind : {"dir", "file", "link", "other"}, size : Sizes, exec : BOOLEAN, body : Bodies]
Entry == [abs : BOOLEAN, name : Seq(STRING), kind : {"dir", "file", "link", "other"},
          size : Sizes, exec : BOOLEAN, body : Bodies]

\* A directory: what a node lies in is a directory, and no name is the "." of a path.
IsTree(t) ==
  /\ IsFiniteSet(DOMAIN t)
  /\ \A p \in DOMAIN t :
       /\ p \in Seq(STRING) /\ p # <<>> /\ \A i \in DOMAIN p : p[i] # "."
       /\ t[p] \in Item /\ (t[p].kind = "dir" => t[p].size = 0 /\ t[p].body = "")
       /\ \A n \in 1..Len(p) - 1 : SubSeq(p, 1, n) \in DOMAIN t /\ t[SubSeq(p, 1, n)].kind = "dir"

ASSUME ArchiveAssumption ==
  /\ \A t \in Sources : IsTree(t)
  /\ Archives \subseteq Seq(Entry)
  /\ \A p \in DOMAIN Edited : p \in Seq(STRING) /\ p # <<>> /\ Edited[p] \in Item
  /\ MaxBytes \in Nat /\ MaxSourceEdits \in Nat /\ 2^Width \in Nat \ {0}

VARIABLES
  src,    \* the directory being pushed
  first,  \* history: what it held when the push began
  linked, \* whether what was pushed is a link to it, and not the directory itself
  todo,   \* the walk: entries read from their directories and not visited yet
  arch,   \* the archive so far
  phase,  \* "walk", "open", "send", "check", "expand", "done" or "failed"
  unpacked,   \* what UnpackZip has created below its destination
  next,   \* the archive entry it is at
  told,   \* what PushFile returned: "ok", "error" or nothing yet, and what it says landed
  sourceEdits   \* steps taken against the bound

archiveVars == <<src, first, linked, todo, arch, phase, unpacked, next, told, sourceEdits>>

Top == <<>>
DirNode == [kind |-> "dir", size |-> 0, exec |-> FALSE, body |-> ""]

ArchiveTypeOK ==
  /\ \A p \in DOMAIN src : src[p] \in Item
  /\ \A i \in DOMAIN arch : arch[i] \in Entry
  /\ linked \in BOOLEAN
  /\ phase \in {"walk", "open", "send", "check", "expand", "done", "failed"}
  /\ \A p \in DOMAIN unpacked : unpacked[p] \in Item /\ unpacked[p].kind \in {"dir", "file"}
  /\ next \in 1..Len(arch) + 1 /\ told.status \in {"none", "ok", "error"}
  /\ sourceEdits \in 0..MaxSourceEdits

Returned(status, entries) == [status |-> status, entries |-> entries]

In(t, d) == {p \in DOMAIN t : p # Top /\ Front(p) = d}
Listed(t, d) == SetToSeq({[path |-> p, kind |-> t[p].kind] : p \in In(t, d)})

\* pushDir is chosen by os.Stat, which follows a link, and WalkDir looks at its
\* root with Lstat: of a link to a directory it visits the link and nothing else.
ArchiveInit ==
  /\ \/ src \in Sources /\ phase = "walk" /\ arch = <<>> /\ linked \in BOOLEAN
     \/ src = <<>> /\ phase = "check" /\ arch \in Archives /\ linked = FALSE
  /\ first = src
  /\ todo = IF linked THEN <<>> ELSE Listed(src, Top)
  /\ unpacked = <<>> /\ next = 1 /\ told = Returned("none", {}) /\ sourceEdits = 0

---------------------------------------------------------------------------
(* ZipDir: filepath.WalkDir with its callback. *)

FileEntry(p, f) ==
  [abs |-> FALSE, name |-> p, kind |-> "file", size |-> f.size, exec |-> FALSE, body |-> f.body]
DirEntry(p) ==
  [abs |-> FALSE, name |-> p, kind |-> "dir", size |-> 0, exec |-> FALSE, body |-> ""]

Fails == phase' = "failed" /\ told' = Returned("error", {}) /\ UNCHANGED <<src, first, linked, todo, arch, unpacked, next, sourceEdits>>
Skips == todo' = Tail(todo) /\ UNCHANGED <<src, first, linked, arch, phase, unpacked, next, told, sourceEdits>>

\* A directory is recorded and then read.  If a link has taken its place by now,
\* os.ReadDir follows it: to nowhere, or to a directory that is taken to be empty.
VisitDir ==
  /\ phase = "walk" /\ todo # <<>> /\ Head(todo).kind = "dir"
  /\ LET p == Head(todo).path
         kind == IF p \in DOMAIN src THEN src[p].kind ELSE "none"
     IN \/ /\ kind \in {"dir", "link"}
           /\ arch' = Append(arch, DirEntry(p))
           /\ todo' = Listed(src, p) \o Tail(todo)
           /\ UNCHANGED <<src, first, linked, phase, unpacked, next, told, sourceEdits>>
        \/ kind # "dir" /\ Fails

\* Mutant: links are archived as what they lead to.
VisitFollowingLinks ==
  /\ phase = "walk" /\ todo # <<>> /\ Head(todo).kind # "dir"
  /\ phase' = "open" /\ UNCHANGED <<src, first, linked, todo, arch, unpacked, next, told, sourceEdits>>

\* Links are skipped by what the directory said of them, anything else by what
\* it is now.
Visit ==
  /\ phase = "walk" /\ todo # <<>> /\ Head(todo).kind # "dir"
  /\ LET p == Head(todo).path IN
     IF Head(todo).kind = "link" THEN Skips
     ELSE IF p \notin DOMAIN src THEN Fails
     ELSE IF src[p].kind # "file" THEN Skips
     ELSE phase' = "open" /\ UNCHANGED <<src, first, linked, todo, arch, unpacked, next, told, sourceEdits>>

\* os.Open follows whatever is there by now.
CopyFile ==
  /\ phase = "open"
  /\ LET p == Head(todo).path IN
     IF p \in DOMAIN src /\ src[p].kind # "dir"
     THEN /\ arch' = Append(arch, FileEntry(p, src[p]))
          /\ todo' = Tail(todo) /\ phase' = "walk"
          /\ UNCHANGED <<src, first, linked, unpacked, next, told, sourceEdits>>
     ELSE Fails

\* pushDir: the archive is complete and not too big to push.
Send ==
  /\ phase = "walk" /\ todo = <<>>
  /\ IF Len(arch) > MaxArchive THEN Fails
     ELSE phase' = "check" /\ UNCHANGED <<src, first, linked, todo, arch, unpacked, next, told, sourceEdits>>

SourceEdited ==
  /\ phase \in {"walk", "open"} /\ sourceEdits < MaxSourceEdits
  /\ sourceEdits' = sourceEdits + 1
  /\ \/ \E p \in DOMAIN src : src' = [q \in {r \in DOMAIN src : ~IsPrefix(p, r)} |-> src[q]]
     \/ \E p \in DOMAIN Edited \ DOMAIN src :
          /\ Front(p) = Top \/ (Front(p) \in DOMAIN src /\ src[Front(p)].kind = "dir")
          /\ src' = [q \in DOMAIN src \cup {p} |-> IF q = p THEN Edited[p] ELSE src[q]]
  /\ UNCHANGED <<first, linked, todo, arch, phase, unpacked, next, told>>

---------------------------------------------------------------------------
(* UnpackZip. *)

Regular(e) == e.kind = "file"

\* Mutant: the sizes are added up in the width they are declared in.
SumWithinLimits(a) ==
  LET Add(sum, e) == IF Regular(e) THEN (sum + e.size) % 2^Width ELSE sum
  IN Len(a) <= MaxEntries /\ FoldLeft(Add, 0, a) <= MaxBytes

\* What is left of the budget after each entry, or -1: each size is taken from
\* what remains, so no sum can wrap.
Remaining(a) ==
  LET left[n \in 0..Len(a)] ==
        IF n = 0 THEN MaxBytes
        ELSE LET rest == left[n - 1] IN
             IF rest < 0 \/ ~Regular(a[n]) THEN rest
             ELSE IF a[n].size > rest THEN -1 ELSE rest - a[n].size
  IN left

WithinLimits(a) == Len(a) <= MaxEntries /\ Remaining(a)[Len(a)] >= 0

SafeName(e) ==
  /\ e.name # <<>> /\ ~e.abs /\ e.name[1] \notin Volumed
  /\ \A i \in DOMAIN e.name : e.name[i] # ".." /\ e.name[i] \notin Backslashed

\* safeJoin: the destination of an entry, relative to the directory expanded into.
Target(e) ==
  LET joined[n \in 0..Len(e.name)] ==
        IF n = 0 THEN Top
        ELSE LET before == joined[n - 1] IN
             IF e.name[n] = "." THEN before ELSE Append(before, e.name[n])
  IN joined[Len(e.name)]

\* Mutant: names are looked at one by one, as entries are expanded.
CheckFirst ==
  /\ phase = "check"
  /\ phase' = IF WithinLimits(arch) /\ (arch = <<>> \/ SafeName(arch[1])) THEN "expand" ELSE "failed"
  /\ UNCHANGED <<src, first, linked, todo, arch, unpacked, next, told, sourceEdits>>

\* Everything is checked before anything is created.
CheckAll ==
  /\ phase = "check"
  /\ phase' = IF /\ WithinLimits(arch)
                 /\ \A i \in DOMAIN arch : SafeName(arch[i]) /\ arch[i].kind \in {"dir", "file"}
              THEN "expand" ELSE "failed"
  /\ UNCHANGED <<src, first, linked, todo, arch, unpacked, next, told, sourceEdits>>

\* os.MkdirAll of p: its ancestors too; fails on a file in the way.
Ancestors(p) == {SubSeq(p, 1, n) : n \in 1..Len(p)}
CanMkdir(p) == \A q \in Ancestors(p) \cap DOMAIN unpacked : unpacked[q].kind = "dir"
WithDirs(p) == [q \in DOMAIN unpacked \cup Ancestors(p) |-> IF q \in DOMAIN unpacked THEN unpacked[q] ELSE DirNode]

ExpandDir ==
  /\ phase = "expand" /\ next <= Len(arch) /\ arch[next].kind = "dir"
  /\ LET p == Target(arch[next]) IN
     IF CanMkdir(p) THEN unpacked' = WithDirs(p) /\ next' = next + 1 /\ UNCHANGED phase
     ELSE phase' = "failed" /\ UNCHANGED <<unpacked, next>>
  /\ UNCHANGED <<src, first, linked, todo, arch, told, sourceEdits>>

\* The file is created exclusively; of the recorded mode only x is taken.
Expanded(d, p, e) ==
  [q \in DOMAIN d \cup {p} |-> IF q = p THEN [kind |-> "file", size |-> e.size, exec |-> e.exec, body |-> e.body]
                               ELSE d[q]]

ExpandFile ==
  /\ phase = "expand" /\ next <= Len(arch) /\ arch[next].kind = "file"
  /\ LET p == Target(arch[next])
         ready == p # Top /\ CanMkdir(Front(p))
     IN \/ /\ ready /\ p \notin DOMAIN unpacked
           /\ unpacked' = Expanded(WithDirs(Front(p)), p, arch[next])
           /\ next' = next + 1 /\ UNCHANGED phase
        \* It exists, or the content cannot be written or is not what was declared.
        \/ /\ unpacked' = IF ready THEN WithDirs(Front(p)) ELSE unpacked
           /\ phase' = "failed" /\ UNCHANGED next
  /\ UNCHANGED <<src, first, linked, todo, arch, told, sourceEdits>>

Finish ==
  /\ phase = "expand" /\ next > Len(arch)
  /\ phase' = "done"
  /\ UNCHANGED <<src, first, linked, todo, arch, unpacked, next, told, sourceEdits>>

\* listTree: what the receiver says landed.
ListTree(t) == {[path |-> p, dir |-> t[p].kind = "dir", size |-> t[p].size] : p \in DOMAIN t}

\* verifyRemoteDigest fails closed; the answer may also be lost.
Answer ==
  /\ phase \in {"done", "failed"} /\ told.status = "none"
  /\ \/ phase = "done" /\ told' = Returned("ok", ListTree(unpacked))
     \/ told' = Returned("error", {})
  /\ UNCHANGED <<src, first, linked, todo, arch, phase, unpacked, next, sourceEdits>>

ArchiveNext ==
  \/ VisitDir \/ Visit \/ CopyFile \/ Send \/ SourceEdited
  \/ CheckAll \/ ExpandDir \/ ExpandFile \/ Finish \/ Answer
ArchiveSpec == ArchiveInit /\ [][ArchiveNext]_archiveVars

---------------------------------------------------------------------------
(* Properties. *)

\* What a directory push should deliver: the tree without its links and its
\* special files, nothing runnable, and every directory, empty ones too.
Delivered(t) ==
  [p \in {q \in DOMAIN t : t[q].kind \in {"dir", "file"}} |->
     [kind |-> t[p].kind, size |-> t[p].size, exec |-> FALSE, body |-> t[p].body]]

\* A push that is told it succeeded delivered the directory, and is told of
\* exactly what is in it, if its owner left it alone meanwhile and it was named
\* itself.  Named through a link it arrives as an empty directory, and that is
\* told as a success too.
PushedIsWhole ==
  told.status = "ok" /\ sourceEdits = 0 /\ DOMAIN first # {} =>
    LET due == IF linked THEN <<>> ELSE Delivered(first) IN
    unpacked = due /\ told.entries = ListTree(due)

\* What the files take.
Stored(t) == SumFunction([p \in {q \in DOMAIN t : t[q].kind = "file"} |-> t[p].size])

\* An archive that is refused for what it says creates nothing, and the true sum
\* of what is created never exceeds what one archive may hold.
NothingUnchecked ==
  DOMAIN unpacked # {} =>
    /\ \A i \in DOMAIN arch : SafeName(arch[i]) /\ arch[i].kind \in {"dir", "file"}
    /\ Stored(unpacked) <= MaxBytes

=============================================================================
