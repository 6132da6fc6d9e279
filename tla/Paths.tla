-------------------------------- MODULE Paths --------------------------------
(***************************************************************************)
(* Path resolution: the resolvers of internal/p2p/list.go and              *)
(* internal/p2p/fs.go over a directory tree with symbolic links.           *)
(*                                                                         *)
(* A path is the sequence of its element names, so the separator and the   *)
(* comparison of /srv/rooted with /srv/root have no place here.  A tree is *)
(* a function from the paths that exist to what is there.  What the        *)
(* operating system does (walking a path, creating directories) is         *)
(* modelled from how the code uses it.  File systems that ignore case are  *)
(* left out.                                                               *)
(***************************************************************************)
EXTENDS Integers, FiniteSets, SequencesExt

CONSTANTS
  Cwd,        \* the directory the daemon runs in
  MaxLinks,   \* links one walk may follow before the system gives up
  MaxMissing  \* missing directories a push may ask for

Slash == <<>>
Up == ".."
NoPath == <<"?">>  \* no path: "?" names no file

Modes == {"open", "private", "sealed"}  \* 0755, 0700 and 0500
Node(kind, to, mode, by) == [kind |-> kind, to |-> to, mode |-> mode, by |-> by]

At(t, p) == IF p = Slash THEN "dir" ELSE IF p \in DOMAIN t THEN t[p].kind ELSE "absent"
ModeAt(t, p) == IF p = Slash THEN "open" ELSE t[p].mode
Below(t, p) == {q \in DOMAIN t : IsPrefix(p, q)}

---------------------------------------------------------------------------
(* Walking.  The outcome is a path and one of "ok", "absent", "notdir", "loop". *)

Outcome(status, p) == [status |-> status, path |-> p]

\* Which element of p is the first that is no directory, or Len(p) + 1.
Stop(t, p) ==
  CHOOSE n \in 1..Len(p) + 1 :
    /\ \A m \in 1..n - 1 : At(t, SubSeq(p, 1, m)) = "dir"
    /\ n <= Len(p) => At(t, SubSeq(p, 1, n)) # "dir"

\* The path that is left to walk when the first link on p was read, p if there is none.
PastLink(t, p) ==
  LET n == Stop(t, p) here == SubSeq(p, 1, n) IN
  IF n <= Len(p) /\ At(t, here) = "link" THEN t[here].to \o SubSeq(p, n + 1, Len(p)) ELSE p

\* The paths walked as one link after the other is read.
Walk(t, p) ==
  LET walk[n \in 0..MaxLinks] == IF n = 0 THEN p ELSE PastLink(t, walk[n - 1])
  IN walk

\* Where a walk that has come to q, and reads no more links, ends.
Ends(t, q) ==
  LET n == Stop(t, q)
      here == SubSeq(q, 1, n)
  IN IF n > Len(q) THEN Outcome("ok", q)
     ELSE CASE At(t, here) = "absent" -> Outcome("absent", here)
            [] At(t, here) = "link" -> Outcome("loop", here)
            [] At(t, here) = "file" -> Outcome(IF n = Len(q) THEN "ok" ELSE "notdir", here)
EvalSymlinks(t, p) == Ends(t, Walk(t, p)[MaxLinks])
Real(t, p) == EvalSymlinks(t, p).path

\* What a name is in the directory d a walk has ended in.
Looked(t, d, name) ==
  LET q == Append(d.path, name) IN
  IF d.status # "ok" THEN d
  ELSE IF At(t, d.path) # "dir" THEN Outcome("notdir", q)
  ELSE Outcome(IF At(t, q) = "absent" THEN "absent" ELSE "ok", q)

\* As EvalSymlinks, but what the last element names is not followed.
Lstat(t, p) ==
  IF p = Slash THEN Outcome("ok", Slash) ELSE Looked(t, EvalSymlinks(t, Front(p)), Last(p))

\* filepath.Clean: .. removes the element before it, and nothing at the top.
Clean(p) ==
  LET clean[n \in 0..Len(p)] ==
        IF n = 0 THEN Slash
        ELSE LET q == clean[n - 1] IN
             IF p[n] # Up THEN Append(q, p[n]) ELSE IF q = Slash THEN Slash ELSE Front(q)
  IN clean[Len(p)]

\* A request names an absolute path, or one relative to something.
Abs(r, base) == Clean(IF r.abs THEN r.parts ELSE base \o r.parts)

---------------------------------------------------------------------------
(* The resolvers. *)

PathWithin(p, root) == IsPrefix(root, p)

\* A root that does not resolve is compared as it stands.
RealRoot(t, root) == IF EvalSymlinks(t, root).status = "ok" THEN Real(t, root) ELSE root

\* Mutant: the path is tested as it was asked for.
ResolveAsAsked(t, roots, p) ==
  LET r == EvalSymlinks(t, p) IN
  IF r.status = "ok" /\ \E i \in DOMAIN roots : PathWithin(p, RealRoot(t, roots[i]))
  THEN r.path ELSE NoPath

ResolveWithinRoots(t, roots, p) ==
  LET r == EvalSymlinks(t, p) IN
  IF r.status = "ok" /\ \E i \in DOMAIN roots : PathWithin(r.path, RealRoot(t, roots[i]))
  THEN r.path ELSE NoPath

\* The local listing's own test, made on strings: nothing begins with the "//"
\* it looks for when the root is the top of the file system.
ListSharedFiles(t, roots, p) ==
  LET r == EvalSymlinks(t, p)
      Within(root) == r.path = root \/ (root # Slash /\ PathWithin(r.path, root))
  IN IF r.status = "ok" /\ \E i \in DOMAIN roots : Within(RealRoot(t, roots[i]))
     THEN r.path ELSE NoPath

\* The longest prefix of p something is at; what is missing below it is created later.
Anchor(t, p) ==
  LET Reached(n) == Lstat(t, SubSeq(p, 1, n)).status # "absent"
      n == CHOOSE k \in 0..Len(p) : Reached(k) /\ \A j \in k+1..Len(p) : ~Reached(j)
  IN SubSeq(p, 1, n)

\* Mutant: the missing directories are joined to the path as it was asked for.
ParentAsAsked(t, roots, parent) ==
  LET probe == Anchor(t, parent)
      resolved == ResolveWithinRoots(t, roots, probe)
  IN IF Lstat(t, probe).status # "ok" \/ resolved = NoPath THEN NoPath
     ELSE IF probe = parent THEN resolved ELSE parent

ResolveNewParent(t, roots, parent) ==
  LET probe == Anchor(t, parent)
      missing == Len(parent) - Len(probe)
      resolved == ResolveWithinRoots(t, roots, probe)
  IN IF missing > MaxMissing \/ Lstat(t, probe).status # "ok" \/ resolved = NoPath THEN NoPath
     ELSE resolved \o SubSeq(parent, Len(probe) + 1, Len(parent))

\* The parent is resolved in full; the base name is not, and must not be a link.
ResolveWritePath(t, pol, r) ==
  LET abs == Abs(r, IF pol.roots = <<>> THEN Cwd ELSE Head(pol.roots))
      parent == ResolveNewParent(t, pol.roots, Front(abs))
      dst == Append(parent, Last(abs))
  IN IF \/ r.parts = <<>> \/ pol.mode # "shared-roots" \/ pol.roots = <<>>
        \/ abs = Slash \/ parent = NoPath
     THEN NoPath
     ELSE IF At(t, dst) = "link" THEN NoPath ELSE dst

\* The directory a push takes its permissions from, or NoPath.
NearestExistingDir(t, p) ==
  LET Found(n) == EvalSymlinks(t, SubSeq(p, 1, n)).status # "absent"
      n == CHOOSE k \in 0..Len(p) : Found(k) /\ \A j \in k+1..Len(p) : ~Found(j)
      at == EvalSymlinks(t, SubSeq(p, 1, n))
  IN IF at.status = "ok" /\ At(t, at.path) = "dir" THEN at.path ELSE NoPath

---------------------------------------------------------------------------
(* Creating. *)

Writable(t, d) == At(t, d) = "dir" /\ ModeAt(t, d) # "sealed"

Put(t, p, node) == [q \in DOMAIN t \cup {p} |-> IF q = p THEN node ELSE t[q]]

\* os.MkdirAll, one name: what is there is entered, what is not is created.
Progress(t, p, ok) == [tree |-> t, at |-> p, ok |-> ok]
Enter(m, name, mode, by) ==
  LET new == Append(m.at, name)
      found == EvalSymlinks(m.tree, new)
  IN IF ~m.ok THEN m
     ELSE IF found.status = "ok" /\ At(m.tree, found.path) = "dir"
     THEN Progress(m.tree, found.path, TRUE)
     ELSE IF found = Outcome("absent", new) /\ Writable(m.tree, m.at)
     THEN Progress(Put(m.tree, new, Node("dir", Slash, mode, by)), new, TRUE)
     ELSE Progress(m.tree, m.at, FALSE)

\* os.MkdirAll of p, name by name and as far as it gets.
MkdirAll(t, p, mode, by) ==
  LET made[n \in 0..Len(p)] ==
        IF n = 0 THEN Progress(t, Slash, TRUE) ELSE Enter(made[n - 1], p[n], mode, by)
  IN made[Len(p)]

Drop(t, p) == [q \in DOMAIN t \ Below(t, p) |-> t[q]]

\* Rename the subtree at p to q.
Moved(t, p, q) ==
  [r \in (DOMAIN t \ Below(t, p)) \cup {q \o SubSeq(s, Len(p) + 1, Len(s)) : s \in Below(t, p)} |->
     IF IsPrefix(q, r) THEN t[p \o SubSeq(r, Len(q) + 1, Len(r))] ELSE t[r]]

=============================================================================
