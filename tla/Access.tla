------------------------------- MODULE Access -------------------------------
(***************************************************************************)
(* What a paired device may reach: the gate of serveFS and serveList, the  *)
(* reads and listings behind it, and the way a push finds its destination  *)
(* (internal/p2p/fs.go, internal/p2p/list.go).  Paths gives the resolvers. *)
(*                                                                         *)
(* Resolving a path and using it are separate system calls, and the owner  *)
(* of the device goes on working in between: directories move, vanish and  *)
(* are replaced by links.  One operation is followed at a time, as they    *)
(* share nothing but the tree.                                             *)
(***************************************************************************)
EXTENDS Paths

CONSTANTS
  Trees,     \* what the file system may hold at first
  Asks,      \* the operations paired devices ask for
  Movable, Targets, Links, Made,  \* what the owner may move, where to, what to link, what to make
  Closing,   \* whether the owner also takes a directory's write permission
  MaxEdits   \* bound: steps of the owner

Ops == {"stat", "list", "read", "share", "write"}

\* The name of a staging file stands for a fresh one: nobody else uses it.
TempName == ".lantern-push"
Temp(d) == Append(d, TempName)
Ordinary(p) == p \in Seq(STRING) /\ \A i \in DOMAIN p : p[i] # TempName

Request ==
  [kind : Ops, path : [abs : BOOLEAN, parts : Seq(STRING)], overwrite : BOOLEAN, digest : BOOLEAN,
   policy : [trust : BOOLEAN, mode : {"ok", "error"}, reads : Seq(Seq(STRING)),
             write : [mode : {"denied", "shared-roots"}, roots : Seq(Seq(STRING))]]]

FileNode == [kind : {"dir", "file", "link"}, to : Seq(STRING), mode : Modes, by : {"owner", "push"}]

\* What there is lies in a directory.
IsFileSystem(t) ==
  \A p \in DOMAIN t : /\ p \in Seq(STRING) /\ p # Slash
                     /\ t[p] \in FileNode /\ At(t, Front(p)) = "dir"

ASSUME AccessAssumption ==
  /\ \A t \in Trees : IsFileSystem(t) /\ \A p \in DOMAIN t : Ordinary(p) /\ t[p].by = "owner"
  /\ \A a \in Asks : /\ a \in Request /\ Ordinary(a.path.parts)
                    /\ \A i \in DOMAIN a.policy.write.roots : Ordinary(a.policy.write.roots[i])
  /\ Ordinary(Cwd) /\ NoPath \in Seq(STRING) /\ TempName \in STRING
  /\ \A p \in Movable \cup Targets \cup Made : Ordinary(p) /\ p # Slash
  /\ Links \subseteq Seq(STRING)
  /\ MaxLinks \in Nat /\ MaxMissing \in Nat /\ MaxEdits \in Nat

VARIABLES
  tree,   \* the file system
  op,     \* the operation: its kind, its path and what the policy said
  pc,     \* the step serveFS is at
  at,     \* the resolved path
  perm,   \* the mode a push gives what it creates
  quiet,  \* history: the owner did nothing since the operation began
  sure,   \* history: nor since the path was last resolved
  edits   \* steps taken against the bound

accessVars == <<tree, op, pc, at, perm, quiet, sure, edits>>

Reads == Ops \ {"write"}
Pushed == {p \in DOMAIN tree : tree[p].by = "push"}
Ended == {"served", "refused", "failed", "done"}

AccessTypeOK ==
  /\ IsFileSystem(tree)
  /\ op \in Asks
  /\ pc \in {"gate", "open", "check", "perm", "mkdir", "recheck", "stage", "content", "place"} \cup Ended
  /\ at \in Seq(STRING) /\ perm \in Modes
  /\ quiet \in BOOLEAN /\ sure \in BOOLEAN /\ edits \in 0..MaxEdits

AccessInit ==
  /\ tree \in Trees /\ op \in Asks
  /\ pc = "gate" /\ at = NoPath /\ perm = "open"
  /\ quiet = TRUE /\ sure = TRUE /\ edits = 0

---------------------------------------------------------------------------
(* The owner of the device. *)

OwnerEdits(t) ==
  /\ edits < MaxEdits /\ edits' = edits + 1
  /\ pc \notin Ended
  /\ tree' = t
  /\ quiet' = FALSE /\ sure' = FALSE
  /\ UNCHANGED <<op, pc, at, perm>>

OwnerRemoves == \E p \in Movable \cap DOMAIN tree : OwnerEdits(Drop(tree, p))

OwnerMoves == \E p \in Movable \cap DOMAIN tree, q \in Targets \ DOMAIN tree :
  /\ At(tree, Front(q)) = "dir" /\ ~IsPrefix(p, q)
  /\ OwnerEdits(Moved(tree, p, q))

OwnerLinks == \E p \in Movable \ DOMAIN tree, to \in Links :
  /\ At(tree, Front(p)) = "dir"
  /\ OwnerEdits(Put(tree, p, Node("link", to, "open", "owner")))

OwnerMakes == \E p \in Made \ DOMAIN tree, kind \in {"dir", "file"} :
  /\ At(tree, Front(p)) = "dir"
  /\ OwnerEdits(Put(tree, p, Node(kind, Slash, "open", "owner")))

\* The owner takes the write permission off a directory.
OwnerSeals == Closing /\ \E p \in Movable \cap DOMAIN tree :
  /\ tree[p].kind = "dir" /\ tree[p].mode # "sealed"
  /\ OwnerEdits([tree EXCEPT ![p].mode = "sealed"])

---------------------------------------------------------------------------
(* The gate, and reads. *)

Goto(step) == pc' = step /\ UNCHANGED <<tree, op, perm, quiet, edits>>
Refuse == Goto("refused") /\ UNCHANGED <<at, sure>>

\* Resolve a path and go on with step, or refuse.
Resolving(p, step) ==
  IF p = NoPath THEN Refuse ELSE Goto(step) /\ at' = p /\ sure' = TRUE

\* A read needs roots for this peer, whatever a push would need.
Readable(pol) == pol.trust /\ pol.reads # <<>>
GateRead ==
  /\ pc = "gate" /\ op.kind \in Reads
  /\ IF ~Readable(op.policy) THEN Refuse
     ELSE IF op.kind = "list" /\ Clean(op.path.parts) = Slash /\ ~op.path.abs
     THEN Goto("served") /\ UNCHANGED <<at, sure>>  \* the roots themselves
     ELSE Resolving(ResolveWithinRoots(tree, op.policy.reads, Abs(op.path, Cwd)), "open")

\* The resolved path is opened by a call of its own, which follows links.
Opens(kind) == LET f == EvalSymlinks(tree, at) IN f.status = "ok" /\ At(tree, f.path) \in kind
Wanted == IF op.kind = "stat" THEN {"dir", "file"} ELSE IF op.kind = "list" THEN {"dir"} ELSE {"file"}
OpenRead ==
  /\ pc = "open"
  /\ IF Opens(Wanted)
     THEN Goto("served") /\ at' = Real(tree, at) /\ UNCHANGED sure
     ELSE Refuse

---------------------------------------------------------------------------
(* Pushes, up to the content and from there to the destination. *)

\* fsWrite: the grant, the path, what is there, the digest.
GateWrite ==
  /\ pc = "gate" /\ op.kind = "write"
  /\ IF ~op.policy.trust \/ op.policy.mode = "error" THEN Refuse
     ELSE Resolving(ResolveWritePath(tree, op.policy.write, op.path), "check")

\* Lstat the destination; a digest must have been sent.
Check ==
  /\ pc = "check"
  /\ LET l == Lstat(tree, at) IN
     IF \/ l.status \notin {"ok", "absent"}
        \/ l.status = "ok" /\ (At(tree, l.path) = "dir" \/ ~op.overwrite)
        \/ ~op.digest
     THEN Refuse ELSE Goto("perm") /\ UNCHANGED <<at, sure>>

\* Mutant: created directories and files get a mode of their own.
FixedPerm ==
  /\ pc = "perm"
  /\ perm' = "open" /\ pc' = "mkdir"
  /\ UNCHANGED <<tree, op, at, quiet, sure, edits>>

InheritPerm ==
  /\ pc = "perm"
  /\ LET d == NearestExistingDir(tree, Front(at)) IN
     IF d = NoPath THEN Refuse
     ELSE /\ perm' = ModeAt(tree, d) /\ pc' = "mkdir"
          /\ UNCHANGED <<tree, op, at, quiet, sure, edits>>

\* What was created stays when a later directory cannot be.
MakeParents ==
  /\ pc = "mkdir"
  /\ LET made == MkdirAll(tree, Front(at), perm, "push") IN
     /\ tree' = made.tree
     /\ pc' = IF made.ok THEN "recheck" ELSE "refused"
  /\ UNCHANGED <<op, at, perm, quiet, sure, edits>>

\* Mutant: the check made before the parents were created is trusted.
NoRecheck == pc = "recheck" /\ Goto("stage") /\ sure' = TRUE /\ UNCHANGED at

\* The parents exist now: the destination must resolve to what it did before.
Recheck ==
  /\ pc = "recheck"
  /\ IF ResolveWritePath(tree, op.policy.write, op.path) = at
     THEN Goto("stage") /\ sure' = TRUE /\ UNCHANGED at
     ELSE Refuse

\* os.CreateTemp follows whatever the path has become.
Stage ==
  /\ pc = "stage"
  /\ LET d == EvalSymlinks(tree, Front(at)) IN
     IF d.status = "ok" /\ Writable(tree, d.path)
     THEN /\ tree' = Put(tree, Temp(d.path), Node("file", Slash, "private", "push"))
          /\ pc' = "content"
          /\ UNCHANGED <<op, at, perm, quiet, sure, edits>>
     ELSE Refuse

\* Mutant: the staging file stays when the content was not taken.
KeepTemp(t) == t

\* The deferred removal goes by the staging file's name.
RemoveTemp(t) ==
  LET f == EvalSymlinks(t, Temp(Front(at))) IN
  IF f.status = "ok" /\ Writable(t, Front(f.path)) THEN Drop(t, f.path) ELSE t

\* The content arrives and matches its digest, or the push ends here.
Content ==
  /\ pc = "content"
  /\ \/ pc' = "place" /\ UNCHANGED tree
     \/ pc' = "failed" /\ tree' = RemoveTemp(tree)
  /\ UNCHANGED <<op, at, perm, quiet, sure, edits>>

\* Chmod and rename go by name as well.
Place ==
  /\ pc = "place"
  /\ LET d == EvalSymlinks(tree, Front(at))
         dst == Append(d.path, Last(at))
     IN IF /\ d.status = "ok" /\ At(tree, Temp(d.path)) = "file"
           /\ Writable(tree, d.path) /\ At(tree, dst) # "dir"
        THEN /\ tree' = Put(Drop(tree, Temp(d.path)), dst, Node("file", Slash, perm, "push"))
             /\ pc' = "done"
        ELSE tree' = RemoveTemp(tree) /\ pc' = "failed"
  /\ UNCHANGED <<op, at, perm, quiet, sure, edits>>

Owner == OwnerRemoves \/ OwnerMoves \/ OwnerLinks \/ OwnerMakes \/ OwnerSeals
Serve == \/ GateRead \/ OpenRead
         \/ GateWrite \/ Check \/ InheritPerm \/ MakeParents \/ Recheck \/ Stage \/ Content \/ Place
AccessNext == Owner \/ Serve
AccessSpec == AccessInit /\ [][AccessNext]_accessVars

---------------------------------------------------------------------------
(* Properties. *)

InsideRoots(p, roots) == \E i \in DOMAIN roots : PathWithin(p, RealRoot(tree, roots[i]))

\* Whatever a push creates on the way, directory, staging file or stored file,
\* is really inside a writable root: every system call goes by name, and only
\* what the owner does between the last resolution and that call escapes it.
WritesConfined ==
  [][ \A p \in Pushed' \ Pushed :
        pc' # pc /\ sure => InsideRoots(p, op.policy.write.roots) ]_accessVars

\* What a read, a listing or a code opens is really inside a root this device
\* may read, however many links the path went through.
ReadsConfined ==
  [][ pc = "open" /\ pc' = "served" /\ sure => InsideRoots(at', op.policy.reads) ]_accessVars

\* A push that had the device to itself leaves no trace unless it landed: one
\* refused before its content created nothing, not even the directories on the
\* way, and one that ended later left no staging file.
LeavesNothing ==
  quiet => /\ pc = "refused" => Pushed = {}
           /\ pc \in Ended => \A p \in Pushed : Last(p) # TempName

\* A push never widens access: what it creates in a directory only its owner
\* may enter stays as closed as that directory.
NeverWidens ==
  [][ quiet' => \A p \in Pushed' \ Pushed :
        ModeAt(tree', Front(p)) # "open" => tree'[p].mode # "open" ]_accessVars

\* What is created, read, listed or resolved is really inside the roots its
\* policy names, and what a push creates is as closed as the directory it is in.
AccessConfined == WritesConfined /\ ReadsConfined /\ NeverWidens

\* A path resolved twice means the same.  The destination of a push the owner
\* does not disturb is what it was before the missing directories were created,
\* so the second check refuses no push on its own account; and the path a code
\* is answered with is one the receiver can then read, and is what the owner's
\* own listing shows.
ResolutionsAgree ==
  /\ quiet /\ pc = "recheck" => ResolveWritePath(tree, op.policy.write, op.path) = at
  /\ LET asked == Abs(op.path, Cwd)
         p == ResolveWithinRoots(tree, op.policy.reads, asked)
     IN /\ p # NoPath => ResolveWithinRoots(tree, op.policy.reads, p) = p
        /\ ListSharedFiles(tree, op.policy.reads, asked) = p

=============================================================================
