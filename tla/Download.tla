------------------------------ MODULE Download ------------------------------
(***************************************************************************)
(* The receiving side of a share: receiveFile (the share-code transfer)    *)
(* and FetchFS (the read path) of internal/p2p/transfer.go, with the       *)
(* resume checkpoints of internal/storage/resume.go, on one device and one *)
(* output directory.                                                       *)
(*                                                                         *)
(* Several downloads run at once in one process.  Each holds an in-memory  *)
(* claim, streams the body into a partial file named after the code and    *)
(* the file, hashes what it writes, compares the hash with the digest the  *)
(* sender registered, and publishes the partial under its final name.      *)
(* The process may die between any two steps; what is on disk stays.       *)
(*                                                                         *)
(* Abstractions.                                                           *)
(*   - A file's content is a sequence of cells; one read delivers one cell.*)
(*   - A file system name refers to an inode; content belongs to inodes,   *)
(*     so that a descriptor outlives the name it was opened by.            *)
(*   - The sending device is the environment: it registers, edits and      *)
(*     withdraws the files behind the codes at any time.                   *)
(*   - SHA-256 is a constructor: digests are equal when contents are.      *)
(***************************************************************************)
EXTENDS Integers, Sequences, FiniteSets

CONSTANTS
  Workers,     \* goroutines that can each run one download
  Codes,       \* share codes
  Names,       \* file names a sender may announce
  Cells,       \* the bytes of a body, one cell per read
  Contents,    \* the contents senders and users may write
  Inodes,      \* the file system's inodes
  RoutesOf,    \* RoutesOf[c]: the routes by which this device fetches c
  HardLinks,   \* whether the file system can make hard links
  MaxEdits,    \* bound: steps of the sender and of the user
  MaxFaults,   \* bound: crashes, cancellations and I/O failures
  None,        \* absent
  Hole         \* a cell no one wrote (a sparse region reads as zeros)

ASSUME ConstantsAssumption ==
  /\ Cells # {} /\ Hole \notin Cells
  /\ Contents \subseteq Seq(Cells)
  /\ RoutesOf \in [Codes -> SUBSET {"share", "read"}]
  /\ HardLinks \in BOOLEAN
  /\ MaxEdits \in Nat /\ MaxFaults \in Nat
  /\ None \notin Names \cup Inodes \cup Codes
  /\ None # "share" /\ None # "read"

VARIABLES
  offer,    \* offer[c]: the share registered under c on the sending device
  body,     \* body[c]: what the shared file holds now
  dest,     \* dest[n]: the inode at outputDir/n
  partial,  \* partial[<<c, n>>]: the inode at .lantern-<c>-<n>.part
  data,     \* data[i]: the content of inode i
  ckpt,     \* ckpt[c]: the checkpoint in .<c>.lantern-state
  claims,   \* Node.downloads, the keys in use; lost in a crash
  dl,       \* dl[w]: the local state of worker w; lost in a crash
  vouched,  \* history: <<name, digest>> pairs a share or the user stands for
  edits, faults  \* steps taken against the two bounds

envVars  == <<offer, body>>
diskVars == <<dest, partial, data, ckpt>>
vars == <<offer, body, diskVars, claims, dl, vouched, edits, faults>>

-----------------------------------------------------------------------------
(* Values *)

Bytes == Seq(Cells \cup {Hole})
Digest(s) == [sha256 |-> s]
NoDigest == [sha256 |-> None]
Digests == [sha256 : Bytes \cup {None}]

Info == [name : Names, size : Nat, digest : Digests]
ResumeState == [name : Names, size : Nat, off : Nat]
Key == [code : Codes, name : Names \cup {None}]

ASSUME NoneAssumption == None \notin Info /\ None \notin ResumeState /\ None \notin Bytes

\* Before the claim, between the claim and the open, with the file open, and
\* after it was closed.
Steps == {"idle", "resolved", "admitted", "checked", "claimed", "loaded",
          "offered", "ready", "opened", "body", "complete", "verified",
          "free", "linked", "landed", "discard", "discarded"}

Idle == [pc |-> "idle", code |-> None, route |-> None, info |-> None,
         res |-> None, fd |-> None, hash |-> <<>>]

Workspace == [pc : Steps, code : Codes \cup {None},
              route : {"share", "read", None}, info : Info \cup {None},
              res : ResumeState \cup {None}, fd : Inodes \cup {None},
              hash : Bytes]

TypeOK ==
  /\ offer \in [Codes -> Info \cup {None}]
  /\ body \in [Codes -> Seq(Cells)]
  /\ dest \in [Names -> Inodes \cup {None}]
  /\ partial \in [Codes \X Names -> Inodes \cup {None}]
  /\ data \in [Inodes -> Bytes]
  /\ ckpt \in [Codes -> ResumeState \cup {None}]
  /\ claims \subseteq Key
  /\ dl \in [Workers -> Workspace]
  /\ vouched \subseteq Names \X Digests
  /\ edits \in 0..MaxEdits /\ faults \in 0..MaxFaults

Init ==
  /\ offer = [c \in Codes |-> None]
  /\ body = [c \in Codes |-> <<>>]
  /\ dest = [n \in Names |-> None]
  /\ partial = [p \in Codes \X Names |-> None]
  /\ data = [i \in Inodes |-> <<>>]
  /\ ckpt = [c \in Codes |-> None]
  /\ claims = {}
  /\ dl = [w \in Workers |-> Idle]
  /\ vouched = {}
  /\ edits = 0 /\ faults = 0

-----------------------------------------------------------------------------
(* Helpers *)

\* The claim key.  FetchFS joins the file name it resolved; receiveFile
\* claims before it knows the name, so its key ends at the code.
KeyOf(d) == [code |-> d.code,
             name |-> IF d.route = "read" THEN d.info.name ELSE None]

Path(d) == <<d.code, d.info.name>>
Received(d) == Len(d.hash)

\* An inode that nothing refers to: no name and no open descriptor.
Unused(i) ==
  /\ \A n \in Names : dest[n] # i
  /\ \A p \in Codes \X Names : partial[p] # i
  /\ \A w \in Workers : dl[w].fd # i
Fresh == CHOOSE i \in Inodes : Unused(i)

\* File write at a descriptor's offset, which is the bytes received so far.
WriteAt(s, off, x) ==
  [k \in 1..(IF Len(s) > off THEN Len(s) ELSE off + 1) |->
     IF k = off + 1 THEN x ELSE IF k <= Len(s) THEN s[k] ELSE Hole]

\* LoadResume accepts a checkpoint whose partial holds the bytes it counts.
Resumable(c) ==
  /\ ckpt[c] # None
  /\ partial[<<c, ckpt[c].name>>] # None
  /\ Len(data[partial[<<c, ckpt[c].name>>]]) >= ckpt[c].off

\* Where the body starts: at the checkpoint, if it is for the same file.
Offset(d) == IF d.res # None /\ d.res.name = d.info.name THEN d.res.off ELSE 0

\* Mutant: the checkpoint is written as if the whole body had arrived.
SaveAnnounced(d) ==
  ckpt' = [ckpt EXCEPT ![d.code] = [name |-> d.info.name, size |-> d.info.size,
                                    off  |-> d.info.size]]

\* saveCheckpoint: SaveResume refuses an offset past the announced size.
SaveCheckpoint(d) ==
  ckpt' = IF Received(d) <= d.info.size
          THEN [ckpt EXCEPT ![d.code] = [name |-> d.info.name,
                                         size |-> d.info.size,
                                         off  |-> Received(d)]]
          ELSE ckpt

\* The deferred release of the claim, and the goroutine's return.
Return(w) ==
  /\ claims' = claims \ {KeyOf(dl[w])}
  /\ dl' = [dl EXCEPT ![w] = Idle]

Goto(w, step) == dl' = [dl EXCEPT ![w].pc = step]

Fault == faults < MaxFaults /\ faults' = faults + 1
Edit == edits < MaxEdits /\ edits' = edits + 1

-----------------------------------------------------------------------------
(* The sending device and the user *)

\* RegisterShareHandler hashes the file and stores name, size and digest; a
\* sender of protocol revision 1 may offer no digest.
Register(c, n, s, digest) ==
  /\ Edit
  /\ offer' = [offer EXCEPT ![c] = [name |-> n, size |-> Len(s), digest |-> digest]]
  /\ body' = [body EXCEPT ![c] = s]
  /\ vouched' = IF digest = NoDigest THEN vouched ELSE vouched \cup {<<n, digest>>}
  /\ UNCHANGED <<diskVars, claims, dl, faults>>

\* The shared file is edited in place; the registered digest is not.
EditSource(c, s) ==
  /\ Edit
  /\ offer[c] # None
  /\ body' = [body EXCEPT ![c] = s]
  /\ UNCHANGED <<offer, diskVars, claims, dl, vouched, faults>>

Withdraw(c) ==
  /\ Edit
  /\ offer[c] # None
  /\ offer' = [offer EXCEPT ![c] = None]
  /\ UNCHANGED <<body, diskVars, claims, dl, vouched, faults>>

\* The user of the receiving device creates a file where a download may land.
UserPlaces(n, s) ==
  /\ Edit
  /\ dest[n] = None
  /\ \E i \in Inodes : Unused(i)
  /\ dest' = [dest EXCEPT ![n] = Fresh]
  /\ data' = [data EXCEPT ![Fresh] = s]
  /\ vouched' = vouched \cup {<<n, Digest(s)>>}
  /\ UNCHANGED <<envVars, partial, ckpt, claims, dl, faults>>

UserRemoves(n) ==
  /\ Edit
  /\ dest[n] # None
  /\ dest' = [dest EXCEPT ![n] = None]
  /\ UNCHANGED <<envVars, partial, data, ckpt, claims, dl, vouched, faults>>

-----------------------------------------------------------------------------
(* The read path, up to the open: resolve, claim, check, load *)

\* ResolveShare answers with the file's size as it is now and the digest
\* computed when the share was registered.
Resolve(w, c) ==
  /\ dl[w].pc = "idle"
  /\ "read" \in RoutesOf[c]
  /\ offer[c] # None
  /\ dl' = [dl EXCEPT ![w] = [Idle EXCEPT !.pc = "resolved", !.code = c, !.route = "read",
                                !.info = [name |-> offer[c].name, size |-> Len(body[c]),
                                          digest |-> offer[c].digest]]]
  /\ UNCHANGED <<envVars, diskVars, claims, vouched, edits, faults>>

\* Mutant: the claim is taken without looking whether it is held.
ClaimAnyway(w) ==
  /\ dl[w].pc = "resolved"
  /\ claims' = claims \cup {KeyOf(dl[w])}
  /\ Goto(w, "admitted")
  /\ UNCHANGED <<envVars, diskVars, vouched, edits, faults>>

ClaimResolved(w) ==
  /\ dl[w].pc = "resolved"
  /\ \/ /\ KeyOf(dl[w]) \notin claims
        /\ claims' = claims \cup {KeyOf(dl[w])}
        /\ Goto(w, "admitted")
     \/ /\ KeyOf(dl[w]) \in claims
        /\ dl' = [dl EXCEPT ![w] = Idle]
        /\ UNCHANGED claims
  /\ UNCHANGED <<envVars, diskVars, vouched, edits, faults>>

(* The share-code transfer, up to the open: claim, load, header, check *)

ClaimShare(w, c) ==
  LET d == [Idle EXCEPT !.pc = "claimed", !.code = c, !.route = "share"] IN
  /\ dl[w].pc = "idle"
  /\ "share" \in RoutesOf[c]
  /\ KeyOf(d) \notin claims
  /\ claims' = claims \cup {KeyOf(d)}
  /\ dl' = [dl EXCEPT ![w] = d]
  /\ UNCHANGED <<envVars, diskVars, vouched, edits, faults>>

\* serveShare answers for a registered share, unless the file's size changed
\* or the requested offset is past its end.
Served(d) ==
  /\ offer[d.code] # None
  /\ Len(body[d.code]) = offer[d.code].size
  /\ d.res # None => d.res.off <= offer[d.code].size

ReadHeader(w) ==
  /\ dl[w].pc = "loaded"
  /\ \/ /\ Served(dl[w])
        /\ dl' = [dl EXCEPT ![w].pc = "offered", ![w].info = offer[dl[w].code]]
        /\ UNCHANGED claims
     \/ /\ ~Served(dl[w])
        /\ Return(w)
  /\ UNCHANGED <<envVars, diskVars, vouched, edits, faults>>

(* Steps the two routes share, in their own order *)

\* Mutant: a checkpoint is believed whatever the partial holds.
LoadUnchecked(w) ==
  /\ dl[w].pc \in {"claimed", "checked"}
  /\ dl' = [dl EXCEPT ![w].res = ckpt[dl[w].code],
                      ![w].pc = IF dl[w].route = "share" THEN "loaded" ELSE "ready"]
  /\ UNCHANGED <<envVars, diskVars, claims, vouched, edits, faults>>

\* LoadResume: a checkpoint its partial does not back is removed.
Load(w) ==
  LET c == dl[w].code IN
  /\ dl[w].pc \in {"claimed", "checked"}
  /\ dl' = [dl EXCEPT ![w].res = IF Resumable(c) THEN ckpt[c] ELSE None,
                      ![w].pc = IF dl[w].route = "share" THEN "loaded" ELSE "ready"]
  /\ ckpt' = IF Resumable(c) THEN ckpt ELSE [ckpt EXCEPT ![c] = None]
  /\ UNCHANGED <<envVars, dest, partial, data, claims, vouched, edits, faults>>

\* A sender that offers no digest is refused before any content is asked for.
RefuseUndigested(w) ==
  /\ dl[w].pc \in {"admitted", "offered"}
  /\ dl[w].info.digest = NoDigest
  /\ ckpt' = [ckpt EXCEPT ![dl[w].code] = None]
  /\ Return(w)
  /\ UNCHANGED <<envVars, dest, partial, data, vouched, edits, faults>>

\* receiveFile refuses a header whose name differs from its checkpoint's.
Renamed(d) == d.route = "share" /\ d.res # None /\ d.res.name # d.info.name

CheckDestination(w) ==
  /\ dl[w].pc \in {"admitted", "offered"}
  /\ dl[w].info.digest # NoDigest
  /\ \/ /\ ~Renamed(dl[w])
        /\ dest[dl[w].info.name] = None
        /\ Goto(w, IF dl[w].route = "share" THEN "ready" ELSE "checked")
        /\ UNCHANGED claims
     \/ /\ Renamed(dl[w]) \/ dest[dl[w].info.name] # None
        /\ Return(w)
  /\ UNCHANGED <<envVars, diskVars, vouched, edits, faults>>

\* The peer is unreachable, drops the stream, or the caller cancels.
Abort(w) ==
  /\ Fault
  /\ dl[w].pc \in {"admitted", "checked", "claimed", "loaded", "offered", "ready"}
  /\ Return(w)
  /\ UNCHANGED <<envVars, diskVars, vouched, edits>>

-----------------------------------------------------------------------------
(* The body *)

\* OpenFile creates the partial, or truncates it when nothing is resumed; a
\* resumed one is cut at the offset and what is left of it is hashed.
Open(w) ==
  LET d   == dl[w]
      off == Offset(d)
      new == partial[Path(d)] = None
      i   == IF new THEN Fresh ELSE partial[Path(d)]
      old == IF new THEN <<>> ELSE data[i]
  IN
  /\ d.pc = "ready"
  /\ new => \E j \in Inodes : Unused(j)
  /\ partial' = [partial EXCEPT ![Path(d)] = i]
  /\ \/ /\ off <= Len(old)
        /\ data' = [data EXCEPT ![i] = SubSeq(old, 1, off)]
        /\ dl' = [dl EXCEPT ![w].pc = "opened", ![w].fd = i, ![w].hash = SubSeq(old, 1, off)]
        /\ UNCHANGED claims
     \/ /\ off > Len(old)
        /\ data' = [data EXCEPT ![i] = old]
        /\ Return(w)
  /\ UNCHANGED <<envVars, dest, ckpt, vouched, edits, faults>>

\* The first checkpoint, before any byte is read.  The share route then reads
\* while bytes are missing; the read path always asks once.
FirstCheckpoint(w) ==
  LET d == dl[w] IN
  /\ d.pc = "opened"
  /\ SaveCheckpoint(d)
  /\ \/ /\ Received(d) <= d.info.size
        /\ Goto(w, IF d.route = "share" /\ Received(d) = d.info.size THEN "complete" ELSE "body")
        /\ UNCHANGED claims
     \/ /\ Received(d) > d.info.size
        /\ Return(w)
  /\ UNCHANGED <<envVars, dest, partial, data, vouched, edits, faults>>

\* One read: hash it, then write it to the partial.  The read path stops when
\* the peer reports the end of the file, the share route at the announced size.
Chunk(w) ==
  LET d == dl[w]
      x == body[d.code][Received(d) + 1]
      end == IF d.route = "share" THEN d.info.size ELSE Len(body[d.code])
  IN
  /\ d.pc = "body"
  /\ Received(d) < Len(body[d.code])
  /\ data' = [data EXCEPT ![d.fd] = WriteAt(data[d.fd], Received(d), x)]
  /\ dl' = [dl EXCEPT ![w].hash = Append(d.hash, x),
                      ![w].pc = IF Received(d) + 1 = end THEN "complete" ELSE "body"]
  /\ UNCHANGED <<envVars, dest, partial, ckpt, claims, vouched, edits, faults>>

EndOfBody(w) ==
  /\ dl[w].pc = "body"
  /\ Received(dl[w]) >= Len(body[dl[w].code])
  /\ Goto(w, "complete")
  /\ UNCHANGED <<envVars, diskVars, claims, vouched, edits, faults>>

\* Cancelled, or the stream failed: checkpoint on the way out.
Interrupt(w) ==
  /\ Fault
  /\ dl[w].pc = "body"
  /\ SaveCheckpoint(dl[w])
  /\ Return(w)
  /\ UNCHANGED <<envVars, dest, partial, data, vouched, edits>>

\* FetchFS does not compare sizes when the announced size is zero.
SizeWrong(d) ==
  /\ Received(d) # d.info.size
  /\ d.route = "share" \/ d.info.size > 0

Truncated(w) ==
  /\ dl[w].pc = "complete"
  /\ SizeWrong(dl[w])
  /\ SaveCheckpoint(dl[w])
  /\ Return(w)
  /\ UNCHANGED <<envVars, dest, partial, data, vouched, edits, faults>>

\* Mutant: the digest is not compared.
VerifyNothing(w) ==
  /\ dl[w].pc = "complete"
  /\ ~SizeWrong(dl[w])
  /\ dl' = [dl EXCEPT ![w].pc = "verified", ![w].fd = None]
  /\ UNCHANGED <<envVars, diskVars, claims, vouched, edits, faults>>

\* The digest decides.  On a mismatch the checkpoint is saved first and
\* removed by the clean-up, in that order.
Verify(w) ==
  LET d == dl[w] IN
  /\ d.pc = "complete"
  /\ ~SizeWrong(d)
  /\ \/ /\ Digest(d.hash) = d.info.digest
        /\ dl' = [dl EXCEPT ![w].pc = "verified", ![w].fd = None]
        /\ UNCHANGED ckpt
     \/ /\ Digest(d.hash) # d.info.digest
        /\ dl' = [dl EXCEPT ![w].pc = "discard", ![w].fd = None]
        /\ SaveCheckpoint(d)
  /\ UNCHANGED <<envVars, dest, partial, data, claims, vouched, edits, faults>>

-----------------------------------------------------------------------------
(* publishIfAbsent *)

\* link(2): create the final name for the partial's inode, or fail.
Link(w) ==
  LET p == Path(dl[w]) IN
  /\ HardLinks
  /\ dl[w].pc = "verified"
  /\ \/ /\ partial[p] # None /\ dest[p[2]] = None
        /\ dest' = [dest EXCEPT ![p[2]] = partial[p]]
        /\ Goto(w, "linked")
     \/ /\ partial[p] = None \/ dest[p[2]] # None
        /\ Goto(w, "discard")
        /\ UNCHANGED dest
  /\ UNCHANGED <<envVars, partial, data, ckpt, claims, vouched, edits, faults>>

\* Dropping the staged name leaves one name for the content.
Unlink(w) ==
  LET p == Path(dl[w]) IN
  /\ dl[w].pc = "linked"
  /\ Goto(w, IF partial[p] # None THEN "landed" ELSE "discard")
  /\ partial' = [partial EXCEPT ![p] = None]
  /\ UNCHANGED <<envVars, dest, data, ckpt, claims, vouched, edits, faults>>

\* Without hard links: check, then rename, with a window between the two.
CheckAgain(w) ==
  /\ ~HardLinks
  /\ dl[w].pc = "verified"
  /\ Goto(w, IF dest[dl[w].info.name] = None THEN "free" ELSE "discard")
  /\ UNCHANGED <<envVars, diskVars, claims, vouched, edits, faults>>

Rename(w) ==
  LET p == Path(dl[w]) IN
  /\ dl[w].pc = "free"
  /\ \/ /\ partial[p] # None
        /\ dest' = [dest EXCEPT ![p[2]] = partial[p]]
        /\ partial' = [partial EXCEPT ![p] = None]
        /\ Goto(w, "landed")
     \/ /\ partial[p] = None
        /\ Goto(w, "discard")
        /\ UNCHANGED <<dest, partial>>
  /\ UNCHANGED <<envVars, data, ckpt, claims, vouched, edits, faults>>

\* chmod or the link fails for a reason of its own.
PublishFails(w) ==
  /\ Fault
  /\ dl[w].pc \in {"verified", "free"}
  /\ Goto(w, "discard")
  /\ UNCHANGED <<envVars, diskVars, claims, vouched, edits>>

\* cleanupPartial removes the partial, then the checkpoint.
Discard(w) ==
  /\ dl[w].pc = "discard"
  /\ partial' = [partial EXCEPT ![Path(dl[w])] = None]
  /\ Goto(w, "discarded")
  /\ UNCHANGED <<envVars, dest, data, ckpt, claims, vouched, edits, faults>>

ClearCheckpoint(w) ==
  /\ dl[w].pc \in {"landed", "discarded"}
  /\ ckpt' = [ckpt EXCEPT ![dl[w].code] = None]
  /\ Return(w)
  /\ UNCHANGED <<envVars, dest, partial, data, vouched, edits, faults>>

-----------------------------------------------------------------------------

\* The process dies and is started again: claims and goroutines are gone, the
\* disk is as it was.
Crash ==
  /\ Fault
  /\ \E w \in Workers : dl[w] # Idle
  /\ dl' = [w \in Workers |-> Idle]
  /\ claims' = {}
  /\ UNCHANGED <<envVars, diskVars, vouched, edits>>

Environment ==
  \/ \E c \in Codes, n \in Names, s \in Contents :
        \/ \E d \in {Digest(s), NoDigest} : Register(c, n, s, d)
        \/ EditSource(c, s)
  \/ \E c \in Codes : Withdraw(c)
  \/ \E n \in Names : UserRemoves(n) \/ \E s \in Contents : UserPlaces(n, s)

Begin(w) == \E c \in Codes : Resolve(w, c) \/ ClaimShare(w, c)

Proceed(w) ==
  \/ ClaimResolved(w) \/ ReadHeader(w) \/ Load(w) \/ RefuseUndigested(w)
  \/ CheckDestination(w) \/ Open(w) \/ FirstCheckpoint(w) \/ Chunk(w)
  \/ EndOfBody(w) \/ Truncated(w) \/ Verify(w) \/ Link(w) \/ Unlink(w)
  \/ CheckAgain(w) \/ Rename(w) \/ Discard(w) \/ ClearCheckpoint(w)

Fail(w) == Abort(w) \/ Interrupt(w) \/ PublishFails(w)

Next ==
  \/ Environment
  \/ \E w \in Workers : Begin(w) \/ Proceed(w) \/ Fail(w)
  \/ Crash

Spec == Init /\ [][Next]_vars

\* A goroutine that can run does run, and the user retries a failed download.
Fairness == \A w \in Workers : WF_vars(Begin(w) \/ Proceed(w))
FairSpec == Spec /\ Fairness

=============================================================================
