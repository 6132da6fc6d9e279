# Lantern in TLA+

Lantern moves files between two devices: one shares a file under a one-time
code, or pushes a file or a directory to a device it is paired with; the other
fetches it, over libp2p streams, and a daemon with an HTTP interface keeps track
of what is going on. This directory holds TLA+ models of the parts of Lantern
that own state, TLC runs that check them on small instances, and proofs, checked
by TLAPS, of every safety property the passing runs check. Everything is translated
from the Go source under `src/`; paths below are relative to it.

    tlc  -config downloads.cfg MCDownloads          a run (see "The runs")
    tlapm ReceiveProofs.tla                         the proofs of a module

`PROJECT.json` is the index: every definition with the lines it stands for, every
run with its properties, every property with a mutation of the model that breaks
it, and the hazards of the code with the properties that watch over them.

## The system and its parts

| Part | Source | State it keeps | Operations | Model |
|---|---|---|---|---|
| Receiving a share | `internal/p2p/transfer.go`, `internal/storage/resume.go` | claims (`Node.downloads`), partial files, checkpoints, published files | `receiveFile`, `FetchFS`, `claimDownload`, `publishIfAbsent`, `LoadResume`, `SaveResume` | `Download` |
| Pushing to a paired device | `internal/p2p/fs.go`, `internal/storage/unpack.go` | staging files and trees, replaced trees, destinations | `writeFS`, `fsWrite`, `expandArchive` | `Push` |
| Serving a share | `internal/p2p/transfer.go`, `internal/p2p/fs.go`, `pkg/lantern/lantern.go` | the registry of shares, who resolved which, the progress channel, the session | `RegisterShareHandler`, `serveShare`, `fsResolveShare`, `fsRead`, `completeShareRead`, `forwardProgress` | `Share` |
| Transfer records and events | `internal/daemon/daemon.go`, `http.go`, `pkg/lantern/lantern.go`, `cmd/lantern/main.go` | sessions, subscriptions, records, history, TTL timers, event streams | `Share`, `Fetch`, `Cancel`, `watch`, `broadcast`, `getEvents`, `runDaemonTransfer` | `Transfers` |
| Pairings and access | `internal/daemon/trust.go`, `access.go`, `http.go` | the pairing map in memory and on disk | `Add`, `SetTier`, `SetWritableRoots`, `UpdateAddrs`, `Remove`, PATCH, `WritePolicyFor` | `Trust` |
| Receiving sessions | `pkg/lantern/lantern.go`, `internal/p2p/transfer.go` | one session per fetch, its progress channel, who owns it | `ReceiveSession`, `receive`, `tryFetchViaRead`, `RegisterReceive`, `forwardProgress` | `Receive`; the session's events in `Transfers` |
| Rendezvous by code | `internal/p2p/rendezvous.go` | one file per local share, DHT records | `AdvertiseLocal`, `ClearLocal`, `Advertise`, `Discover` | `Rendezvous`; the ends of it that others use in `Share` and `Receive` |
| Paths and listings | `internal/p2p/fs.go`, `list.go` | none | root and alias resolution, symlink checks, stats, listings, ranged reads | `Paths` (the resolvers), `Access` (the operations) |
| Archives | `internal/storage/zip.go`, `unpack.go`, `daemon/daemon.go` | none | `ZipDir`, `pushDir`, `UnpackZip`, `listTree` | `Archive`; the renames around it in `Push` |
| Cryptography and framing | `internal/crypto`, `internal/protocol` | the writer's and the reader's buffer, a sticky error | `EncryptedWriter`, `EncryptedReader`; key derivation, proof, headers | `Frames`: the stream; the rest is taken at its word |
| Start-up and identity | `internal/daemonapp`, `internal/storage/dirlock.go`, `internal/p2p/identity.go` | directory lock, listener, key file, token file, peers still to be dialled | `Run`, `AcquireDirLock`, `LoadOrCreatePrivKey`, `LoadOrCreateToken`, `dialStaticPeers` | `Startup`; the reload of pairings in `Trust` |
| HTTP interface | `internal/daemon/http.go`, `auth.go`, `files.go`, `fs.go`, `upload.go`, `resolve.go` | uploads directory | one handler per route | the handlers that change pairings, transfers or uploads, in `Trust`, `Transfers` and `Uploads`; the local listing in `Paths` |
| MCP server | `internal/mcpserver`, `pkg/lanternclient` | lines read and not handled, the reading goroutine | `Serve`, `handle`, `callTool` over `Client.Do` | `Mcp` |
| Command line | `cmd/lantern` | none | one-shot commands; following a transfer | the following, in `Transfers` |
| Host and discovery | `internal/p2p/host.go` | libp2p host, peers seen | set-up, mDNS, notifications | not modelled |
| Client library, diagnostics, web page, Python SDK | `pkg/lanternclient`, `internal/doctor`, `internal/daemon/web`, `sdk` | none | requests to the daemon | one call in `Mcp`, the event stream in `Transfers`; the rest not modelled |

How they meet: the daemon owns one `Lantern`, which owns one `p2p.Node`. A share
registers a handler with the node and a *session* with the Lantern; progress
travels from the stream handlers over a Go channel to a forwarder, from there as
events to every session of the Lantern, from a session to its watcher in the
daemon, and from the watcher to the records and the clients of the event stream.
A fetch runs on either of two routes: the share-code protocol, or, between paired
devices, a read of the resolved path, which is then reported to the share
afterwards. Pushes and reads of paired devices are permitted by the pairing store.
Files, checkpoints, the pairing file and the rendezvous files survive a death of
the process; claims, registries, records and sessions do not.

What is hard, part by part, and what has to hold:

* **Receiving.** Downloads of one code run at the same time on two routes; the
  process dies between any two steps; the source file changes between attempts.
  What lands must be whole, verified and stay as it is; no file may be replaced;
  a checkpoint may never count bytes that are not there; what is left behind should
  keep no code from being fetched later (one kind of checkpoint does, see "Where code
  and documents disagree").
* **Pushing.** Two pushes meet at one destination; replacing a tree takes two
  renames; an acknowledgement or a reply is lost. Nothing that was there may be
  lost, a failed push must leave the destination alone, "stored" must be true.
* **Serving.** Two routes own one progress channel, with two lookups outside the
  lock; the completion races the cancellation of the context that carries it.
  Nothing may panic, "done" must mean that a receiver has the file, the protocol
  must serve one receiver, a served share must be withdrawn.
* **Records and events.** Cancel, a TTL timer and the watcher write one record in
  several steps each; a code may be fetched again while the first attempt's watcher is
  at work; events cross sessions; buffers drop; a command follows a
  transfer by a look, a stream and a poll. Record, history and what a command
  reports must agree with what happened, and nobody may wait for ever.
* **Pairings.** Every save writes every entry and may fail after memory was
  changed; PATCH is two operations. What was acknowledged must last, a removal
  must stick, and a device may write only where this device allows it, or allowed it
  when its pairing was last given roots of its own.
* **Receiving sessions.** Two routes could close one progress channel, the end of a
  fetch cancels the context its own caller waits under, and a fetch may be refused,
  cancelled or broken between any two steps. Nothing may panic, who is
  told of a failure may have no saved file (but for one that could not be cleared up
  after), a session must end with its fetch and leave nothing running but a read that
  only the sender can end.
* **Paths and archives.** A path is resolved by one system call and used by another,
  and the owner of the device goes on working in between; an archive is written
  while its directory changes, and read from a device that may have built it in
  any way. Nothing outside the roots may be read or created, what a push creates
  may not be more open than where it is created, a refused push leaves nothing
  behind, and a directory that was left alone, and not named through a link, arrives whole.
* **Rendezvous.** A file and a forgetful network announce a share. An open share has to
  be announced again whenever it is forgotten, and a lookup has to return.
* **The encrypted stream.** Frames are sealed one by one. What is read must be a prefix
  of what was written, and the end of it only at its end.
* **Uploads and the bridge.** Uploads number names that may be the plain names of
  others; the bridge reads in one goroutine and answers in another. An upload keeps
  its file; requests are answered once and in order, and nothing is left running where
  the input can be woken.
* **Start-up.** Processes come and go on one state directory and may die in the
  middle of creating what the next one reads. The identity is for good, a damaged
  one is kept, no two daemons are one device, the token clients know stays
  good, and the directory never stays locked.

## The modules

    Download ── DownloadInvariant ── DownloadProofs
       ├ DownloadLiveness
       └ implements Placement
    Push ── PushProofs            Share ── ShareProofs
    Receive, Frames ── ReceiveProofs       Transfers, Uploads ── DaemonProofs
    Startup, Mcp ── NodeProofs             Archive ── ArchiveProofs
    Paths ── Access, Trust ── DeviceProofs, with the lemmas of ArchiveProofs
    Rendezvous

    MCDownload, MCPush, MCShare, MCTransfers    instances of one component
    MCDownloads   Download, twice                 what may not and what must happen to one
    MCDownloadLimits                              what does not hold of one
    MCDevice      Trust, Access and Archive       what a device lets others do to its disk
    MCDaemon      Uploads and Transfers           what a daemon does for its clients
    MCReceive     Frames, Receive and Rendezvous  what a receiver goes through
    MCNode        Startup and Mcp                 the processes of one machine

`MCDownloads` and the last four modules put components side by side that share no
state: most are extended, `Rendezvous` and the second `Download` are instances, and a
variable `part`, chosen in the initial state and never changed, says which of them moves
(in `MCDaemon` also which transfers do). Such a run is the union of its parts' state
spaces, each with the fairness of its own specification. A property of an extended
module is checked as it stands, a property of an instance under a name of its own in the
MC module (`EventuallyLands`, `LookupsEnd`, `OfferRenewed`). Modules that are
extended next to another carry their name in `FramesInit`, `McpNext`, `AccessSpec` and
the like.

Every variable and action carries a comment that names the code. In each module
an action is one stretch of the code between two points at which another
goroutine, process or device can be noticed: a lock given back, a system call, a
channel operation, a message. History variables (marked so) record what the
properties speak of and guard nothing.

**`Download`** models the receiving side: `receiveFile` and `FetchFS`, step by
step from the claim to the publication. A worker is a goroutine; `dl[w]` is its
local state, `claims` is `Node.downloads`, `partial`, `dest`, `data` and `ckpt`
are the disk. Names refer to inodes and content belongs to inodes, because what
can go wrong here is a descriptor that outlives its name and a hard link that
gives one inode two. `HardLinks` chooses between the two branches of
`publishIfAbsent` (`os.Link`, or a check and a rename). The sending side is the
environment: it registers, edits and withdraws what is behind a code. Digests are
a constructor (two contents with one SHA-256 do not occur).
Its safety properties are in `DownloadInvariant`, its liveness in `DownloadLiveness`.

**`Placement`** is what a user of a download is promised: a name goes from absent
to a whole, vouched-for file in one step, and stays until the user removes it.
`Download` implements it with `file[n]` as the content of the inode at `n`
(property `LandsWhole`).

**`Push`** models one stream per push, on both ends: the request and its checks,
the acknowledgement, the content, the digest, then a rename (a file) or an
expansion and two renames (a tree), the restoration when the second rename fails,
the sweep of what was moved aside, and the reply. The policy of the request is a
field of it, `allowed`.

**`Share`** models the sending side with both routes, in the order a handler
takes its steps, and the path from the handler to the session: channel,
forwarder, terminal event, cancelled context, withdrawn advertisement.

**`Transfers`** models sessions, their buffers, records, watchers, `Cancel` in its
steps, the TTL timer, the history, the event stream behind its buffer, and the
commands that follow a transfer. A transfer is one attempt, a call of `Share` or
`Fetch`, and all of it goes by its code. `record[t]` is the record made for the attempt
`t`, and `records` the attempts whose record is in `Daemon.records`, one of a code at
most: a code that is fetched again gets a new record in the place of the old
(`daemon.go:198`), into which the watchers of both attempts write, while a `Cancel` that
looked up the old record goes on with that one. What is transferred is the environment:
it reports and then ends, or never does.

**`Trust`** models the store as the code keeps it: a map in memory and a file,
operations that change the first and then save all of it to the second, failing
saves, restarts with other options, the PATCH handler with its gaps, and the
decision whether a device may write. `under` (history) holds, for each device, the
writable roots the daemon had whenever that pairing was given roots since it was last
saved.

**`Receive`** models a fetch from the call of `ReceiveSession` to the end of its
session: the caller's goroutine (`call`), the goroutine that pulls over one of the
routes (`pull`, the outline of what `Download` has in full), the forwarder, the
progress channel between them, and the context that the caller, the session and
the end of the fetch can all cancel. A pull by the transfer protocol may find itself in a
read that nothing ends (`stalled`): the stream has no deadline and the context is looked
at between two reads (`transfer.go:815-820`), so it keeps its claim, its file and its
goroutine after a cancellation, for as long as the sender likes.

**`Startup`** models the processes of one state directory: what `Run` takes, in its
order, and gives back, in the opposite order, on every way out; the identity and
token files with the gaps between look, write and rename; commands that bring up a
node of their own; and the rounds of dialling the peers the operator named. An error of
the HTTP service does not stop the dialling (`app.go:356`); the end of the process does.

**`Paths`** has the resolvers as operators on a tree: a function from paths, which are
sequences of names, to directories, files and links. Walking a path is what the
operating system does with it; `ResolveWithinRoots`, `ResolveNewParent`, the
resolution of a write and the alias of a root are the code's, over that walk.
**`Access`** carries them out: an operation passes the gate, its path is resolved,
parents are made, the parent is looked at again, a staging file appears and is
renamed, and between any two of these the owner may move, remove, relink or close a
directory. `sure` and `quiet` (history) record whether that happened since the path
was last resolved, or at all.

**`Archive`** follows a directory through `ZipDir`, which looks at an entry and opens it
by separate calls, `pushDir`, the checks of `UnpackZip`, its expansion and the answer. The
directory may be named through a link (`linked`): `PushFile` follows it (`daemon.go:588`)
and `ZipDir` does not, so nothing is archived. A run also starts from archives no `ZipDir`
made. Declared sizes have a `Width`, in which a sum of them can wrap.

**`Rendezvous`** models one code: the file of the sharer, the loop of `Advertise` with its
backoff, the record in the DHT, which nodes forget, and lookups that poll both until
their time is up.

**`Frames`** models an encrypted stream: what the writer has taken and holds, the frames on
the wire, the reader's buffer and its sticky error. Bytes are numbered, so that a
byte that is lost, repeated or out of place shows.

**`Uploads`** models the handlers of `POST /uploads`: each creates files exclusively until
a name is free, and copies; it may fail, and the process may die. **`Mcp`** models
`Serve`, the goroutine that reads its input, and the call to the daemon, whose reply
may be cut off or late after the daemon acted. `wakes` says whether closing the input ends
a read parked in it: it does for a pipe, and neither for an input that is no `Closer`
(`server.go:442-446`) nor for a blocking file, as the `os.Stdin` of `lantern mcp` mostly
is.

Simplifications that hold throughout: a crash is the death of the process, not a
loss of power, so that what was written is there afterwards; a file is a few cells
or chunks long; names are model values, with no directories below the output
directory; the user's acts happen between steps of the code, never inside a system
call. In `Download` a body arrives one cell per read, and a save of a checkpoint is
one step because it is a rename. In `Push` no tree is empty, and what `UnpackZip`
refuses is the set `Broken`. In `Share` handshake, encryption and metadata succeed
or fail as one, and a receiver that stops taking bytes is one that leaves. In
`Trust` a root is an area of the disk, aliases and dates are left out, and a crash
in the middle of a save is a save that failed followed by a restart. In `Receive` a code stands for one file name
and the rendezvous file `Discover` consumes is left out. In `Access` one operation is
followed at a time, as operations share nothing but the tree, and a call fails only for what
is in the tree, not for want of space; names without UTF-8 and
file systems that ignore case are left out of `Paths`. In `Frames` a receiver that gives
up is one that reads no more. In `Rendezvous` times are abstract: a deadline, an hour or
a pause ends at any moment. In `Mcp` a line is of one of six kinds (a method
`notifications/*` is never answered, whether it has an id or not, `server.go:389`), and the tools differ
in nothing but whether they delete. In `Startup` the p2p ports
and the flags are left out. In `Transfers`
byte counts are left out, and a restart of the daemon, after which a poller asks
for a record that is no longer there, is not modelled.

## The runs

Each run answers one question. Passing runs check what the code does right;
violation runs check one sentence of a comment or a doc that the code does not
keep, and end in a counterexample.

| Run | Instance | Shows |
|---|---|---|
| `downloads` | 2 goroutines, 2 codes on one route each, 2 names, 2 contents, 3 inodes, 2 edits, 1 fault, hard links; 2 goroutines on one code by the read path, no hard links, 3 contents, 3 edits, 1 fault | of the first the inductive invariant of the proofs (`IInv`, with the types and `CheckpointBacked`), `Intact`, and that `Download` implements `Placement` (`LandsWhole`); of the second that an unchanged share lands at last (`EventuallyLands`) |
| `download_overlap` | one code by both routes | violates `Intact` |
| `download_stuck` | 1 goroutine on one code by the read path, shared once, 3 contents, 3 edits, 1 fault | violates `StaleNeverBlocks` |
| `push_safety` | 2 streams, files and trees, good and refused, permitted and not, overwriting or not, 1 fault, 1 crash, 1 act of the user | `OnlyVerified`, `NeverLost`, `DestinationKept`, `StoredMeansLanded`, `AlwaysReleased` |
| `push_race` | 2 pushes without overwrite | violates `ReplacedOnRequest` |
| `share_safety` | 1 code, 2 paired receivers on either route, 2 chunks, channel of 1, 1 fault, 1 cancellation | `NeverPanics`, `DoneIsTrue`, `SenderLearns`, `ServingEnds` |
| `receive_safety` | a stream of 5 bytes in chunks of 2 with 2 faults; 2 fetches of one code, 1 chunk, channel of 1, 1 failure, senders that may stall; 1 lookup, pauses of 1 to 3, 2 losses | `StreamIsPrefix`; `NeverPanics`, `SavedIsReported`, `OutcomeIsTrue`, `FetchesEnd`; `LookupsEnd`, `OfferRenewed` |
| `daemon_safety` | 3 uploads of 2 names that number into each other; a share with a TTL, 2 reports and a follower; the share and a fetch; a fetch and its repetition; buffers of 2, history of 2 | `UploadsKept`; `HistoryAgrees`, `ToldIsTrue`, `RecordsEnd`, `FollowersLearn` |
| `transfers_crosstalk` | 2 transfers | violates `RecordIsTrue` |
| `device_safety` | 2 devices, 2 roots, two ways to start the daemon, 1 address, 1 PATCH at a time, 1 failing save, 1 restart; 7 trees, about 60 operations, 2 steps of the owner; 6 directories, each named itself or through a link, with 2 changes and every archive of up to 3 of 10 entries | `AcksAreDurable`, `RevocationsStick`, `ScopeWasGranted`; `AccessConfined`, `LeavesNothing`, `ResolutionsAgree`; `PushedIsWhole`, `NothingUnchecked` |
| `node_safety` | 2 daemons (one with a token of the operator's), 1 command, 2 named peers, 1 fault or crash; the bridge on every script of up to 3 lines, on inputs that can be woken and others | `IdentityLasts`, `DamageIsKept`, `NoTwins`, `TokensHold`, `StartupLives`; `AnswersInOrder`, `ServeEnds` |
| `mcp_unpair` | the instance of `node_safety` | violates `SuccessIsTrue` |

Some properties are conjunctions: `AccessConfined` of what is created (`WritesConfined`),
what is read (`ReadsConfined`) and with which permissions (`NeverWidens`); `ServingEnds` of
the end of handlers and the withdrawal of served shares; `TokensHold` of `TokenIsStored` and
`TokenLasts`; `StartupLives` of `LockComesFree` and `NamedPeersReached`; `DoneIsTrue` holds that
the transfer protocol serves one receiver. Each part has a mutation of its own.

Every module states a type invariant, `TypeOK` (`FramesTypeOK`, `UploadsTypeOK`, `McpTypeOK`,
`AccessTypeOK`, `ArchiveTypeOK`). For all but `Trust` and `Rendezvous` it is part of what is
proved; the runs list none but as a part of `IInv`.

Why these bounds are enough for the questions asked:

* *Downloads.* Every hazard is between two downloads (two goroutines), of one or of
  two codes, that may want one name or two; a checkpoint can be wrong only if
  bytes exist that it may or may not count, for which contents of different
  lengths, one a prefix of another, are used; one crash and what it leaves behind
  is followed by whole further attempts; two edits suffice to register a share and
  change it once. For `EventuallyLands` there are three: the source changes, so that what
  was kept is no prefix of it, or grows and shrinks back. The exception it makes is what
  `download_stuck` runs into with one goroutine and the same bounds.
  Three inodes are one per partial and one more.
* *Pushes.* Two streams race at one destination, one of them may be retried as
  another push, and one crash meets each step of each; a fault and a crash together
  reach the failing restoration.
* *Shares.* Two receivers are needed for both routes to meet on one share, a
  buffer of one to fill it, two chunks for a failure in the middle.
* *Fetches.* Two fetches of one code meet at the claim, at the file and, through
  the terminal event, at each other's session; a channel of one is full after
  one chunk, so that its report and the ending compete for room.
* *Streams and lookups.* Five bytes make two full frames and a tail; one cut and one
  altered frame, or two altered frames, meet at every place. One lookup meets each loss
  at each of its steps; lookups meet in nothing but the file, which one takes from the
  others and which may as well be missing.
* *Uploads.* Three requests and two names: one whose number 2 is the other's plain name,
  which has a number in turn; the last number is reached.
* *Access.* Links lead inside, outside, to themselves, to a file and nowhere; roots are named
  directly and through a link. Two steps of the owner suffice to take a directory away
  and to put a link in its place.
* *Archives.* Directories with every kind of entry at two depths; the declared sizes have
  two bits, so that three of them can wrap below a limit of three.
* *The bridge.* A line being handled, a line being handed over and a line not yet read: three.
* *Start-up.* Two daemons compete for the lock, or follow each other, and the
  command comes between; one crash or failure meets each step of each, and whole
  starts follow it; three secrets are one more than the undisturbed starts mint.
  `ToolsFirst` is FALSE: see "Where code and documents disagree".
* *Transfers.* Three small instances: one share, where the watcher, the timer, the user
  and a follower meet, and a buffer of two is filled by two reports, so that an ending
  finds it full; that share and a fetch of another code, where every ending of each meets
  the subscription of the other; and two attempts at one code, where the second's record
  takes the place of the first's at any moment. The last two leave out progress, the
  follower and the timer. A history of two forgets, as there may be three entries.
* *Pairings.* A save writes all entries, so a change of one device may carry out
  or lose another's: two devices, one failing save, one restart. The two ways to start
  the daemon name different writable roots, so that what was granted before a restart may
  be outside afterwards; a PATCH sets the tier, the roots or both. A cache of one
  address is full after one sighting.

Deadlock is not checked: the bounded environments come to rest and so does the
system, as a daemon with nothing to do does, and a stream, an upload or an operation
ends. The liveness properties say what must not rest. Worker and device names are
symmetric in the runs that check no liveness.

### Fairness

* `Download`: weak fairness of a goroutine that begins an attempt or goes on with one:
  a runnable goroutine is scheduled, and the README and the checkpoint design
  presuppose a user who asks again. No fault, edit or failure is fair.
* `Push`: weak fairness of the receiving handler, whose wait for content is ended by
  the stream deadline the code sets. The sender may stop for ever.
* `Share`: weak fairness of handlers and forwarders. Receivers need not go on:
  one that stops is a handler whose write fails, see the simplifications.
* `Receive`: weak fairness of the caller's goroutine, of the pull, of the forwarder and
  of the function run when a context is cancelled. A lookup, a resolution and a read of the
  read path have deadlines. A read of `receiveFile` has none and is not tied to its
  context: it ends unless the sender stalls, after which nothing of the pull is fair, and
  `FetchesEnd` excepts it. Nobody has to fetch, cancel or close.
* `Startup`: weak fairness of a daemon's next step and of its dialling (a dial
  has a deadline). Nobody has to start or stop a process, and no peer has to come.
* `Transfers`: weak fairness of what the daemon does about a transfer (`Works`: its
  watcher, its unsubscription, the steps of a `Cancel` under way, an armed timer), and
  of a command's own steps. No transfer has to end, no stream has to drop.
* `Rendezvous`: weak fairness of the loops of `Advertise` and `Discover` and of the passing
  of a deadline; strong fairness of a provide that succeeds (one that is retried for
  ever does so at last) and of the cancelled branch of a lookup's select, which Go takes
  in the long run when several are ready.
* `Mcp`: weak fairness of the reading goroutine and of `Serve`; a call to the daemon is
  bounded by the client's timeout. The host need not write, close or cancel, and a reader
  of an input that cannot be woken stays until it writes or closes.
* `Trust`, `Access`, `Archive`, `Uploads` and `Frames` have no liveness properties.

## What is proved

TLAPS checks these for every value of the constants that satisfies the modules'
named assumptions, thus for any number of goroutines, codes, names, contents, edits,
streams, fetches, receivers, transfers, clients, processes, peers, requests and faults, any
sizes of files, chunks, channels and buffers, any file tree with links in it, any archive
and any script of lines. The assumptions say that bounds and
capacities are numbers (a channel, a buffer and a chunk hold at least one), that `None` is
none of the things it stands apart from, which sets contain which, and that the trees,
requests, archives and scripts are some: in a tree what there is lies in a directory, and
nobody gives a file the name of a staging file, which `os.CreateTemp` makes up
(`fs.go:838`). `ConstantsAssumption`, `NoneAssumption`, `PushAssumption`, `ShareAssumption`,
`TrustConstants`, `StartupAssumption`, `AccessAssumption`, `ArchiveAssumption` and
`ScriptsAssumption` are ASSUMEs; `ReceiveConstants`,
`TransfersConstants`, `UploadsConstants` and `FramesConstants` are operators, because their
modules are also instantiated side by side, and hypotheses of the theorems. TLC evaluates all of them.

| Theorem | Says | Assumes besides |
|---|---|---|
| `DownloadProofs!TypeCorrect` | `Spec => []TypeOK` | |
| `DownloadProofs!Inductive` | `Spec => []IInv` | `OneRoute` |
| `DownloadProofs!PublishedIntact` | `Spec => []Intact` | `OneRoute` |
| `DownloadProofs!CheckpointsBacked` | `Spec => []CheckpointBacked` | `OneRoute` |
| `DownloadProofs!NothingReplaced` | `Spec => NeverReplaces` | `HardLinks` |
| `DownloadProofs!Implements` | `Spec => LandsWhole`, the refinement of `Placement` | `OneRoute`, `HardLinks` |
| `PushProofs!NothingUnverified` | `Spec => []OnlyVerified` | |
| `PushProofs!LastIsKept` | `Spec => []NeverLost` | |
| `PushProofs!NoCostOfOneFailure` | `Spec => []DestinationKept` | |
| `PushProofs!StoredIsTrue` | `Spec => []StoredMeansLanded` | |
| `DeviceProofs!AcknowledgedChangesLast` | `Spec => []AcksAreDurable` | |
| `DeviceProofs!RevokedStaysRevoked` | `Spec => []RevocationsStick` | |
| `DeviceProofs!GrantsHold` | `Spec => []ScopeWasGranted` | |
| `DeviceProofs!StaysWithinBound` | `Spec => []WithinBound` | the same directories at every start |
| `DeviceProofs!ScopeWasNamed` | writes stay inside `R` | every start names directories in `R` |
| `ShareProofs!SharesNeverPanic` | `Spec => []NeverPanics` | |
| `ShareProofs!DoneIsEarned` | `Spec => []DoneIsTrue` | |
| `ReceiveProofs!ChannelIsOwned` | `Spec => []NeverPanics` | |
| `ReceiveProofs!RefusalIsReal` | `Spec => []SavedIsReported` | |
| `ReceiveProofs!SessionsAreTrue` | `Spec => []OutcomeIsTrue` | |
| `DaemonProofs!HistoryIsFinal` | `Spec => []HistoryAgrees` | |
| `DaemonProofs!EndingIsFinal` | no step changes a record that can be looked up and whose code's watchers have all had their ending | |
| `DaemonProofs!EndingsHappened` | `Spec => [](HonestRecords /\ HonestAnswers)` | |
| `DaemonProofs!AloneToldIsTrue` | `Spec => [](ToldIsTrue /\ RecordIsTrue)` | one code |
| `NodeProofs!TypeCorrect` | `Spec => []TypeOK` | |
| `NodeProofs!OneIdentity` | `Spec => []IdentityLasts` | `NoToolFirst` |
| `NodeProofs!DamagedStays` | `Spec => DamageIsKept` | `NoToolFirst` |
| `NodeProofs!OneHost` | `Spec => []NoTwins` | `NoToolFirst` |
| `NodeProofs!TokenServed` | `Spec => []TokenIsStored` | `NoToolFirst` |
| `NodeProofs!TokenStaysGood` | `Spec => []TokenLasts` | `NoToolFirst` |
| `NodeProofs!TokensAreKept` | `Spec => []TokensHold`, both of the former | `NoToolFirst` |
| `NodeProofs!OnlyStrangersRefuse` | `Spec => []RefusedByStrangers` | `NoToolFirst` |
| `DaemonProofs!UploadsAreKept` | `UploadsSpec => []UploadsKept` | |
| `ReceiveProofs!StreamIsKept` | `FramesSpec => []StreamIsPrefix` | |
| `ArchiveProofs!ArchiveTypes` | `ArchiveSpec => []ArchiveTypeOK` | |
| `ArchiveProofs!PushedArrivesWhole` | `ArchiveSpec => []PushedIsWhole` | |
| `ArchiveProofs!NothingIsUnchecked` | `ArchiveSpec => []NothingUnchecked` | |
| `ArchiveProofs!NothingOutside` | nothing is unpacked on a path with a `..` | |
| `NodeProofs!BridgeTypes` | `McpSpec => []McpTypeOK` | |
| `NodeProofs!AnsweredInOrder` | `McpSpec => []AnswersInOrder` | |
| `NodeProofs!AskedIsAnswered` | what was carried out is answered for; what is reported was | |
| `DeviceProofs!AccessTypes` | `AccessSpec => []AccessTypeOK` | |
| `DeviceProofs!StaysConfined` | `AccessSpec => WritesConfined /\ ReadsConfined` | |
| `DeviceProofs!Confinement` | `AccessSpec => AccessConfined`, `NeverWidens` too | |
| `DeviceProofs!LeavesNoTrace` | `AccessSpec => []LeavesNothing` | |
| `DeviceProofs!ResolvedAlike` | `AccessSpec => []ResolutionsAgree` | `NoTop` |

*Downloads.* `Intact` is not inductive: that the file under a final name is what
was verified depends on nobody writing to its inode, hence on descriptors, hence
on claims. `IInv` (`DownloadInvariant`) says what has to go with it: every
running download holds its claim and no two hold the same (`Claimed`); digests
that are offered or compared with were vouched for (`Promised`); two partials never
share an inode, and a final name shares one with a partial only while nobody
works on that partial (`Separate`); the running hash covers exactly what is in
the partial (`Hashed`); and what `LoadResume` accepted is still so when the partial
is opened (`Loaded`). The proof has one lemma per action that writes, and
one step per conjunct that the action can disturb.
`OneRoute` says that no code is fetched by both routes. It is not a convenience:
without it the claim keys of the two routes differ, and `download_overlap` shows
`Intact` broken. `HardLinks` is needed for the two statements about replacement
because without hard links the destination is looked at and then renamed over,
with a gap between. The refinement maps link(2) to `Land` and every other step of
a download to a stutter.

Some statements have a proof and no run: `NeverReplaces`, which `LandsWhole` implies
where both are assumed, `RefusedByStrangers`, `ScopeWasNamed`, `StaysWithinBound`, `EndingIsFinal`,
`EndingsHappened`, `NothingOutside`, `AskedIsAnswered` and the types; those of a download are part of `IInv` in the run.

*Pushes.* The four follow from one invariant, `PushInv`. A stream's step says what is known
of its request (`Vetted`: permitted, digest compared, archive expanded), so what it
places is verified; what it moved aside was verified too, because it was at the
destination, and is held only by a stream that has yet to drop it, put it back or leave it
behind (`AsideOwned`). `NeverLost` alone is not inductive: the thing aside may be the one
a stream is about to drop, so `Kept` leaves that stream out, which is sound because what is
at a destination is always the last thing that was (`Current`). For `DestinationKept` an
empty destination is one that some stream will refill (`Refilled`): a stream turns back
because it found the name taken, or because a call failed, and then, with one failure at
most, putting back does not fail. With two it may, and `DestinationKept` says so.

*Pairings.* The invariant is `AcksAreDurable` together with its reading of memory (what
memory holds for a device is also something acknowledged or asked for since), and
the typing of the PATCH requests. It is what makes it harmless that every save
carries every entry. For `ScopeWasGranted` the same is said of the roots (`Granted`): those
of a pairing, in memory and as a restart would load them, are none or lie in one of the sets
`under` has for it. A save that fails adds to the sets, one that succeeds leaves the last.
`WithinBound`, which asks for the writable roots of this very start, does not follow, since
`confineRoots` compared a pairing with those of the start it was made under. It is proved
for daemons whose starts name the same directories (`StaysWithinBound`); and where they do
not, a paired device may write only inside directories that were named at some start
(`ScopeWasNamed`).

*Shares.* `ShareInv` rests on one owner: a handler that set the flag of a share owns it until
it has closed the channel, no two own one, and an owned share's channel is open
(`Ownership`). The read path looks the share up twice outside the lock, so what a handler
found is carried along by the step it is at (`Known`). `DoneIsTrue` is not inductive,
since a "done" waits in the queue between the handler and the session: `Honest` asks for
the evidence, a receiver that presented the code and has the whole file, already of the queued message.
`ServedOnce` needs the flag too: who serves is the owner, and whoever was served left it set.

*Fetches.* `ReceiveInv` rests on one owner as well (`OneOwner`): the caller owns the channel
until it hands it to the goroutine of `RegisterReceive`; on the read path the caller waits while
another goroutine pulls, and the channel is closed by the last step of whoever owns it. That
also decides who learns of a saved file: nobody pulls for a caller that was refused, and a
pull that published its file has reported so, is about to, or could not clear up, which its
caller is told as a failure (`uncleared`).
For `OutcomeIsTrue` a message is followed from the goroutine that sends it (`Succeeding`)
through the queue (`Honest`) to the sessions it ends (`Outcomes`).

*Records.* A watcher hears of the events of all transfers, and `transfers_crosstalk` shows a
record made wrong by that. What holds of any number of transfers is therefore less than
`ToldIsTrue`: a record, a frame and an answer name an ending that some transfer came to,
and say "cancelled" only of a code of which somebody cancelled an attempt
(`EndingsHappened`). Where one code is in use the two agree (`AloneToldIsTrue`); without that
hypothesis it is false. `HistoryAgrees` has no such hypothesis: a watcher appends to the
history what it writes into the record, in one step, and `Cancel` writes only into a record
that runs, of which no entry says so. It speaks of the newest entry about a record, as
there may be several: when a fetch is repeated the watchers of both attempts write into the
second's record. So `EndingIsFinal`, an action property, asks that all the watchers of a code
have had their ending; then the record the code has does not run (`SettledRests`) and
nothing changes it.
A watcher whose subscription closes without an ending records "canceled",
which is right only if a session that ended by itself leaves its ending there;
`SessionOf` says so, and holds because a full buffer never drops the ending (`OfferAdds`).

*Start-up.* All the properties follow from one invariant, `Directory`, whose core is
`Held`: a daemon past the lock holds it, so at most one is past it. With it, what a
daemon read of the directory is still so when it writes: who mints an identity still
finds none (`Fresh`), whose host is about to run has the key of the file
(`KnowsItself`), who replaces a token file does so only where no client can have read
one (`TokenKept`), and the listener is held by a daemon inside (`PortHeld`).
`NoToolFirst` says that no command runs before there is an identity. Commands take no
lock, so a command that mints one breaks `Fresh`, and with it `IdentityLasts`.

*Uploads.* `IInv` says who owns what: a file that exists belongs to the request that holds
its path, at most one request holds a path, and a request that answered or still
copies has its file. With it `O_EXCL` is enough: neither a number nor a removal after a
failure reaches another's file.

*Streams.* `StreamIsPrefix` depends on what is on the wire and in the buffers. The invariant
adds that frames carry on where the one before ended (`Contiguous`), that the reader has
handed out exactly what comes before its buffer, which comes before the first frame as
long as none was refused (`Delivered`), that nothing flushed is missing while the wire is
whole (`NothingMissing`), and that without a fault the stream ends behind the whole file
(`EndsWhole`).

*Archives.* `PushedIsWhole` needs the whole way of an entry. (Of a directory named through a
link there is none on its way: `Nothing`.) `Walked` follows it while the
owner changes nothing: every node that is due is in the archive, or is awaited, being on
the list of what the walk has read and not visited or below something on it; every entry
carries what its node held; and what is unpacked is what the entries before `next` carry.
For `NothingUnchecked` `Budgeted` keeps an account: the sizes of what is stored are the
limit less what is left of it, and before the first entry is expanded all names, kinds and
sizes were checked, in numbers that may have wrapped. An archive that declares more than
it should fails while it expands, because the budget is counted down again there. These
two are about sums and folds over an archive of any length; the proofs go by induction on
its entries.

*Paths and access.* What the resolvers compute is stated once, for every tree with links:
where a walk ends (`EvalIs`); that creating something changes no path that resolved before
(`EvalKept`); that a resolved path resolves to itself (`StandsEval`), and that all below it
does what its names say (`EvalBelow`); where a push goes, and that it goes there again
after its parents were made (`DestinationSite`); and what `os.MkdirAll` leaves behind
(`MadeBelow`, `ParentsMade`). The invariant, `Undisturbed`, has three parts. `AccessTyped`
holds whatever the owner does. `Resolved`, while the owner did nothing since the path was
looked at (`sure`), says that it still resolves to what the operation carries, inside a
root. `Alone`, while the owner did nothing at all (`quiet`), says what the push has made so
far and with which mode: up to the creation of the parents nothing, after it directories
that are as closed as the one they are in. That `InheritPerm` looks at the nearest existing
directory before anything is made is what makes the modes agree. None of the parts implies
the others, and `LeavesNothing` needs all: a refusal after `os.MkdirAll` would leave
directories, so the proof shows that the second look at the parent (`Recheck`) refuses
nothing the first one let pass. `NeverWidens` speaks of `quiet'`, as a directory the owner
moves is found at a new place in the very step that ends the quiet. `NoTop` says that no
root is `/`, by its own name or through a link. Without it `ResolutionsAgree` is false: the
owner's own listing compares strings and shows nothing below such a root (see "Where code
and documents disagree").

*The bridge.* `Bridge` says where the two goroutines stand to each other: at most one line is
read and not taken (`InStep`), and what `Serve` is at is a request that it did not skip
(`AtRequest`). With it the answers written so far are, in order, those due for the lines
taken before the present one; and what the daemon carried out is answered for, or is the
request `Serve` is at (`ReportedTrue`), whatever becomes of the reply.

*Only model-checked* are the liveness properties (`EventuallyLands`, `AlwaysReleased`,
`SenderLearns`, `ServingEnds`, `FetchesEnd`, `LookupsEnd`, `OfferRenewed`, `RecordsEnd`,
`FollowersLearn`, `StartupLives`, `ServeEnds`): liveness under fairness and `ENABLED` are
outside the prover's reach. The type invariants of `Trust` (but for the PATCH requests and
what the other invariants need of an entry) and of `Rendezvous` are neither listed by a run
nor proved.

No module uses a `RECURSIVE` operator: what recurs is a recursive function or a fold.
Induction over data is done with sets. The library's induction theorems take an operator as
a parameter, which the installed provers cannot instantiate, so `ArchiveProofs` derives from
the well-foundedness of `<` that a set with 0 that is closed under successors is `Nat`
(`SetInduction`), that a recursively given function exists and is unique (`Recursion`), and
from these what `FoldLeft`, `SumFunction` and the walk over links compute.

## Where code and documents disagree

Each has a run (`PROJECT.json`, "findings"):

* `download_overlap`: `receiveFile` claims the output directory joined with the code,
  `FetchFS` that joined with the name of the file as well (`transfer.go:651`, `:925`), so one
  code has two keys, although `claimDownload` is documented to exclude it.
* `download_stuck`: a shared file grows, a fetch of it by the read path is interrupted, and
  it shrinks back: the checkpoint counts more bytes than the file has, `LoadResume` accepts
  it, the first save of every later fetch is refused (`transfer.go:1032`, `resume.go:167`),
  and nobody clears it, although "Corrupt or stale entries are removed" (`resume.go:40`).
  `EventuallyLands` excepts such a checkpoint, and one of another name where `receiveFile`
  would have to clear it (`transfer.go:727`).
* `push_race`: existence is looked at before the content arrives and not again
  (`fs.go:782`, `:915`); a second push without overwrite replaces the first.
* `transfers_crosstalk`: a watcher applies any session's terminal event to its own
  record (`lantern.go:669`, `daemon.go:388`).
* `mcp_unpair`: `cancel` and `trust_remove` take an EOF for the empty body of a 204
  (`server.go:200`), but the client decodes no 204 (`client.go:332`): an EOF is a reply
  that was lost, of a request the daemon may never have carried out.

Met while modelling, part of the models, and without a run of their own: a device's
stored roots are not compared again with narrower `--writable-dirs` after a restart, so that
it may write outside the writable roots the daemon has now (`access.go:62` against
`CONTEXT.md:50-53`: with the two starts of `device_safety` TLC shows `WithinBound` broken in
two steps, a pairing and a restart; `ScopeWasGranted`, checked and proved, says what is left of it); when a code is
fetched again the watcher of the first attempt finds the second's record under the code and
writes the ending of the first into it, so that the history may get two entries for the
second and none for the first (`daemon.go:198`, `:392`, which is why `HistoryAgrees` speaks of
the newest entry about a record); a file that was saved is reported as failed when its
partial or its checkpoint cannot be removed (`transfer.go:157`, `:882`, `:1101`, which
`SavedIsReported` excepts); a directory pushed through a link arrives as an empty one and is
told as a success (`daemon.go:588`, `zip.go:21`, which `PushedIsWhole` says); closing
`os.Stdin` need not wake the goroutine that reads it, against `server.go:435-436` (which is why
`ServeEnds` distinguishes inputs); a receiver that dies between the two renames of
`expandArchive` leaves no tree at the destination (`fs.go:983`, which is why
`DestinationKept` excludes crashes), and so does the second of two failing renames, whose
error is dropped (`fs.go:991`, which is why it speaks of one failure); two devices that resolved one code both get
the file by the read path (`transfer.go:577` against `:272`, which is why `DoneIsTrue`
speaks of one receiver for the transfer protocol only); of two shares of one file the older
is completed whichever was read (`transfer.go:588`); in a full client buffer an
ending may push out another transfer's ending (`daemon.go:370`); a full address
cache keeps its oldest entries (`trust.go:146`); a cancelled share keeps its registration
and its rendezvous file (`lantern.go:192` against `daemon.go:297`, which is why
`ServingEnds` speaks of shares that ended otherwise); an ending between a command's
look at the record and its subscription is never noticed (`main.go:914`,
`http.go:278`, which is why `FollowersLearn` speaks of streams that were open in
time); a second fetch of a code that is being fetched over the transfer protocol
fails, and its error ends the session of the first too (`transfer.go:651`,
`lantern.go:297`; `OutcomeIsTrue` is stated for the fetches of a code together); a
command with a node of its own takes no lock, so that on a directory without
identity it can replace the key a daemon has just begun to run with
(`identity.go:79`, against `lantern.go:205-207`: with `ToolsFirst = TRUE` TLC shows
`IdentityLasts` broken in a dozen steps); a token file that cannot be read is replaced,
which the identity file never is (`auth.go:50`, excluded in `TokensHold`); `ZipDir`
records no permission, so that the executable bit `UnpackZip` would restore
(`unpack.go:153`) never arrives from a push; the owner's own listing shows
nothing below a root that is `/` (`daemon/files.go:51`), which a paired device may list
(`list.go:349`); a device that fetches a code of its own finds itself
(`rendezvous.go`); of a list of writable roots the bridge drops the empty items, so that `[""]` removes the
restriction (`server.go:317`); a push reads the policy
of its device once, before the content (`fs.go:749`), so that a tier revoked meanwhile
does not stop it; a push syncs its staging file before the rename, a download does not
(`fs.go:890` against `transfer.go:864`), which only a loss of power could tell apart;
and a cancelled fetch by the transfer protocol stays in its read, with its claim and its
file, until the sender goes on or hangs up (`transfer.go:816-820`, which `FetchesEnd`
excepts).

## The plan

Modules, in the order in which they were written; all of them are here.

1. `Download` with `Placement`, and their proofs.
2. `Push`, 3. `Share`, 4. `Transfers`: the other ways a file or its record can be wrong.
5. `Trust`, 6. `Receive`, 7. `Startup`: policy, sessions, processes.
8. `Paths` with `Access`, and `Archive`: what a device lets others do to its disk.
9. `Rendezvous`, `Frames`, `Uploads`, `Mcp`: the parts around the transfers.
10. The proofs: of `Push`, `Trust` and `Startup`, of `Uploads` and `Frames`, then of `Share`,
    `Receive` and `Transfers`, and of `Archive`, `Mcp`, and `Paths` with `Access`.

What would come next:

* proofs of what `Trust` and `Rendezvous` say of their types;
* a composition of `Share` and `Transfers`: the session of the first as the transfer of
  the second, and the abstract specification "a record says done if and only if a
  receiver has the file";
* a composition of `Push` and `Trust`, for the policy a push read before its content.

## Not modelled

Host set-up, mDNS, the DHT itself and hole punching are calls into libp2p. Key
derivation and the challenge are pure functions of bytes: cryptography is taken at its
word, that is, a proof that verifies was made with the code, a frame that opens is
one its sender sealed, and a digest that matches is of that content. The typed methods
of the client library, the web page and the Python SDK turn calls into requests and keep
no state; diagnostics only read; routing, CORS and the handlers for remote reads hold
one request each. Formatting, versions, flags and configuration defaults are left out for
good. A loss of power, as opposed to the death of a process, is not modelled: no property
depends on what a sync would have saved.
