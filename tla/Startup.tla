------------------------------ MODULE Startup -------------------------------
(***************************************************************************)
(* The start and stop of the processes of one state directory: daemons     *)
(* (internal/daemonapp/app.go, Run) and commands that bring up a node of   *)
(* their own (cmd/lantern, pkg/lantern New).  A daemon takes the lock of   *)
(* the directory, binds its address, loads or mints the identity, opens    *)
(* the p2p host, loads or mints the token, serves, and dials the peers     *)
(* its operator named until each was reached.  It gives all of it up in    *)
(* the opposite order, on every way out.  A command takes no lock.         *)
(*                                                                         *)
(* Abstractions.                                                           *)
(*   - Keys and tokens are numbers, never minted twice.  A staged key is   *)
(*     whole once it is synced, so rename(2) publishes a whole key.        *)
(*   - The daemons of the directory ask for one address, which a stranger  *)
(*     may hold, or for any port.  The p2p ports are not modelled.         *)
(*   - Trust has the store that is loaded between token and service.       *)
(***************************************************************************)
EXTENDS Integers, FiniteSets

CONSTANTS
  Daemons,    \* processes that run the daemon, one after the other or at once
  Tools,      \* processes that run a command with a node of its own
  Explicit,   \* the daemons whose operator passes a token
  Static,     \* Static[d]: the peers the operator of d named
  ToolsFirst, \* whether a command may run before the directory has an identity
  MaxMints,   \* bound: keys and tokens minted
  MaxFaults   \* bound: calls that fail, and crashes

Processes == Daemons \cup Tools
Peers == UNION {Static[d] : d \in Daemons}

Nobody == "nobody"
Stranger == "stranger"

ASSUME StartupAssumption ==
  /\ IsFiniteSet(Daemons) /\ IsFiniteSet(Tools) /\ Daemons \cap Tools = {}
  /\ Explicit \subseteq Daemons
  /\ {Nobody, Stranger} \cap Processes = {}
  /\ ToolsFirst \in BOOLEAN /\ MaxMints \in Nat /\ MaxFaults \in Nat

\* What the key file may hold besides a key, and the tokens that are no secret.
Absent == 0
Damaged == -1
Empty == 0
Passed == -1
Secrets == 1..MaxMints

VARIABLES
  step,      \* step[p]: what the process does next
  lock,      \* the daemon that holds the lock of the directory
  port,      \* who listens on the address
  key,       \* the identity file
  token,     \* the token file: a token, or nothing to be read as one
  staged,    \* staged[p]: the key in p's temporary file
  ident,     \* ident[p]: the identity p runs with
  tok,       \* tok[d]: the token d accepts
  hosts,     \* the processes whose p2p host is up
  todo,      \* todo[d]: the named peers still to be dialled in this round
  pending,   \* pending[d]: the named peers that were not reached yet
  up,        \* the peers that can be reached
  minted, faults,
  used,      \* history: the identities hosts ran with
  known,     \* history: the token a client read last
  misread,   \* history: a token file could not be read
  refusedBy  \* history: refusedBy[d]: who held the address d was refused

files == <<key, token, staged>>
dialing == <<todo, pending>>
bounds == <<minted, faults>>
history == <<used, known, misread, refusedBy>>
vars == <<step, lock, port, files, ident, tok, hosts, dialing, up, bounds, history>>

Steps == {"down", "lock", "bind", "key", "mint", "publish", "host", "token", "truncate",
          "write", "trust", "serve", "close", "unbind", "unlock"}

TypeOK ==
  /\ step \in [Processes -> Steps]
  /\ lock \in Daemons \cup {Nobody}
  /\ port \in Daemons \cup {Nobody, Stranger}
  /\ key \in Secrets \cup {Absent, Damaged} /\ token \in Secrets \cup {Empty}
  /\ staged \in [Processes -> Secrets \cup {Absent}]
  /\ ident \in [Processes -> Secrets \cup {Absent}]
  /\ tok \in [Daemons -> Secrets \cup {Empty, Passed}]
  /\ hosts \subseteq Processes
  /\ todo \in [Daemons -> SUBSET Peers] /\ pending \in [Daemons -> SUBSET Peers]
  /\ \A d \in Daemons : todo[d] \subseteq pending[d] /\ pending[d] \subseteq Static[d]
  /\ up \subseteq Peers
  /\ minted \in 0..MaxMints /\ faults \in 0..MaxFaults
  /\ used \subseteq Secrets \cup {Absent} /\ known \in Secrets \cup {Empty} /\ misread \in BOOLEAN
  /\ refusedBy \in [Daemons -> Daemons \cup {Nobody, Stranger}]

Init ==
  /\ step = [p \in Processes |-> "down"]
  /\ lock = Nobody /\ port \in {Nobody, Stranger}
  /\ key \in {Absent, Damaged} /\ token = Empty
  /\ staged = [p \in Processes |-> Absent] /\ ident = [p \in Processes |-> Absent]
  /\ tok = [d \in Daemons |-> Empty] /\ hosts = {}
  /\ todo = [d \in Daemons |-> {}] /\ pending = [d \in Daemons |-> {}]
  /\ up = {} /\ minted = 0 /\ faults = 0
  /\ used = {} /\ known = Empty /\ misread = FALSE
  /\ refusedBy = [d \in Daemons |-> Nobody]

Goto(p, s) == step' = [step EXCEPT ![p] = s]
Fault == faults < MaxFaults /\ faults' = faults + 1
Mint == minted < MaxMints /\ minted' = minted + 1

\* An error return: the deferred calls of a daemon run from s on; a command exits.
Bail(p, s) == Goto(p, IF p \in Tools THEN "down" ELSE s)

-----------------------------------------------------------------------------
(* The lock and the address *)

\* A command goes straight to the identity: it takes no lock.
Start(p) ==
  /\ step[p] = "down"
  /\ p \in Tools => ToolsFirst \/ key # Absent
  /\ Goto(p, IF p \in Tools THEN "key" ELSE "lock")
  /\ ident' = [ident EXCEPT ![p] = Absent]
  /\ tok' = IF p \in Tools THEN tok ELSE [tok EXCEPT ![p] = Empty]
  /\ refusedBy' = IF p \in Tools THEN refusedBy ELSE [refusedBy EXCEPT ![p] = Nobody]
  /\ UNCHANGED <<lock, port, files, hosts, dialing, up, bounds, used, known, misread>>

\* Mutant of TakeLock: the lock is shared.
TakeLockShared(d) ==
  /\ step[d] = "lock"
  /\ lock' = d /\ Goto(d, "bind")
  /\ UNCHANGED <<port, files, ident, tok, hosts, dialing, up, bounds, history>>

\* AcquireDirLock, which does not wait.
TakeLock(d) ==
  /\ step[d] = "lock"
  /\ IF lock = Nobody THEN lock' = d /\ Goto(d, "bind") ELSE UNCHANGED lock /\ Goto(d, "down")
  /\ UNCHANGED <<port, files, ident, tok, hosts, dialing, up, bounds, history>>

\* Mutant of Bind: an address that is taken ends the process without its deferred calls.
BindOrDie(d) ==
  /\ step[d] = "bind"
  /\ \/ UNCHANGED <<port, refusedBy>> /\ Goto(d, "key")
     \/ port = Nobody /\ port' = d /\ UNCHANGED refusedBy /\ Goto(d, "key")
     \/ /\ port # Nobody
        /\ refusedBy' = [refusedBy EXCEPT ![d] = port]
        /\ UNCHANGED port /\ Goto(d, "down")
  /\ UNCHANGED <<lock, files, ident, tok, hosts, dialing, up, bounds, used, known, misread>>

\* The address the operator chose, or any port (--addr 127.0.0.1:0).
Bind(d) ==
  /\ step[d] = "bind"
  /\ \/ UNCHANGED <<port, refusedBy>> /\ Goto(d, "key")
     \/ port = Nobody /\ port' = d /\ UNCHANGED refusedBy /\ Goto(d, "key")
     \/ /\ port # Nobody
        /\ refusedBy' = [refusedBy EXCEPT ![d] = port]
        /\ UNCHANGED port /\ Goto(d, "unlock")
  /\ UNCHANGED <<lock, files, ident, tok, hosts, dialing, up, bounds, used, known, misread>>

-----------------------------------------------------------------------------
(* The identity: LoadOrCreatePrivKey, then the host *)

\* Mutant of ReadKey: a key that cannot be read is minted anew.
ReadKeyOrReplace(p) ==
  /\ step[p] = "key"
  /\ IF key \in Secrets
     THEN ident' = [ident EXCEPT ![p] = key] /\ Goto(p, "host")
     ELSE UNCHANGED ident /\ Goto(p, "mint")
  /\ UNCHANGED <<lock, port, files, tok, hosts, dialing, up, bounds, history>>

\* A damaged key is refused, never replaced.
ReadKey(p) ==
  /\ step[p] = "key"
  /\ \/ key \in Secrets /\ ident' = [ident EXCEPT ![p] = key] /\ Goto(p, "host")
     \/ key = Absent /\ UNCHANGED ident /\ Goto(p, "mint")
     \/ key = Damaged /\ UNCHANGED ident /\ Bail(p, "unbind")
  /\ UNCHANGED <<lock, port, files, tok, hosts, dialing, up, bounds, history>>

\* A key is generated, and written and synced under a temporary name.
MintKey(p) ==
  /\ step[p] = "mint" /\ Mint
  /\ staged' = [staged EXCEPT ![p] = minted']
  /\ Goto(p, "publish")
  /\ UNCHANGED <<lock, port, key, token, ident, tok, hosts, dialing, up, faults, history>>

\* The rename; nobody looks again whether there is a key by now.
PublishKey(p) ==
  /\ step[p] = "publish"
  /\ key' = staged[p] /\ staged' = [staged EXCEPT ![p] = Absent]
  /\ ident' = [ident EXCEPT ![p] = staged[p]]
  /\ Goto(p, "host")
  /\ UNCHANGED <<lock, port, token, tok, hosts, dialing, up, bounds, history>>

\* A call fails on the way to the host; the deferred removal takes the temporary file.
IdentityFails(p) ==
  /\ step[p] \in {"key", "mint", "publish", "host"} /\ Fault
  /\ staged' = [staged EXCEPT ![p] = Absent]
  /\ Bail(p, "unbind")
  /\ UNCHANGED <<lock, port, key, token, ident, tok, hosts, dialing, up, minted, history>>

OpenHost(p) ==
  /\ step[p] = "host"
  /\ hosts' = hosts \cup {p} /\ used' = used \cup {ident[p]}
  /\ Goto(p, IF p \in Tools THEN "serve" ELSE "token")
  /\ UNCHANGED <<lock, port, files, ident, tok, dialing, up, bounds, known, misread, refusedBy>>

-----------------------------------------------------------------------------
(* The token: LoadOrCreateToken *)

\* Mutant of ReadToken: whatever the file holds is the token.
ReadTokenEmpty(d) ==
  /\ step[d] = "token"
  /\ tok' = [tok EXCEPT ![d] = IF d \in Explicit THEN Passed ELSE token]
  /\ Goto(d, "trust")
  /\ UNCHANGED <<lock, port, files, ident, hosts, dialing, up, bounds, history>>

\* Mutant of ReadToken: every start mints a token.
ReadTokenNever(d) ==
  /\ step[d] = "token"
  /\ \/ d \in Explicit /\ tok' = [tok EXCEPT ![d] = Passed] /\ Goto(d, "trust")
     \/ d \notin Explicit /\ UNCHANGED tok /\ Goto(d, "truncate")
  /\ UNCHANGED <<lock, port, files, ident, hosts, dialing, up, bounds, history>>

\* A token the operator passed wins and is not written; an empty file is no token.
ReadToken(d) ==
  /\ step[d] = "token"
  /\ \/ d \in Explicit /\ tok' = [tok EXCEPT ![d] = Passed] /\ Goto(d, "trust")
     \/ d \notin Explicit /\ token # Empty /\ tok' = [tok EXCEPT ![d] = token] /\ Goto(d, "trust")
     \/ d \notin Explicit /\ token = Empty /\ UNCHANGED tok /\ Goto(d, "truncate")
  /\ UNCHANGED <<lock, port, files, ident, hosts, dialing, up, bounds, history>>

\* A file that cannot be read is a file that is not there.
MisreadToken(d) ==
  /\ step[d] = "token" /\ d \notin Explicit /\ Fault
  /\ misread' = TRUE
  /\ Goto(d, "truncate")
  /\ UNCHANGED <<lock, port, files, ident, tok, hosts, dialing, up, minted, used, known, refusedBy>>

\* os.WriteFile opens the file, which empties it ...
TruncateToken(d) ==
  /\ step[d] = "truncate"
  /\ token' = Empty
  /\ Goto(d, "write")
  /\ UNCHANGED <<lock, port, key, staged, ident, tok, hosts, dialing, up, bounds, history>>

\* ... and writes the new token.
WriteToken(d) ==
  /\ step[d] = "write" /\ Mint
  /\ token' = minted' /\ tok' = [tok EXCEPT ![d] = minted']
  /\ Goto(d, "trust")
  /\ UNCHANGED <<lock, port, key, staged, ident, hosts, dialing, up, faults, history>>

\* The token file cannot be written, or the pairings cannot be loaded.
StateFails(d) ==
  /\ step[d] \in {"truncate", "write", "trust"} /\ Fault
  /\ Goto(d, "close")
  /\ UNCHANGED <<lock, port, files, ident, tok, hosts, dialing, up, minted, history>>

-----------------------------------------------------------------------------
(* Service, and its end *)

\* The pairings are loaded, the named peers are dialled, the API is served.
Serve(d) ==
  /\ step[d] = "trust"
  /\ pending' = [pending EXCEPT ![d] = Static[d]] /\ todo' = [todo EXCEPT ![d] = Static[d]]
  /\ Goto(d, "serve")
  /\ UNCHANGED <<lock, port, files, ident, tok, hosts, up, bounds, history>>

NoMoreDialing(p) ==
  IF p \in Tools THEN UNCHANGED dialing
  ELSE pending' = [pending EXCEPT ![p] = {}] /\ todo' = [todo EXCEPT ![p] = {}]

\* Mutant of Stop: the lock is given back first.
StopUnlocking(p) ==
  /\ step[p] = "serve"
  /\ port' = IF port = p THEN Nobody ELSE port
  /\ lock' = IF lock = p THEN Nobody ELSE lock
  /\ NoMoreDialing(p) /\ Goto(p, "close")
  /\ UNCHANGED <<files, ident, tok, hosts, up, bounds, history>>

\* The process is told to stop, or its command is done: Shutdown closes the listener.
Stop(p) ==
  /\ step[p] = "serve"
  /\ port' = IF port = p THEN Nobody ELSE port
  /\ NoMoreDialing(p) /\ Goto(p, "close")
  /\ UNCHANGED <<lock, files, ident, tok, hosts, up, bounds, history>>

\* srv.Serve returns an error.  The context is not done, so the dialling goes on.
ServeFails(d) ==
  /\ step[d] = "serve" /\ Fault
  /\ Goto(d, "close")
  /\ UNCHANGED <<lock, port, files, ident, tok, hosts, dialing, up, minted, history>>

\* The deferred calls, the last first: the host, the listener, the lock; then the
\* process ends, and the dialling with it.
CloseHost(p) ==
  /\ step[p] = "close"
  /\ hosts' = hosts \ {p}
  /\ Bail(p, "unbind")
  /\ UNCHANGED <<lock, port, files, ident, tok, dialing, up, bounds, history>>

Unbind(d) ==
  /\ step[d] = "unbind"
  /\ port' = IF port = d THEN Nobody ELSE port
  /\ Goto(d, "unlock")
  /\ UNCHANGED <<lock, files, ident, tok, hosts, dialing, up, bounds, history>>

Unlock(d) ==
  /\ step[d] = "unlock"
  /\ lock' = IF lock = d THEN Nobody ELSE lock
  /\ NoMoreDialing(d) /\ Goto(d, "down")
  /\ UNCHANGED <<port, files, ident, tok, hosts, up, bounds, history>>

\* The process dies: the kernel takes its lock, its listener and its sockets; a
\* temporary file stays, under a name nobody reads.
Crash(p) ==
  /\ step[p] # "down" /\ Fault
  /\ lock' = IF lock = p THEN Nobody ELSE lock
  /\ port' = IF port = p THEN Nobody ELSE port
  /\ hosts' = hosts \ {p}
  /\ staged' = [staged EXCEPT ![p] = Absent]
  /\ NoMoreDialing(p) /\ Goto(p, "down")
  /\ UNCHANGED <<key, token, ident, tok, up, minted, history>>

-----------------------------------------------------------------------------
(* dialStaticPeers *)

\* One peer of the round is dialled; one that answers is dropped from the list.
\* After an error of the service the host may be closed by then, and reaches nobody.
Dial(d) ==
  /\ \E q \in todo[d] :
       /\ todo' = [todo EXCEPT ![d] = @ \ {q}]
       /\ pending' = IF q \in up /\ d \in hosts THEN [pending EXCEPT ![d] = @ \ {q}] ELSE pending
  /\ UNCHANGED <<step, lock, port, files, ident, tok, hosts, up, bounds, history>>

\* Mutant of NextRound: the list is gone through once.
OneRound(d) ==
  /\ todo[d] = {} /\ pending[d] # {}
  /\ UNCHANGED vars

\* The timer starts another round with those that did not answer.
NextRound(d) ==
  /\ todo[d] = {} /\ pending[d] # {}
  /\ todo' = [todo EXCEPT ![d] = pending[d]]
  /\ UNCHANGED <<step, lock, port, files, ident, tok, hosts, pending, up, bounds, history>>

-----------------------------------------------------------------------------
(* The environment *)

PeerComes(q) ==
  /\ q \notin up /\ up' = up \cup {q}
  /\ UNCHANGED <<step, lock, port, files, ident, tok, hosts, dialing, bounds, history>>

PeerGoes(q) ==
  /\ q \in up /\ up' = up \ {q}
  /\ UNCHANGED <<step, lock, port, files, ident, tok, hosts, dialing, bounds, history>>

\* A client reads the token file.
ReadsToken ==
  /\ token # Empty /\ known' = token
  /\ UNCHANGED <<step, lock, port, files, ident, tok, hosts, dialing, up, bounds, used, misread, refusedBy>>

StrangerLeaves ==
  /\ port = Stranger /\ port' = Nobody
  /\ UNCHANGED <<step, lock, files, ident, tok, hosts, dialing, up, bounds, history>>

-----------------------------------------------------------------------------

\* What a process does of its own accord once it was started.
Identify(p) == ReadKey(p) \/ MintKey(p) \/ PublishKey(p) \/ OpenHost(p)
Leave(d) == CloseHost(d) \/ Unbind(d) \/ Unlock(d)
Progress(d) ==
  \/ TakeLock(d) \/ Bind(d) \/ Identify(d)
  \/ ReadToken(d) \/ TruncateToken(d) \/ WriteToken(d) \/ Serve(d)
  \/ Leave(d)
Dialing(d) == Dial(d) \/ NextRound(d)

Next ==
  \/ \E p \in Processes : Start(p) \/ IdentityFails(p) \/ Stop(p) \/ Crash(p)
  \/ \E d \in Daemons : Progress(d) \/ MisreadToken(d) \/ StateFails(d) \/ ServeFails(d) \/ Dialing(d)
  \/ \E t \in Tools : Identify(t) \/ CloseHost(t)
  \/ \E q \in Peers : PeerComes(q) \/ PeerGoes(q)
  \/ ReadsToken \/ StrangerLeaves

Spec == Init /\ [][Next]_vars

\* A process that was started goes on, and a dial has a deadline; nobody has to
\* start or stop a process.
FairSpec == Spec /\ \A d \in Daemons : WF_vars(Progress(d)) /\ WF_vars(Dialing(d))

-----------------------------------------------------------------------------
(* Properties *)

\* The identity of a directory is for good: every host that ever ran on it ran
\* with the key that is in the file, through crashes, failures and restarts.
IdentityLasts == \A k \in used : key = k

\* A damaged identity file is left for the operator to look at, and no crash or
\* failure of a start damages one.
DamageIsKept == [][key = Damaged <=> key' = Damaged]_key

\* No two daemons run hosts of one identity: each would dial itself.
NoTwins == \A d, e \in Daemons \cap hosts : ident[d] = ident[e] => d = e

\* A daemon that serves requires a token, and unless the operator passed one it
\* is the token of the file, which is where every client looks for it.
TokenIsStored ==
  \A d \in Daemons : step[d] = "serve" =>
    tok[d] # Empty /\ (d \notin Explicit => tok[d] = token)

\* A token a client has read stays good over crashes and restarts, as long as
\* every start could read the file.
TokenLasts ==
  known # Empty /\ ~misread =>
    \A d \in Daemons \ Explicit : step[d] = "serve" => tok[d] = known

\* What a serving daemon requires is the token of the file, and a token that was
\* read stays good: the two sides of a client's being let in.
TokensHold == TokenIsStored /\ TokenLasts

\* A daemon that is refused its address is refused it by a stranger: a second
\* daemon of the directory is told about the lock, and one that follows another
\* finds the address free.
RefusedByStrangers == \A d \in Daemons : refusedBy[d] \notin Daemons

\* A daemon that is on its way out, or that failed to start, gives back the lock.
LockComesFree == \A d \in Daemons : lock = d ~> lock # d \/ step[d] = "serve"

\* A peer the operator named is reached if it stays reachable, however late it came.
NamedPeersReached ==
  \A d \in Daemons : \A q \in Static[d] :
    <>[](step[d] = "serve" /\ q \in up) => []<>(q \notin pending[d])

=============================================================================
