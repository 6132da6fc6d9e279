------------------------------- MODULE Share --------------------------------
(***************************************************************************)
(* The sending side of a share: RegisterShareHandler, serveShare,          *)
(* matchShare, noteShareResolved and completeShareRead of                  *)
(* internal/p2p/transfer.go, fsResolveShare and fsRead of internal/p2p/    *)
(* fs.go, and the session that watches the share, in                       *)
(* pkg/lantern/lantern.go.                                                 *)
(*                                                                         *)
(* A share is registered under a code and can be fetched on two routes:    *)
(* the share-code transfer, which any holder of the code may open, and the *)
(* read path, on which a paired device resolves the code to a path and     *)
(* reads the file.  Whichever route finishes reports to one progress       *)
(* channel; a forwarder turns the reports into events, and a terminal      *)
(* event ends the session and cancels the share's context.                 *)
(*                                                                         *)
(* Abstractions.                                                           *)
(*   - A file is Chunks reads long, and reads succeed in order.            *)
(*   - A receiver runs one fetch at a time.                                *)
(*   - The handshake, encryption and metadata of a transfer either work or *)
(*     fail as one.                                                        *)
(***************************************************************************)
EXTENDS Integers, Sequences, FiniteSets

CONSTANTS
  Codes,     \* share codes
  Peers,     \* receivers
  Paired,    \* the receivers that may use the read path
  Files,     \* files on disk
  FileOf,    \* FileOf[c]: the file shared under c
  Chunks,    \* reads per file
  Buffer,    \* capacity of the progress channel
  MaxCancels,\* bound: sessions closed by the user or a TTL
  MaxFaults, \* bound: receivers that leave, streams and files that break
  None

ASSUME ShareAssumption ==
  /\ Paired \subseteq Peers
  /\ FileOf \in [Codes -> Files]
  /\ Chunks \in Nat \ {0} /\ Buffer \in Nat \ {0}
  /\ MaxCancels \in Nat /\ MaxFaults \in Nat
  /\ None \notin Codes \cup Files
  /\ IsFiniteSet(Codes) /\ IsFiniteSet(Peers)

VARIABLES
  shares,    \* Node.shares: the codes registered
  seq,       \* seq[c]: shareState.seq, registration order; 0 before
  handled,   \* the shares whose handled flag is set
  readPeers, \* readPeers[c]: who resolved c over the read path
  local,     \* codes with a rendezvous file in the data directory
  progress,  \* progress[c]: the reports queued for the forwarder
  closed,    \* the shares whose progress channel is closed
  alive,     \* the shares whose context is not cancelled
  fwd,       \* fwd[c]: forwardProgress
  state,     \* state[c]: the session's TransferState
  fetch,     \* fetch[p]: the stream of p on this device
  got,       \* history: got[p]: <<route, code, file>> of the fetches p has whole
  panicked,  \* a send on, or a close of, a closed channel
  cancels, faults  \* steps taken against the bounds

registry == <<shares, seq, handled, readPeers, local>>
session == <<progress, closed, alive, fwd, state, panicked>>
bounds == <<cancels, faults>>
vars == <<registry, session, fetch, got, bounds>>

\* The two routes, in the order a handler takes the steps.
TransferSteps == {"matched", "serving", "reporting", "failing", "finishing",
                  "withdrawing", "closing", "stopping"}
ReadSteps == {"resolving", "reading", "copied", "picked", "completing", "sealing",
              "releasing", "unlisting"}

Fetch == [step : TransferSteps \cup ReadSteps \cup {"idle"},
          code : Codes \cup {None}, file : Files \cup {None}, sent : 0..Chunks,
          found : Codes \cup {None}]
Idle == [step |-> "idle", code |-> None, file |-> None, sent |-> 0, found |-> None]

TypeOK ==
  /\ shares \subseteq Codes /\ handled \subseteq Codes /\ local \subseteq Codes
  /\ seq \in [Codes -> 0..Cardinality(Codes)]
  /\ readPeers \in [Codes -> SUBSET Paired]
  /\ progress \in [Codes -> Seq({"chunk", "done", "error"})]
  /\ \A c \in Codes : Len(progress[c]) <= Buffer
  /\ closed \subseteq Codes /\ alive \subseteq Codes
  /\ fwd \in [Codes -> {"none", "open", "drain", "ended"}]
  /\ state \in [Codes -> {"none", "running", "done", "failed", "canceled"}]
  /\ fetch \in [Peers -> Fetch]
  /\ got \in [Peers -> SUBSET ({"share", "read"} \X (Codes \cup {None}) \X Files)]
  /\ panicked \in BOOLEAN
  /\ cancels \in 0..MaxCancels /\ faults \in 0..MaxFaults

Init ==
  /\ shares = {} /\ handled = {} /\ local = {}
  /\ seq = [c \in Codes |-> 0]
  /\ readPeers = [c \in Codes |-> {}]
  /\ progress = [c \in Codes |-> <<>>]
  /\ closed = {} /\ alive = {}
  /\ fwd = [c \in Codes |-> "none"]
  /\ state = [c \in Codes |-> "none"]
  /\ fetch = [p \in Peers |-> Idle]
  /\ got = [p \in Peers |-> {}]
  /\ panicked = FALSE
  /\ cancels = 0 /\ faults = 0

-----------------------------------------------------------------------------
(* Helpers *)

Fault == faults < MaxFaults /\ faults' = faults + 1

Goto(p, step) == fetch' = [fetch EXCEPT ![p].step = step]
Leave(p) == fetch' = [fetch EXCEPT ![p] = Idle]
Begin(p, step, c, f) ==
  /\ fetch[p] = Idle
  /\ fetch' = [fetch EXCEPT ![p] = [Idle EXCEPT !.step = step, !.code = c, !.file = f]]

\* progress <- msg, once there is room.
Send(c, msg) ==
  /\ Len(progress[c]) < Buffer
  /\ progress' = [progress EXCEPT ![c] = Append(@, msg)]
  /\ panicked' = (panicked \/ c \in closed)

Close(c) ==
  /\ closed' = closed \cup {c}
  /\ panicked' = (panicked \/ c \in closed)

-----------------------------------------------------------------------------
(* Registering a share, and closing its session *)

\* newSession, RegisterShareHandler and AdvertiseLocal: nobody else knows the
\* code before they are done.
Register(c) ==
  /\ state[c] = "none"
  /\ state' = [state EXCEPT ![c] = "running"]
  /\ seq' = [seq EXCEPT ![c] = 1 + Cardinality({d \in Codes : seq[d] > 0})]
  /\ shares' = shares \cup {c}
  /\ local' = local \cup {c}
  /\ alive' = alive \cup {c}
  /\ fwd' = [fwd EXCEPT ![c] = "open"]
  /\ UNCHANGED <<handled, readPeers, progress, closed, panicked, fetch, got, bounds>>

\* Session.Close, by the user or when the share's time is up.
Cancel(c) ==
  /\ cancels < MaxCancels /\ cancels' = cancels + 1
  /\ state[c] = "running"
  /\ state' = [state EXCEPT ![c] = "canceled"]
  /\ alive' = alive \ {c}
  /\ UNCHANGED <<registry, progress, closed, fwd, panicked, fetch, got, faults>>

-----------------------------------------------------------------------------
(* The share-code transfer *)

\* matchShare has found the share the proof is for.
Match(p, c) ==
  /\ c \in shares
  /\ Begin(p, "matched", c, FileOf[c])
  /\ UNCHANGED <<registry, session, got, bounds>>

\* Mutant of Claim: the flag is set and not looked at.
ClaimAnyway(p) ==
  /\ fetch[p].step = "matched"
  /\ handled' = handled \cup {fetch[p].code}
  /\ Goto(p, "serving")
  /\ UNCHANGED <<shares, seq, readPeers, local, session, got, bounds>>

\* handled.CompareAndSwap
Claim(p) ==
  LET c == fetch[p].code IN
  /\ fetch[p].step = "matched"
  /\ handled' = handled \cup {c}
  /\ IF c \in handled THEN Leave(p) ELSE Goto(p, "serving")
  /\ UNCHANGED <<shares, seq, readPeers, local, session, got, bounds>>

\* Read a chunk and write it, or at the end of the file close the stream.
ServeChunk(p) ==
  LET f == fetch[p] IN
  /\ f.step = "serving"
  /\ \/ /\ f.sent < Chunks
        /\ fetch' = [fetch EXCEPT ![p].sent = f.sent + 1, ![p].step = "reporting"]
        /\ UNCHANGED got
     \/ /\ f.sent = Chunks
        /\ Goto(p, "finishing")
        /\ got' = [got EXCEPT ![p] = @ \cup {<<"share", f.code, f.file>>}]
  /\ UNCHANGED <<registry, session, bounds>>

\* The file changed, or the receiver is gone.
ServeFails(p) ==
  /\ Fault
  /\ fetch[p].step = "serving"
  /\ Goto(p, "failing")
  /\ UNCHANGED <<registry, session, got, cancels>>

\* Mutant of Report: progress <- msg, whoever listens.
ReportBlocking(p) ==
  LET f == fetch[p] IN
  /\ f.step \in {"reporting", "failing", "finishing"}
  /\ Send(f.code, CASE f.step = "reporting" -> "chunk"
                    [] f.step = "failing"   -> "error"
                    [] f.step = "finishing" -> "done")
  /\ Goto(p, IF f.step = "reporting" THEN "serving" ELSE "withdrawing")
  /\ UNCHANGED <<registry, closed, alive, fwd, state, got, bounds>>

\* reportProgress: send, or give up once the share's context is cancelled.
Report(p) ==
  LET f == fetch[p]
      msg == CASE f.step = "reporting" -> "chunk"
               [] f.step = "failing"   -> "error"
               [] f.step = "finishing" -> "done"
  IN
  /\ f.step \in {"reporting", "failing", "finishing"}
  /\ \/ /\ Send(f.code, msg)
        /\ Goto(p, IF f.step = "reporting" THEN "serving" ELSE "withdrawing")
     \/ /\ f.code \notin alive
        /\ Goto(p, "withdrawing")
        /\ UNCHANGED <<progress, panicked>>
  /\ UNCHANGED <<registry, closed, alive, fwd, state, got, bounds>>

\* The deferred calls: forgetShare and ClearLocal, close, done.
Withdraw(p) ==
  LET c == fetch[p].code IN
  /\ fetch[p].step = "withdrawing"
  /\ shares' = shares \ {c}
  /\ local' = local \ {c}
  /\ Goto(p, "closing")
  /\ UNCHANGED <<seq, handled, readPeers, session, got, bounds>>

CloseProgress(p) ==
  /\ fetch[p].step = "closing"
  /\ Close(fetch[p].code)
  /\ Goto(p, "stopping")
  /\ UNCHANGED <<registry, progress, alive, fwd, state, got, bounds>>

StopAdvertising(p) ==
  /\ fetch[p].step = "stopping"
  /\ alive' = alive \ {fetch[p].code}
  /\ Leave(p)
  /\ UNCHANGED <<registry, progress, closed, fwd, state, panicked, got, bounds>>

-----------------------------------------------------------------------------
(* The read path *)

\* resolveShare finds the share; the peer is recorded in a second step.
Resolve(p, c) ==
  /\ p \in Paired /\ c \in shares
  /\ Begin(p, "resolving", c, FileOf[c])
  /\ UNCHANGED <<registry, session, got, bounds>>

NoteResolved(p) ==
  LET c == fetch[p].code IN
  /\ fetch[p].step = "resolving"
  /\ readPeers' = IF c \in shares THEN [readPeers EXCEPT ![c] = @ \cup {p}] ELSE readPeers
  /\ Goto(p, "reading")
  /\ UNCHANGED <<shares, seq, handled, local, session, got, bounds>>

\* A paired device may read a file without a code.
Browse(p, f) ==
  /\ p \in Paired
  /\ Begin(p, "reading", None, f)
  /\ UNCHANGED <<registry, session, got, bounds>>

\* fsRead: a range is copied to the stream.
ReadRange(p) ==
  LET f == fetch[p] IN
  /\ f.step = "reading"
  /\ fetch' = [fetch EXCEPT ![p].sent = f.sent + 1,
                            ![p].step = IF f.sent + 1 = Chunks THEN "copied" ELSE "reading"]
  /\ got' = IF f.sent + 1 = Chunks THEN [got EXCEPT ![p] = @ \cup {<<"read", f.code, f.file>>}] ELSE got
  /\ UNCHANGED <<registry, session, bounds>>

\* The receiver leaves: each range is a stream of its own.
Abandon(p) ==
  /\ Fault
  /\ fetch[p].step = "reading"
  /\ Leave(p)
  /\ UNCHANGED <<registry, session, got, cancels>>

\* Mutant of Candidates: correlated by path and not by peer.
CandidatesByPath(p) == {d \in shares : FileOf[d] = fetch[p].file}

\* The shares this read may have been the fetch of.
Candidates(p) ==
  {d \in shares : p \in readPeers[d] /\ FileOf[d] = fetch[p].file}

\* completeShareRead takes the oldest of them out of the registry,
PickShare(p) ==
  /\ fetch[p].step = "copied"
  /\ \/ /\ Candidates(p) = {}
        /\ Leave(p)
        /\ UNCHANGED shares
     \/ \E d \in Candidates(p) :
          /\ \A e \in Candidates(p) : seq[d] <= seq[e]
          /\ shares' = shares \ {d}
          /\ fetch' = [fetch EXCEPT ![p].step = "picked", ![p].found = d]
  /\ UNCHANGED <<seq, handled, readPeers, local, session, got, bounds>>

\* Mutant of ClaimRead: the read path has no guard of its own.
ClaimReadAnyway(p) ==
  /\ fetch[p].step = "picked"
  /\ handled' = handled \cup {fetch[p].found}
  /\ Goto(p, "completing")
  /\ UNCHANGED <<shares, seq, readPeers, local, session, got, bounds>>

\* claims it,
ClaimRead(p) ==
  LET d == fetch[p].found IN
  /\ fetch[p].step = "picked"
  /\ handled' = handled \cup {d}
  /\ IF d \in handled THEN Leave(p) ELSE Goto(p, "completing")
  /\ UNCHANGED <<shares, seq, readPeers, local, session, got, bounds>>

\* reports without regard to the share's context,
ReportRead(p) ==
  /\ fetch[p].step = "completing"
  /\ Send(fetch[p].found, "done")
  /\ Goto(p, "sealing")
  /\ UNCHANGED <<registry, closed, alive, fwd, state, got, bounds>>

\* closes the channel, cancels the context, and withdraws the advertisement.
SealRead(p) ==
  /\ fetch[p].step = "sealing"
  /\ Close(fetch[p].found)
  /\ Goto(p, "releasing")
  /\ UNCHANGED <<registry, progress, alive, fwd, state, got, bounds>>

\* Mutant of ReleaseRead: the rendezvous file is forgotten.
ReleaseOnly(p) ==
  /\ fetch[p].step = "releasing"
  /\ alive' = alive \ {fetch[p].found}
  /\ Leave(p)
  /\ UNCHANGED <<registry, progress, closed, fwd, state, panicked, got, bounds>>

ReleaseRead(p) ==
  /\ fetch[p].step = "releasing"
  /\ alive' = alive \ {fetch[p].found}
  /\ Goto(p, "unlisting")
  /\ UNCHANGED <<registry, progress, closed, fwd, state, panicked, got, bounds>>

UnlistRead(p) ==
  /\ fetch[p].step = "unlisting"
  /\ local' = local \ {fetch[p].found}
  /\ Leave(p)
  /\ UNCHANGED <<shares, seq, handled, readPeers, session, got, bounds>>

-----------------------------------------------------------------------------
(* forwardProgress *)

\* Emit the oldest report.  A terminal one ends the session, which cancels its
\* context and with it the share's.
Forward(c) ==
  /\ fwd[c] \in {"open", "drain"} /\ progress[c] # <<>>
  /\ progress' = [progress EXCEPT ![c] = Tail(@)]
  /\ IF Head(progress[c]) = "chunk"
     THEN UNCHANGED <<alive, state>>
     ELSE /\ alive' = alive \ {c}
          /\ state' = IF state[c] # "running" THEN state
                      ELSE [state EXCEPT ![c] = IF Head(progress[c]) = "done"
                                                THEN "done" ELSE "failed"]
  /\ UNCHANGED <<registry, closed, fwd, panicked, fetch, got, bounds>>

\* Mutant of ForwarderCancelled: what is queued is dropped.
ForwarderQuits(c) ==
  /\ fwd[c] = "open" /\ c \notin alive
  /\ fwd' = [fwd EXCEPT ![c] = "ended"]
  /\ UNCHANGED <<registry, progress, closed, alive, state, panicked, fetch, got, bounds>>

\* On cancellation what is queued is drained; the forwarder ends when nothing
\* is left, or when the channel is closed.
ForwarderCancelled(c) ==
  /\ fwd[c] = "open" /\ c \notin alive
  /\ fwd' = [fwd EXCEPT ![c] = "drain"]
  /\ UNCHANGED <<registry, progress, closed, alive, state, panicked, fetch, got, bounds>>

ForwarderEnds(c) ==
  /\ progress[c] = <<>>
  /\ fwd[c] = "drain" \/ (fwd[c] = "open" /\ c \in closed)
  /\ fwd' = [fwd EXCEPT ![c] = "ended"]
  /\ UNCHANGED <<registry, progress, closed, alive, state, panicked, fetch, got, bounds>>

-----------------------------------------------------------------------------

TransferHandler(p) ==
  \/ Claim(p) \/ ServeChunk(p) \/ Report(p) \/ Withdraw(p) \/ CloseProgress(p)
  \/ StopAdvertising(p)

ReadHandler(p) ==
  \/ NoteResolved(p) \/ PickShare(p) \/ ClaimRead(p) \/ ReportRead(p) \/ SealRead(p)
  \/ ReleaseRead(p) \/ UnlistRead(p)

Forwarder(c) == Forward(c) \/ ForwarderCancelled(c) \/ ForwarderEnds(c)

Next ==
  \/ \E c \in Codes : Register(c) \/ Cancel(c) \/ Forwarder(c)
  \/ \E p \in Peers, c \in Codes : Match(p, c) \/ Resolve(p, c)
  \/ \E p \in Peers, f \in Files : Browse(p, f)
  \/ \E p \in Peers : \/ TransferHandler(p) \/ ReadHandler(p)
                      \/ ServeFails(p) \/ ReadRange(p) \/ Abandon(p)

Spec == Init /\ [][Next]_vars

\* Handlers and forwarders are goroutines that nothing else holds up.  A
\* receiver that stops taking the stream's bytes counts as one that leaves.
FairSpec ==
  /\ Spec
  /\ \A p \in Peers : WF_vars(TransferHandler(p)) /\ WF_vars(ReadHandler(p))
  /\ \A c \in Codes : WF_vars(Forwarder(c))

-----------------------------------------------------------------------------
(* Properties *)

\* The two routes never both own a share's progress channel: nothing is sent on
\* it, and it is not closed again, once it is closed (either would panic).
NeverPanics == ~panicked

\* The receivers that fetched c and have its whole file.
FetchedBy(route, c) == {p \in Peers : <<route, c, FileOf[c]>> \in got[p]}
Fetched(c) == FetchedBy("share", c) \cup FetchedBy("read", c)

\* A session that says done tells the truth: a receiver that presented the code
\* has the whole file.  A read that stopped short, and a reader that never
\* asked for the share, do not complete it.  The transfer protocol serves each
\* code to one receiver; over the read path several devices that resolved the
\* code before one of them completes the share may all have it, since the claim
\* is taken only after the content went out.
DoneIsTrue ==
  \A c \in Codes :
    /\ state[c] = "done" =>
         Fetched(c) # {} \/ \E p \in readPeers[c] : \E x \in got[p] : x[3] = FileOf[c]
    /\ Cardinality(FetchedBy("share", c)) <= 1

\* When a receiver has the whole file the sender's session ends: nothing waits
\* for a completion that was queued, dropped, or credited elsewhere.
SenderLearns ==
  \A c \in Codes : Fetched(c) # {} ~> state[c] # "running"

\* Serving ends, on either route.  A handler never stays for good, whether or
\* not anyone still listens to its reports: no goroutine sits on a full channel
\* with a file and a stream open.  And a share that was served is withdrawn:
\* its rendezvous file goes away.
ServingEnds ==
  /\ \A p \in Peers : fetch[p].step \notin {"idle", "reading"} ~> fetch[p].step \in {"idle", "reading"}
  /\ \A c \in Codes : state[c] \in {"done", "failed"} ~> c \notin local

=============================================================================
