---------------------------- MODULE ShareProofs -----------------------------
(***************************************************************************)
(* What TLC checks of two receivers and two codes, for any number of       *)
(* receivers, codes, files and chunks and any capacity of the channel.     *)
(*                                                                         *)
(* A share has one owner: the handler, of either route, that set its       *)
(* handled flag, until it has closed the progress channel.  That is why    *)
(* the channel is closed once, and why the transfer protocol serves a code *)
(* to one receiver.  That a session says done only of a file that went out *)
(* whole follows the evidence from the handler, through the queue, to the  *)
(* session.                                                                *)
(***************************************************************************)
EXTENDS Share, FiniteSetTheorems, SequenceTheorems, TLAPS

Steps == TransferSteps \cup ReadSteps \cup {"idle"}
Messages == {"chunk", "done", "error"}
In(m, q) == \E i \in 1..Len(q) : q[i] = m

\* The handler of p has set the flag of c and has not closed its channel yet.
Owns(p, c) ==
  \/ /\ fetch[p].step \in {"serving", "reporting", "failing", "finishing", "withdrawing", "closing"}
     /\ fetch[p].code = c
  \/ fetch[p].step \in {"completing", "sealing"} /\ fetch[p].found = c

Ownership ==
  /\ closed \subseteq handled
  /\ \A p \in Peers, c \in Codes : Owns(p, c) => c \in handled /\ c \notin closed
  /\ \A p, q \in Peers, c \in Codes : Owns(p, c) /\ Owns(q, c) => p = q

\* What a handler knows by the step it is at.
KnownOf(p) ==
  LET f == fetch[p] IN
  /\ f.step \in TransferSteps => f.code \in Codes /\ f.file = FileOf[f.code]
  /\ f.step = "resolving" => p \in Paired /\ f.code \in Codes
  /\ f.step \in {"resolving", "reading"} => f.sent < Chunks
  /\ f.step \in {"resolving", "reading"} => f.file \in Files
  /\ f.step = "finishing" => <<"share", f.code, f.file>> \in got[p]
  /\ f.step \in {"copied", "picked", "completing"} => \E x \in got[p] : x[3] = f.file
  /\ f.step \in {"picked", "completing", "sealing", "releasing", "unlisting"} => f.found \in Codes
  /\ f.step \in {"picked", "completing"} => p \in readPeers[f.found] /\ FileOf[f.found] = f.file

Known == \A p \in Peers : KnownOf(p)

\* Somebody who presented c has its whole file.
Evidence(c) ==
  Fetched(c) # {} \/ \E p \in readPeers[c] : \E x \in got[p] : x[3] = FileOf[c]

Honest == \A c \in Codes : In("done", progress[c]) \/ state[c] = "done" => Evidence(c)

\* The transfer protocol serves a code once.
ServedOnceOf(c) ==
  /\ FetchedBy("share", c) # {} => c \in handled
  /\ \A p \in Peers :
       fetch[p].step \in {"serving", "reporting"} /\ fetch[p].code = c => FetchedBy("share", c) = {}
  /\ \A p, q \in FetchedBy("share", c) : p = q

ServedOnce == \A c \in Codes : ServedOnceOf(c)

\* A code has its place in the order of registration once it is registered.
Ordered == \A c \in Codes : state[c] = "none" => seq[c] = 0

\* The inductive invariant.
ShareInv == TypeOK /\ Known /\ Ownership /\ ~panicked /\ Honest /\ ServedOnce /\ Ordered

-----------------------------------------------------------------------------
(* The queue *)

LEMMA QueueAppend ==
  ASSUME NEW q \in Seq(Messages), NEW m \in Messages
  PROVE  /\ Append(q, m) \in Seq(Messages) /\ Len(Append(q, m)) = Len(q) + 1
         /\ \A x : In(x, Append(q, m)) => In(x, q) \/ x = m
BY DEF In

LEMMA QueueTail ==
  ASSUME NEW q \in Seq(Messages), q # <<>>
  PROVE  /\ Tail(q) \in Seq(Messages) /\ Len(Tail(q)) = Len(q) - 1
         /\ Head(q) \in Messages /\ In(Head(q), q)
         /\ \A x : In(x, Tail(q)) => In(x, q)
<1>1. Len(q) \in Nat /\ Len(q) > 0
  BY EmptySeq
<1>2. Head(q) = q[1] /\ \A i \in 1..Len(Tail(q)) : Tail(q)[i] = q[i + 1]
  BY <1>1
<1> QED BY <1>1, <1>2 DEF In

\* A report is added to the queue of its share; on an open channel it does not panic.
LEMMA SendAdds ==
  ASSUME TypeOK, NEW c \in Codes, NEW m \in Messages, Send(c, m)
  PROVE  /\ progress' \in [Codes -> Seq(Messages)]
         /\ \A d \in Codes : Len(progress'[d]) <= Buffer
         /\ \A d \in Codes, x \in Messages :
              In(x, progress'[d]) => In(x, progress[d]) \/ (d = c /\ x = m)
         /\ panicked' \in BOOLEAN /\ (c \notin closed /\ ~panicked => ~panicked')
<1>0. progress \in [Codes -> Seq(Messages)] /\ \A d \in Codes : Len(progress[d]) <= Buffer
  BY DEF TypeOK, Messages
<1>1. /\ Len(progress[c]) < Buffer /\ progress' = [progress EXCEPT ![c] = Append(progress[c], m)]
      /\ panicked' = (panicked \/ c \in closed)
  BY DEF Send
<1>2. /\ Append(progress[c], m) \in Seq(Messages)
      /\ Len(Append(progress[c], m)) = Len(progress[c]) + 1
      /\ \A x : In(x, Append(progress[c], m)) => In(x, progress[c]) \/ x = m
  BY <1>0, QueueAppend
<1>3. \A d \in Codes : progress'[d] = IF d = c THEN Append(progress[c], m) ELSE progress[d]
  BY <1>0, <1>1
<1>4. progress' \in [Codes -> Seq(Messages)]
  BY <1>0, <1>1, <1>2
<1>5. \A d \in Codes : Len(progress'[d]) <= Buffer
  <2>1. Len(progress[c]) + 1 <= Buffer
    BY <1>0, <1>1, ShareAssumption
  <2> QED BY <1>0, <1>2, <1>3, <2>1
<1>6. panicked' \in BOOLEAN /\ (c \notin closed /\ ~panicked => ~panicked')
  BY <1>1
<1> QED BY <1>2, <1>3, <1>4, <1>5, <1>6

\* The forwarder takes the oldest report.
LEMMA ForwardTakes ==
  ASSUME TypeOK, NEW c \in Codes, Forward(c)
  PROVE  /\ progress' \in [Codes -> Seq(Messages)]
         /\ \A d \in Codes : Len(progress'[d]) <= Buffer
         /\ \A d \in Codes, x \in Messages : In(x, progress'[d]) => In(x, progress[d])
         /\ Head(progress[c]) \in Messages /\ In(Head(progress[c]), progress[c])
<1>0. progress \in [Codes -> Seq(Messages)] /\ \A d \in Codes : Len(progress[d]) <= Buffer
  BY DEF TypeOK, Messages
<1>1. progress[c] # <<>> /\ progress' = [progress EXCEPT ![c] = Tail(progress[c])]
  BY DEF Forward
<1>2. /\ Tail(progress[c]) \in Seq(Messages) /\ Len(Tail(progress[c])) = Len(progress[c]) - 1
      /\ Head(progress[c]) \in Messages /\ In(Head(progress[c]), progress[c])
      /\ \A x : In(x, Tail(progress[c])) => In(x, progress[c])
  BY <1>0, <1>1, QueueTail
<1>3. \A d \in Codes : progress'[d] = IF d = c THEN Tail(progress[c]) ELSE progress[d]
  BY <1>0, <1>1
<1>4. progress' \in [Codes -> Seq(Messages)]
  BY <1>0, <1>1, <1>2
<1>5. \A d \in Codes : Len(progress'[d]) <= Buffer
  <2>1. Len(progress[c]) - 1 <= Buffer
    BY <1>0, ShareAssumption
  <2> QED BY <1>0, <1>2, <1>3, <2>1
<1> QED BY <1>2, <1>3, <1>4, <1>5

-----------------------------------------------------------------------------
(* The way of a handler through its code *)

\* Every component of a stream but its place in the code.
Same(p) ==
  /\ fetch'[p].code = fetch[p].code /\ fetch'[p].file = fetch[p].file
  /\ fetch'[p].found = fetch[p].found

\* Only the stream of p changes.
Only(p) == fetch' \in [Peers -> Fetch] /\ \A q \in Peers : q # p => fetch'[q] = fetch[q]

LEMMA Goes ==
  ASSUME TypeOK, NEW p \in Peers, NEW step \in Steps, Goto(p, step)
  PROVE  Only(p) /\ Same(p) /\ fetch'[p].step = step /\ fetch'[p].sent = fetch[p].sent
<1>1. fetch \in [Peers -> Fetch] /\ fetch' = [fetch EXCEPT ![p] = [fetch[p] EXCEPT !.step = step]]
  BY DEF Goto, TypeOK
<1>2. fetch[p] \in Fetch /\ [fetch[p] EXCEPT !.step = step] \in Fetch
  BY <1>1 DEF Fetch, Steps
<1> QED BY <1>1, <1>2 DEF Fetch, Only, Same

LEMMA Leaves ==
  ASSUME TypeOK, NEW p \in Peers, Leave(p)
  PROVE  Only(p) /\ fetch'[p].step = "idle"
<1>1. Idle \in Fetch /\ Idle.step = "idle"
  BY ShareAssumption DEF Idle, Fetch
<1>2. fetch \in [Peers -> Fetch] /\ fetch' = [fetch EXCEPT ![p] = Idle]
  BY DEF Leave, TypeOK
<1> QED BY <1>1, <1>2 DEF Only

LEMMA Begins ==
  ASSUME TypeOK, NEW p \in Peers, NEW step \in Steps,
         NEW c \in Codes \cup {None}, NEW f \in Files, Begin(p, step, c, f)
  PROVE  /\ Only(p) /\ fetch[p].step = "idle" /\ fetch'[p].step = step /\ fetch'[p].sent = 0
         /\ fetch'[p].code = c /\ fetch'[p].file = f
<1> DEFINE r == [[[Idle EXCEPT !.step = step] EXCEPT !.code = c] EXCEPT !.file = f]
<1>1. Idle \in Fetch /\ Idle.step = "idle" /\ Idle.sent = 0
  BY ShareAssumption DEF Idle, Fetch
<1>2. r \in Fetch /\ r.step = step /\ r.sent = 0 /\ r.code = c /\ r.file = f
  BY <1>1 DEF Fetch, Steps
<1>3. fetch \in [Peers -> Fetch] /\ fetch[p] = Idle /\ fetch' = [fetch EXCEPT ![p] = r]
  BY DEF Begin, TypeOK
<1> HIDE DEF r
<1> QED BY <1>1, <1>2, <1>3 DEF Only

\* What a peer's requests and its handler do.
Peer(p) ==
  \/ \E c \in Codes : Match(p, c) \/ Resolve(p, c)
  \/ \E f \in Files : Browse(p, f)
  \/ TransferHandler(p) \/ ReadHandler(p) \/ ServeFails(p) \/ ReadRange(p) \/ Abandon(p)

\* One row for every action: where the stream is, and where it goes.
Moves(p) ==
  \/ \E c \in Codes : /\ Match(p, c) /\ fetch[p].step = "idle" /\ fetch'[p].step = "matched"
                      /\ fetch'[p].code = c /\ fetch'[p].file = FileOf[c]
  \/ \E c \in Codes : /\ Resolve(p, c) /\ fetch[p].step = "idle" /\ fetch'[p].step = "resolving"
                      /\ fetch'[p].code = c /\ fetch'[p].file = FileOf[c] /\ fetch'[p].sent = 0
  \/ \E f \in Files : /\ Browse(p, f) /\ fetch[p].step = "idle" /\ fetch'[p].step = "reading"
                      /\ fetch'[p].file = f /\ fetch'[p].sent = 0
  \/ /\ Claim(p) /\ fetch[p].step = "matched"
     /\ IF fetch[p].code \in handled THEN fetch'[p].step = "idle"
        ELSE fetch'[p].step = "serving" /\ Same(p)
  \/ /\ ServeChunk(p) /\ fetch[p].step = "serving" /\ Same(p)
     /\ \/ fetch'[p].step = "reporting" /\ got' = got
        \/ /\ fetch'[p].step = "finishing"
           /\ got' = [got EXCEPT ![p] = got[p] \cup {<<"share", fetch[p].code, fetch[p].file>>}]
  \/ ServeFails(p) /\ fetch[p].step = "serving" /\ fetch'[p].step = "failing" /\ Same(p)
  \/ /\ Report(p) /\ fetch[p].step = "reporting" /\ Same(p)
     /\ fetch'[p].step \in {"serving", "withdrawing"}
  \/ /\ Report(p) /\ fetch[p].step \in {"failing", "finishing"} /\ Same(p)
     /\ fetch'[p].step = "withdrawing"
  \/ Withdraw(p) /\ fetch[p].step = "withdrawing" /\ fetch'[p].step = "closing" /\ Same(p)
  \/ CloseProgress(p) /\ fetch[p].step = "closing" /\ fetch'[p].step = "stopping" /\ Same(p)
  \/ StopAdvertising(p) /\ fetch[p].step = "stopping" /\ fetch'[p].step = "idle"
  \/ /\ NoteResolved(p) /\ fetch[p].step = "resolving" /\ fetch'[p].step = "reading" /\ Same(p)
     /\ fetch'[p].sent = fetch[p].sent
  \/ /\ ReadRange(p) /\ fetch[p].step = "reading" /\ Same(p)
     /\ \/ /\ fetch'[p].step = "reading" /\ fetch[p].sent + 1 # Chunks
           /\ fetch'[p].sent = fetch[p].sent + 1 /\ got' = got
        \/ /\ fetch'[p].step = "copied"
           /\ got' = [got EXCEPT ![p] = got[p] \cup {<<"read", fetch[p].code, fetch[p].file>>}]
  \/ Abandon(p) /\ fetch[p].step = "reading" /\ fetch'[p].step = "idle"
  \/ /\ PickShare(p) /\ fetch[p].step = "copied"
     /\ \/ fetch'[p].step = "idle"
        \/ /\ fetch'[p].step = "picked" /\ fetch'[p].found \in Candidates(p)
           /\ fetch'[p].file = fetch[p].file
  \/ /\ ClaimRead(p) /\ fetch[p].step = "picked"
     /\ IF fetch[p].found \in handled THEN fetch'[p].step = "idle"
        ELSE fetch'[p].step = "completing" /\ Same(p)
  \/ ReportRead(p) /\ fetch[p].step = "completing" /\ fetch'[p].step = "sealing" /\ Same(p)
  \/ SealRead(p) /\ fetch[p].step = "sealing" /\ fetch'[p].step = "releasing" /\ Same(p)
  \/ ReleaseRead(p) /\ fetch[p].step = "releasing" /\ fetch'[p].step = "unlisting" /\ Same(p)
  \/ UnlistRead(p) /\ fetch[p].step = "unlisting" /\ fetch'[p].step = "idle"

LEMMA PeerMoves ==
  ASSUME TypeOK, Known, NEW p \in Peers, Peer(p) PROVE Only(p) /\ Moves(p)
<1>0. fetch \in [Peers -> Fetch] /\ fetch[p] \in Fetch /\ Chunks \in Nat /\ KnownOf(p)
  BY ShareAssumption DEF TypeOK, Known
<1>1. \A step \in Steps : Goto(p, step) =>
        Only(p) /\ Same(p) /\ fetch'[p].step = step /\ fetch'[p].sent = fetch[p].sent
  BY Goes
<1>2. Leave(p) => Only(p) /\ fetch'[p].step = "idle"
  BY Leaves
<1>3. ASSUME NEW c \in Codes, Match(p, c) PROVE Only(p) /\ Moves(p)
  <2>1. FileOf[c] \in Files /\ Begin(p, "matched", c, FileOf[c])
    BY <1>3, ShareAssumption DEF Match
  <2>2. "matched" \in Steps
    BY DEF Steps, TransferSteps
  <2> QED BY <1>3, <2>1, <2>2, Begins DEF Moves
<1>4. ASSUME NEW c \in Codes, Resolve(p, c) PROVE Only(p) /\ Moves(p)
  <2>1. FileOf[c] \in Files /\ Begin(p, "resolving", c, FileOf[c])
    BY <1>4, ShareAssumption DEF Resolve
  <2>2. "resolving" \in Steps
    BY DEF Steps, ReadSteps
  <2> QED BY <1>4, <2>1, <2>2, Begins DEF Moves
<1>5. ASSUME NEW f \in Files, Browse(p, f) PROVE Only(p) /\ Moves(p)
  <2>1. Begin(p, "reading", None, f)
    BY <1>5 DEF Browse
  <2>2. "reading" \in Steps
    BY DEF Steps, ReadSteps
  <2> QED BY <1>5, <2>1, <2>2, Begins DEF Moves
<1>6. CASE ServeChunk(p)
  <2>1. CASE /\ Goto(p, "finishing")
             /\ got' = [got EXCEPT ![p] = got[p] \cup {<<"share", fetch[p].code, fetch[p].file>>}]
    BY <1>1, <1>6, <2>1 DEF ServeChunk, Moves, Steps, TransferSteps
  <2>2. CASE fetch[p].sent < Chunks /\ got' = got
             /\ fetch' = [fetch EXCEPT ![p].sent = fetch[p].sent + 1, ![p].step = "reporting"]
    <3> DEFINE r == [[fetch[p] EXCEPT !.sent = fetch[p].sent + 1] EXCEPT !.step = "reporting"]
    <3>0. fetch[p].sent + 1 \in 0..Chunks
      BY <1>0, <2>2 DEF Fetch
    <3>1. /\ r \in Fetch /\ r.step = "reporting" /\ r.code = fetch[p].code /\ r.file = fetch[p].file
          /\ r.found = fetch[p].found
      BY <1>0, <3>0 DEF Fetch, TransferSteps
    <3>2. fetch' = [fetch EXCEPT ![p] = r]
      BY <2>2
    <3> HIDE DEF r
    <3>3. Only(p) /\ Same(p) /\ fetch'[p].step = "reporting"
      BY <1>0, <3>1, <3>2 DEF Only, Same
    <3> QED BY <1>6, <2>2, <3>3 DEF Moves, ServeChunk
  <2> QED BY <1>6, <2>1, <2>2 DEF ServeChunk
<1>7. CASE ReadRange(p)
  <2> DEFINE step == IF fetch[p].sent + 1 = Chunks THEN "copied" ELSE "reading"
             r == [[fetch[p] EXCEPT !.sent = fetch[p].sent + 1] EXCEPT !.step = step]
  <2>0. fetch[p].sent + 1 \in 0..Chunks /\ step \in ReadSteps
    BY <1>0, <1>7 DEF Fetch, ReadSteps, ReadRange, KnownOf
  <2> HIDE DEF step
  <2>1. /\ r \in Fetch /\ r.step = step /\ r.code = fetch[p].code /\ r.file = fetch[p].file
        /\ r.found = fetch[p].found /\ r.sent = fetch[p].sent + 1
    BY <1>0, <2>0 DEF Fetch
  <2>2. fetch' = [fetch EXCEPT ![p] = r] /\ fetch[p].step = "reading"
    BY <1>7 DEF ReadRange, step
  <2> HIDE DEF r
  <2>3. Only(p) /\ Same(p) /\ fetch'[p].step = step /\ fetch'[p].sent = fetch[p].sent + 1
    BY <1>0, <2>1, <2>2 DEF Only, Same
  <2> QED BY <1>7, <2>2, <2>3 DEF Moves, ReadRange, step
<1>8. CASE PickShare(p)
  <2>1. CASE Leave(p)
    BY <1>2, <1>8, <2>1 DEF PickShare, Moves
  <2>2. ASSUME NEW d \in Candidates(p), fetch' = [fetch EXCEPT ![p].step = "picked", ![p].found = d]
        PROVE  Only(p) /\ Moves(p)
    <3> DEFINE r == [[fetch[p] EXCEPT !.step = "picked"] EXCEPT !.found = d]
    <3>1. r \in Fetch /\ r.step = "picked" /\ r.file = fetch[p].file /\ r.found = d
      BY <1>0, <2>2 DEF Fetch, ReadSteps, Candidates, TypeOK
    <3>2. fetch' = [fetch EXCEPT ![p] = r] /\ fetch[p].step = "copied"
      BY <1>8, <2>2 DEF PickShare
    <3> HIDE DEF r
    <3> QED BY <1>0, <1>8, <3>1, <3>2 DEF Only, Moves
  <2> QED BY <1>8, <2>1, <2>2 DEF PickShare
<1>9. CASE Claim(p) \/ ClaimRead(p)
  BY <1>1, <1>2, <1>9 DEF Claim, ClaimRead, Moves, Steps, TransferSteps, ReadSteps
<1>10. CASE Report(p)
  BY <1>1, <1>10 DEF Report, Moves, Steps, TransferSteps
<1>11. CASE ServeFails(p) \/ Withdraw(p) \/ CloseProgress(p)
  BY <1>1, <1>11 DEF ServeFails, Withdraw, CloseProgress, Moves, Steps, TransferSteps
<1>12. CASE NoteResolved(p) \/ ReportRead(p) \/ SealRead(p) \/ ReleaseRead(p)
  BY <1>1, <1>12 DEF NoteResolved, ReportRead, SealRead, ReleaseRead, Moves, Steps, ReadSteps
<1>13. CASE StopAdvertising(p) \/ UnlistRead(p) \/ Abandon(p)
  BY <1>2, <1>13 DEF StopAdvertising, UnlistRead, Abandon, Moves
<1> QED BY <1>3, <1>4, <1>5, <1>6, <1>7, <1>8, <1>9, <1>10, <1>11, <1>12, <1>13
        DEF Peer, TransferHandler, ReadHandler

-----------------------------------------------------------------------------
(* What the actors leave alone *)

\* Received content and recorded readers are never taken back; flags are set by the
\* two claims, channels closed by the two handlers' last steps, and the queue gets
\* what the two reports say.
LEMMA PeerFrame ==
  ASSUME TypeOK, Known, NEW p \in Peers, Peer(p)
  PROVE  /\ UNCHANGED <<state, seq, fwd>>
         /\ got' = got \/ ServeChunk(p) \/ ReadRange(p)
         /\ readPeers' = readPeers \/ NoteResolved(p)
         /\ handled' = handled \/ Claim(p) \/ ClaimRead(p)
         /\ closed' = closed \/ CloseProgress(p) \/ SealRead(p)
         /\ progress' = progress \/ Report(p) \/ ReportRead(p)
         /\ panicked' = panicked \/ Report(p) \/ ReportRead(p) \/ CloseProgress(p) \/ SealRead(p)
<1> USE DEF registry, session, bounds
<1>1. CASE \E c \in Codes : Match(p, c) \/ Resolve(p, c)
  BY <1>1 DEF Match, Resolve
<1>2. CASE \E f \in Files : Browse(p, f)
  BY <1>2 DEF Browse
<1>3. CASE Claim(p) \/ ServeChunk(p) \/ ServeFails(p) \/ Report(p)
  BY <1>3 DEF Claim, ServeChunk, ServeFails, Report
<1>4. CASE Withdraw(p) \/ CloseProgress(p) \/ StopAdvertising(p)
  BY <1>4 DEF Withdraw, CloseProgress, StopAdvertising
<1>5. CASE NoteResolved(p) \/ ReadRange(p) \/ Abandon(p) \/ PickShare(p)
  BY <1>5 DEF NoteResolved, ReadRange, Abandon, PickShare
<1>6. CASE ClaimRead(p) \/ ReportRead(p)
  BY <1>6 DEF ClaimRead, ReportRead
<1>7. CASE SealRead(p) \/ ReleaseRead(p) \/ UnlistRead(p)
  BY <1>7 DEF SealRead, ReleaseRead, UnlistRead
<1> QED BY <1>1, <1>2, <1>3, <1>4, <1>5, <1>6, <1>7 DEF Peer, TransferHandler, ReadHandler

\* A session and its forwarder.
Session(c) == Register(c) \/ Cancel(c) \/ Forwarder(c)

LEMMA SessionFrame ==
  ASSUME TypeOK, NEW c \in Codes, Session(c)
  PROVE  /\ UNCHANGED <<fetch, got, handled, readPeers, closed, panicked>>
         /\ \/ Forward(c)
            \/ /\ progress' = progress
               /\ \A d \in Codes : state'[d] = "done" => state[d] = "done"
<1> USE DEF registry, session, bounds
<1>1. CASE Register(c)
  BY <1>1 DEF Register, TypeOK
<1>2. CASE Cancel(c)
  BY <1>2 DEF Cancel, TypeOK
<1>3. CASE Forwarder(c)
  BY <1>3 DEF Forwarder, Forward, ForwarderCancelled, ForwarderEnds
<1> QED BY <1>1, <1>2, <1>3 DEF Session

LEMMA StepKinds ==
  ASSUME [Next]_vars
  PROVE  UNCHANGED vars \/ (\E c \in Codes : Session(c)) \/ (\E p \in Peers : Peer(p))
BY DEF Next, Session, Peer

\* Nothing is sent on a channel but by its owner, and what is sent it vouches for.
LEMMA Reported ==
  ASSUME TypeOK, Known, NEW p \in Peers, Report(p) \/ ReportRead(p)
  PROVE  \/ progress' = progress /\ panicked' = panicked
         \/ \E c \in Codes, m \in Messages :
              /\ Owns(p, c) /\ Send(c, m)
              /\ m = "done" => \/ (fetch[p].step = "finishing" /\ fetch[p].code = c)
                              \/ (fetch[p].step = "completing" /\ fetch[p].found = c)
<1>0. KnownOf(p)
  BY DEF Known
<1>1. CASE ReportRead(p)
  BY <1>0, <1>1 DEF ReportRead, KnownOf, Owns, Messages
<1>2. CASE Report(p)
  <2>1. fetch[p].code \in Codes /\ Owns(p, fetch[p].code)
    BY <1>0, <1>2 DEF Report, KnownOf, Owns, TransferSteps
  <2> DEFINE m == CASE fetch[p].step = "reporting" -> "chunk"
                    [] fetch[p].step = "failing"   -> "error"
                    [] fetch[p].step = "finishing" -> "done"
  <2>2. m \in Messages /\ (m = "done" => fetch[p].step = "finishing")
    BY <1>2 DEF Report, Messages
  <2>3. (progress' = progress /\ panicked' = panicked) \/ Send(fetch[p].code, m)
    BY <1>2 DEF Report
  <2> HIDE DEF m
  <2> QED BY <2>1, <2>2, <2>3
<1> QED BY <1>1, <1>2

-----------------------------------------------------------------------------
(* Types *)

QueuesTyped ==
  progress \in [Codes -> Seq(Messages)] /\ \A c \in Codes : Len(progress[c]) <= Buffer

Receipts == {"share", "read"} \X (Codes \cup {None}) \X Files

LEMMA ReportTypes ==
  ASSUME TypeOK, Known, NEW p \in Peers, Report(p) \/ ReportRead(p)
  PROVE  QueuesTyped' /\ panicked' \in BOOLEAN
<1>1. CASE progress' = progress /\ panicked' = panicked
  BY <1>1 DEF QueuesTyped, TypeOK, Messages
<1>2. ASSUME NEW c \in Codes, NEW m \in Messages, Send(c, m)
      PROVE  QueuesTyped' /\ panicked' \in BOOLEAN
  BY <1>2, SendAdds DEF QueuesTyped
<1> QED BY <1>1, <1>2, Reported

\* Every step of a receiver and its handler keeps the types.
LEMMA PeerTypes ==
  ASSUME TypeOK, Known, NEW p \in Peers, Peer(p) PROVE TypeOK'
<1> USE DEF registry, session, bounds
<1>0. /\ fetch' \in [Peers -> Fetch] /\ KnownOf(p) /\ MaxFaults \in Nat
      /\ fetch[p] \in Fetch
  BY PeerMoves, ShareAssumption DEF Only, Known, TypeOK
<1>1. CASE \E c \in Codes : Match(p, c) \/ Resolve(p, c)
  BY <1>0, <1>1 DEF Match, Resolve, TypeOK
<1>2. CASE \E f \in Files : Browse(p, f)
  BY <1>0, <1>2 DEF Browse, TypeOK
<1>3. CASE Claim(p)
  BY <1>0, <1>3 DEF Claim, KnownOf, TransferSteps, TypeOK
<1>4. CASE ServeChunk(p)
  <2>1. fetch[p].code \in Codes /\ fetch[p].file \in Files
    BY <1>0, <1>4, ShareAssumption DEF ServeChunk, KnownOf, TransferSteps
  <2>2. <<"share", fetch[p].code, fetch[p].file>> \in Receipts
    BY <2>1 DEF Receipts
  <2>3. got' \in [Peers -> SUBSET Receipts]
    <3>1. got \in [Peers -> SUBSET Receipts]
      BY DEF TypeOK, Receipts
    <3>2. \/ got' = got
          \/ got' = [got EXCEPT ![p] = got[p] \cup {<<"share", fetch[p].code, fetch[p].file>>}]
      BY <1>4 DEF ServeChunk
    <3> QED BY <2>2, <3>1, <3>2
  <2> QED BY <1>0, <1>4, <2>3 DEF ServeChunk, TypeOK, Receipts
<1>5. CASE ServeFails(p) \/ Abandon(p)
  BY <1>0, <1>5 DEF ServeFails, Abandon, Fault, TypeOK
<1>6. CASE Report(p) \/ ReportRead(p)
  <2>1. QueuesTyped' /\ panicked' \in BOOLEAN
    BY <1>6, ReportTypes
  <2> QED BY <1>0, <1>6, <2>1 DEF Report, ReportRead, TypeOK, QueuesTyped, Messages
<1>7. CASE Withdraw(p) \/ StopAdvertising(p) \/ ReleaseRead(p) \/ UnlistRead(p)
  BY <1>0, <1>7 DEF Withdraw, StopAdvertising, ReleaseRead, UnlistRead, TypeOK
<1>8. CASE CloseProgress(p)
  BY <1>0, <1>8 DEF CloseProgress, Close, KnownOf, TransferSteps, TypeOK
<1>9. CASE SealRead(p)
  BY <1>0, <1>9 DEF SealRead, Close, KnownOf, TypeOK
<1>10. CASE NoteResolved(p)
  BY <1>0, <1>10 DEF NoteResolved, KnownOf, TypeOK
<1>11. CASE ReadRange(p)
  <2>1. fetch[p].code \in Codes \cup {None} /\ fetch[p].file \in Files
    BY <1>0, <1>11 DEF ReadRange, KnownOf, Fetch
  <2>2. <<"read", fetch[p].code, fetch[p].file>> \in Receipts
    BY <2>1 DEF Receipts
  <2>3. got' \in [Peers -> SUBSET Receipts]
    <3>1. got \in [Peers -> SUBSET Receipts]
      BY DEF TypeOK, Receipts
    <3>2. \/ got' = got
          \/ got' = [got EXCEPT ![p] = got[p] \cup {<<"read", fetch[p].code, fetch[p].file>>}]
      BY <1>11 DEF ReadRange
    <3> QED BY <2>2, <3>1, <3>2
  <2> QED BY <1>0, <1>11, <2>3 DEF ReadRange, TypeOK, Receipts
<1>12. CASE PickShare(p)
  BY <1>0, <1>12 DEF PickShare, TypeOK
<1>13. CASE ClaimRead(p)
  BY <1>0, <1>13 DEF ClaimRead, KnownOf, TypeOK
<1> QED BY <1>1, <1>2, <1>3, <1>4, <1>5, <1>6, <1>7, <1>8, <1>9, <1>10, <1>11, <1>12, <1>13
        DEF Peer, TransferHandler, ReadHandler

\* The next place in the order of registration is one of Cardinality(Codes).
LEMMA NextPlace ==
  ASSUME TypeOK, NEW c \in Codes, seq[c] = 0
  PROVE  1 + Cardinality({d \in Codes : seq[d] > 0}) \in 1..Cardinality(Codes)
<1> DEFINE S == {d \in Codes : seq[d] > 0}
<1>1. S \in SUBSET Codes /\ c \notin S /\ IsFiniteSet(Codes)
  BY ShareAssumption
<1>2. IsFiniteSet(S) /\ Cardinality(S) <= Cardinality(Codes) /\ Cardinality(S) # Cardinality(Codes)
  BY <1>1, FS_Subset
<1>3. Cardinality(S) \in Nat /\ Cardinality(Codes) \in Nat
  BY <1>1, <1>2, FS_CardinalityType
<1> QED BY <1>2, <1>3

\* So does every step of a session and its forwarder.
LEMMA SessionTypes ==
  ASSUME TypeOK, Ordered, NEW c \in Codes, Session(c) PROVE TypeOK'
<1> USE DEF registry, session, bounds
<1>1. CASE Register(c)
  <2>1. seq' \in [Codes -> 0..Cardinality(Codes)]
    <3>1. seq[c] = 0
      BY <1>1 DEF Register, Ordered
    <3>2. 1 + Cardinality({d \in Codes : seq[d] > 0}) \in 0..Cardinality(Codes)
      BY <3>1, NextPlace
    <3> QED BY <1>1, <3>2 DEF Register, TypeOK
  <2> QED BY <1>1, <2>1 DEF Register, TypeOK
<1>2. CASE Cancel(c)
  BY <1>2, ShareAssumption DEF Cancel, TypeOK
<1>3. CASE Forward(c)
  <2>1. QueuesTyped'
    BY <1>3, ForwardTakes DEF QueuesTyped
  <2>2. /\ state' \in [Codes -> {"none", "running", "done", "failed", "canceled"}]
        /\ alive' \subseteq Codes
    BY <1>3 DEF Forward, TypeOK
  <2> QED BY <1>3, <2>1, <2>2 DEF Forward, TypeOK, QueuesTyped, Messages
<1>4. CASE ForwarderCancelled(c) \/ ForwarderEnds(c)
  BY <1>4 DEF ForwarderCancelled, ForwarderEnds, TypeOK
<1> QED BY <1>1, <1>2, <1>3, <1>4 DEF Session, Forwarder

LEMMA TypesKept ==
  ASSUME TypeOK, Known, Ordered, [Next]_vars PROVE TypeOK' /\ Ordered'
<1>1. TypeOK'
  <2>1. CASE UNCHANGED vars
    BY <2>1 DEF vars, registry, session, bounds, TypeOK
  <2> QED BY <2>1, StepKinds, PeerTypes, SessionTypes
<1>2. Ordered'
  <2>1. CASE UNCHANGED <<state, seq>>
    BY <2>1 DEF Ordered
  <2>2. ASSUME NEW c \in Codes, Session(c) PROVE Ordered'
    <3>1. CASE Register(c)
      BY <3>1 DEF Register, Ordered, TypeOK
    <3>2. CASE Cancel(c) \/ Forward(c)
      BY <3>2 DEF Cancel, Forward, Ordered, TypeOK, registry
    <3>3. CASE ForwarderCancelled(c) \/ ForwarderEnds(c)
      BY <3>3 DEF ForwarderCancelled, ForwarderEnds, Ordered, registry
    <3> QED BY <2>2, <3>1, <3>2, <3>3 DEF Session, Forwarder
  <2> QED BY <2>1, <2>2, StepKinds, PeerFrame DEF vars, registry, session
<1> QED BY <1>1, <1>2

-----------------------------------------------------------------------------
(* The parts of the invariant, step by step *)

\* What has happened stays so.
LEMMA Histories ==
  ASSUME TypeOK, Known, [Next]_vars
  PROVE  /\ handled \subseteq handled'
         /\ \A p \in Peers : got[p] \subseteq got'[p]
         /\ \A c \in Codes : readPeers[c] \subseteq readPeers'[c]
<1>1. ASSUME NEW p \in Peers, Peer(p)
      PROVE  /\ handled \subseteq handled'
             /\ \A q \in Peers : got[q] \subseteq got'[q]
             /\ \A c \in Codes : readPeers[c] \subseteq readPeers'[c]
  <2>1. handled \subseteq handled'
    BY <1>1, PeerFrame DEF Claim, ClaimRead
  <2>2. \A q \in Peers : got[q] \subseteq got'[q]
    <3>1. CASE ServeChunk(p)
      BY <3>1 DEF ServeChunk, TypeOK
    <3>2. CASE ReadRange(p)
      BY <3>2 DEF ReadRange, TypeOK
    <3> QED BY <1>1, <3>1, <3>2, PeerFrame
  <2>3. \A c \in Codes : readPeers[c] \subseteq readPeers'[c]
    <3>1. CASE NoteResolved(p)
      <4>1. \/ readPeers' = readPeers
            \/ readPeers' = [readPeers EXCEPT ![fetch[p].code] = readPeers[fetch[p].code] \cup {p}]
        BY <3>1 DEF NoteResolved
      <4>2. readPeers \in [Codes -> SUBSET Paired]
        BY DEF TypeOK
      <4> QED BY <4>1, <4>2
    <3> QED BY <1>1, <3>1, PeerFrame
  <2> QED BY <2>1, <2>2, <2>3
<1>2. CASE UNCHANGED <<handled, got, readPeers>>
  BY <1>2
<1> QED BY <1>1, <1>2, StepKinds, SessionFrame DEF vars, registry

LEMMA EvidenceStays ==
  ASSUME TypeOK, Known, [Next]_vars, NEW c \in Codes, Evidence(c) PROVE Evidence(c)'
<1>1. readPeers[c] \subseteq Peers
  BY ShareAssumption DEF TypeOK
<1> QED BY <1>1, Histories DEF Evidence, Fetched, FetchedBy

\* A handler knows at its next step what that step takes for granted.
LEMMA KnownKept ==
  ASSUME TypeOK, Known, [Next]_vars PROVE Known'
<1>1. ASSUME NEW q \in Peers, fetch'[q] = fetch[q] PROVE KnownOf(q)'
  <2>1. KnownOf(q)
    BY DEF Known
  <2>2. fetch[q].step \in {"picked", "completing"} => fetch[q].found \in Codes
    BY <2>1 DEF KnownOf
  <2> QED BY <1>1, <2>1, <2>2, Histories DEF KnownOf
<1>2. ASSUME NEW p \in Peers, Peer(p) PROVE KnownOf(p)'
  <2>0. /\ KnownOf(p) /\ Moves(p) /\ got[p] \subseteq got'[p] /\ Chunks \in Nat \ {0}
        /\ \A c \in Codes : readPeers[c] \subseteq readPeers'[c] /\ FileOf[c] \in Files
        /\ fetch[p] \in Fetch /\ got \in [Peers -> SUBSET Receipts]
    BY <1>2, PeerMoves, Histories, ShareAssumption DEF Known, TypeOK, Receipts
  <2> USE DEF KnownOf, TransferSteps
  <2>1. CASE \E c \in Codes : /\ Match(p, c) /\ fetch'[p].step = "matched"
                              /\ fetch'[p].code = c /\ fetch'[p].file = FileOf[c]
    BY <2>1
  <2>2. CASE \E c \in Codes : /\ Resolve(p, c) /\ fetch'[p].step = "resolving" /\ fetch'[p].sent = 0
                              /\ fetch'[p].code = c /\ fetch'[p].file = FileOf[c]
    BY <2>0, <2>2 DEF Resolve
  <2>3. CASE \E f \in Files : fetch'[p].step = "reading" /\ fetch'[p].file = f /\ fetch'[p].sent = 0
    BY <2>0, <2>3
  <2>4. CASE fetch'[p].step = "idle"
    BY <2>4
  <2>5. CASE ServeChunk(p) /\ fetch[p].step = "serving" /\ Same(p) /\ fetch'[p].step = "reporting"
    BY <2>0, <2>5 DEF Same
  <2>6. CASE /\ fetch[p].step = "serving" /\ Same(p) /\ fetch'[p].step = "finishing"
             /\ got' = [got EXCEPT ![p] = got[p] \cup {<<"share", fetch[p].code, fetch[p].file>>}]
    BY <2>0, <2>6 DEF Same
  <2>7. CASE /\ fetch[p].step \in TransferSteps /\ Same(p)
             /\ fetch'[p].step \in {"serving", "failing", "withdrawing", "closing", "stopping"}
    BY <2>0, <2>7 DEF Same
  <2>8. CASE /\ fetch[p].step = "resolving" /\ fetch'[p].step = "reading" /\ Same(p)
             /\ fetch'[p].sent = fetch[p].sent
    BY <2>0, <2>8 DEF Same
  <2>9. CASE /\ fetch[p].step = "reading" /\ Same(p) /\ fetch'[p].step = "reading"
             /\ fetch[p].sent + 1 # Chunks /\ fetch'[p].sent = fetch[p].sent + 1
    BY <2>0, <2>9 DEF Same, Fetch
  <2>10. CASE /\ fetch[p].step = "reading" /\ Same(p) /\ fetch'[p].step = "copied"
              /\ got' = [got EXCEPT ![p] = got[p] \cup {<<"read", fetch[p].code, fetch[p].file>>}]
    <3>1. <<"read", fetch[p].code, fetch[p].file>> \in got'[p]
      BY <2>0, <2>10
    <3>2. \E x \in got'[p] : x[3] = fetch'[p].file
      BY <2>10, <3>1 DEF Same
    <3> QED BY <2>10, <3>2
  <2>11. CASE /\ fetch[p].step = "copied" /\ fetch'[p].step = "picked"
              /\ fetch'[p].found \in Candidates(p) /\ fetch'[p].file = fetch[p].file
    BY <2>0, <2>11 DEF Candidates, TypeOK
  <2>12. CASE fetch[p].step = "picked" /\ Same(p) /\ fetch'[p].step = "completing"
    BY <2>0, <2>12 DEF Same
  <2>13. CASE /\ fetch[p].step \in {"completing", "sealing", "releasing"} /\ Same(p)
              /\ fetch'[p].step \in {"sealing", "releasing", "unlisting"}
    BY <2>0, <2>13 DEF Same
  <2> HIDE DEF KnownOf, TransferSteps
  <2> QED BY <2>0, <2>1, <2>2, <2>3, <2>4, <2>5, <2>6, <2>7, <2>8, <2>9, <2>10, <2>11,
             <2>12, <2>13 DEF Moves, TransferSteps
<1>3. ASSUME NEW p \in Peers, Peer(p), NEW q \in Peers, q # p PROVE KnownOf(q)'
  BY <1>1, <1>3, PeerMoves DEF Only
<1> QED BY <1>1, <1>2, <1>3, StepKinds, SessionFrame DEF vars, Known

\* The flag of a code is set by whoever becomes its owner, and an owner leaves by
\* closing the channel.
LEMMA OwnershipKept ==
  ASSUME TypeOK, Known, Ownership, ~panicked, [Next]_vars
  PROVE  Ownership' /\ ~panicked'
<1>1. ASSUME NEW p \in Peers, Peer(p) PROVE Ownership' /\ ~panicked'
  <2>0. /\ Only(p) /\ Moves(p) /\ KnownOf(p)
        /\ \A q \in Peers, c \in Codes : q # p => Owns(q, c)' = Owns(q, c)
    BY <1>1, PeerMoves DEF Known, Only, Owns
  <2>1. CASE Claim(p) \/ ClaimRead(p)
    <3> DEFINE d == IF Claim(p) THEN fetch[p].code ELSE fetch[p].found
    <3>1. /\ d \in Codes /\ handled' = handled \cup {d} /\ closed' = closed /\ panicked' = panicked
          /\ \A c \in Codes : Owns(p, c)' => c = d /\ d \notin handled
      BY <2>0, <2>1 DEF Claim, ClaimRead, session, KnownOf, TransferSteps, Moves, Owns, Same
    <3> HIDE DEF d
    <3> QED BY <2>0, <3>1 DEF Ownership
  <2>2. CASE CloseProgress(p) \/ SealRead(p)
    <3> DEFINE d == IF CloseProgress(p) THEN fetch[p].code ELSE fetch[p].found
    <3>1. /\ d \in Codes /\ closed' = closed \cup {d} /\ panicked' = (panicked \/ d \in closed)
          /\ handled' = handled /\ Owns(p, d)
      BY <2>0, <2>2 DEF CloseProgress, SealRead, Close, registry, KnownOf, TransferSteps, Owns
    <3>2. \A c \in Codes : ~Owns(p, c)'
      BY <2>2, Goes DEF CloseProgress, SealRead, Owns, Steps, TransferSteps, ReadSteps
    <3> HIDE DEF d
    <3> QED BY <2>0, <3>1, <3>2 DEF Ownership
  <2>3. CASE ~(Claim(p) \/ ClaimRead(p) \/ CloseProgress(p) \/ SealRead(p))
    <3>1. handled' = handled /\ closed' = closed
      BY <1>1, <2>3, PeerFrame
    <3>2. \A c \in Codes : Owns(p, c)' => Owns(p, c)
      BY <2>0, <2>3 DEF Moves, Owns, Same
    <3>3. ~panicked'
      BY <1>1, <2>3, PeerFrame, Reported, SendAdds DEF Ownership
    <3> QED BY <2>0, <3>1, <3>2, <3>3 DEF Ownership
  <2> QED BY <2>1, <2>2, <2>3
<1>2. CASE UNCHANGED <<fetch, handled, closed, panicked>>
  BY <1>2 DEF Ownership, Owns
<1> QED BY <1>1, <1>2, StepKinds, SessionFrame DEF vars, registry, session

\* What is queued, and what a session says, has its evidence.
LEMMA HonestKept ==
  ASSUME TypeOK, Known, Honest, [Next]_vars PROVE Honest'
<1> SUFFICES ASSUME NEW c \in Codes, ~Evidence(c)'
             PROVE  ~In("done", progress'[c]) /\ state'[c] # "done"
  BY DEF Honest
<1>1. ~Evidence(c) /\ ~In("done", progress[c]) /\ state[c] # "done"
  BY EvidenceStays DEF Honest
<1>2. ASSUME NEW p \in Peers, Report(p) \/ ReportRead(p) PROVE ~In("done", progress'[c])
  <2>0. KnownOf(p)
    BY DEF Known
  <2>1. fetch[p].step = "finishing" => fetch[p].code # c
    BY <1>1, <2>0 DEF KnownOf, TransferSteps, Evidence, Fetched, FetchedBy
  <2>2. fetch[p].step = "completing" => fetch[p].found # c
    BY <1>1, <2>0 DEF KnownOf, Evidence
  <2>3. ASSUME NEW d \in Codes, NEW m \in Messages, Send(d, m), d = c => m # "done"
        PROVE  ~In("done", progress'[c])
    <3>1. In("done", progress'[c]) => In("done", progress[c]) \/ (c = d /\ m = "done")
      BY <2>3, SendAdds DEF Messages
    <3> QED BY <1>1, <2>3, <3>1
  <2>4. CASE progress' = progress
    BY <1>1, <2>4
  <2>5. progress' = progress \/ \E d \in Codes, m \in Messages : Send(d, m) /\ (d = c => m # "done")
    BY <1>2, <2>1, <2>2, Reported
  <2> QED BY <2>3, <2>4, <2>5
<1>3. ASSUME NEW d \in Codes, Forward(d) PROVE ~In("done", progress'[c]) /\ state'[c] # "done"
  <2>1. In("done", progress'[c]) => In("done", progress[c])
    BY <1>3, ForwardTakes DEF Messages
  <2>2. In(Head(progress[d]), progress[d])
    BY <1>3, ForwardTakes
  <2>3. state'[c] # "done"
    <3>1. CASE d = c
      <4>1. Head(progress[c]) # "done"
        BY <1>1, <2>2, <3>1
      <4> QED BY <1>1, <1>3, <3>1, <4>1 DEF Forward, TypeOK
    <3>2. CASE d # c
      BY <1>1, <1>3, <3>2 DEF Forward, TypeOK
    <3> QED BY <3>1, <3>2
  <2> QED BY <1>1, <2>1, <2>3
<1>4. CASE progress' = progress /\ (state'[c] = "done" => state[c] = "done")
  BY <1>1, <1>4
<1>5. ASSUME NEW p \in Peers, Peer(p)
      PROVE  state' = state /\ (progress' = progress \/ Report(p) \/ ReportRead(p))
  BY <1>5, PeerFrame
<1> QED BY <1>1, <1>2, <1>3, <1>4, <1>5, StepKinds, SessionFrame DEF vars, session

\* A code that went out whole by the transfer protocol is not served again.
LEMMA ServedOnceKept ==
  ASSUME TypeOK, Known, Ownership, ServedOnce, [Next]_vars PROVE ServedOnce'
<1> SUFFICES ASSUME NEW c \in Codes PROVE ServedOnceOf(c)'
  BY DEF ServedOnce
<1>0. ServedOnceOf(c) /\ (c \in handled => c \in handled')
  BY Histories DEF ServedOnce
<1>1. ASSUME NEW p \in Peers, Peer(p) PROVE ServedOnceOf(c)'
  <2>0. Only(p) /\ Moves(p) /\ KnownOf(p) /\ got \in [Peers -> SUBSET Receipts]
    BY <1>1, PeerMoves DEF Known, TypeOK, Receipts
  <2> DEFINE receipt == <<"share", fetch[p].code, fetch[p].file>>
  <2>1. CASE /\ fetch[p].step = "serving" /\ fetch'[p].step = "finishing" /\ fetch[p].code = c
             /\ got' = [got EXCEPT ![p] = got[p] \cup {receipt}]
    <3>1. c \in handled /\ FetchedBy("share", c) = {} /\ Owns(p, c) /\ fetch[p].file = FileOf[c]
      BY <2>0, <2>1 DEF KnownOf, TransferSteps, Ownership, Owns, ServedOnce, ServedOnceOf
    <3>2. \A q \in Peers : <<"share", c, FileOf[c]>> \notin got[q]
      BY <3>1 DEF FetchedBy
    <3>3. FetchedBy("share", c)' \subseteq {p}
      BY <2>0, <2>1, <3>2 DEF FetchedBy
    <3>4. \A q \in Peers : ~(fetch'[q].step \in {"serving", "reporting"} /\ fetch'[q].code = c)
      BY <2>0, <2>1, <3>1 DEF Only, Ownership, Owns
    <3> QED BY <1>0, <3>1, <3>3, <3>4 DEF ServedOnceOf
  <2>2. CASE /\ fetch[p].step = "serving" /\ fetch'[p].step = "finishing" /\ fetch[p].code # c
             /\ got' = [got EXCEPT ![p] = got[p] \cup {receipt}]
    <3>1. FetchedBy("share", c)' = FetchedBy("share", c)
      BY <2>0, <2>2 DEF FetchedBy
    <3>2. fetch'[p].step \notin {"serving", "reporting"}
      BY <2>2
    <3> QED BY <1>0, <2>0, <3>1, <3>2 DEF ServedOnceOf, Only
  <2>3. CASE ~(fetch[p].step = "serving" /\ fetch'[p].step = "finishing")
    <3>1. FetchedBy("share", c)' = FetchedBy("share", c)
      <4>1. \/ got' = got
            \/ got' = [got EXCEPT ![p] = got[p] \cup {<<"read", fetch[p].code, fetch[p].file>>}]
        <5>1. CASE ServeChunk(p)
          BY <2>0, <2>3, <5>1, Goes DEF ServeChunk, Steps, TransferSteps, TypeOK
        <5>2. CASE ReadRange(p)
          BY <5>2 DEF ReadRange
        <5> QED BY <1>1, <5>1, <5>2, PeerFrame
      <4> QED BY <2>0, <4>1 DEF FetchedBy
    <3>2. fetch'[p].step \in {"serving", "reporting"} /\ fetch'[p].code = c =>
            \/ c \notin handled
            \/ fetch[p].step \in {"serving", "reporting"} /\ fetch[p].code = c
      BY <2>0 DEF Moves, Same
    <3>3. CASE c \notin handled
      BY <1>0, <3>1, <3>3 DEF ServedOnceOf
    <3>4. CASE c \in handled
      BY <1>0, <2>0, <3>1, <3>2, <3>4 DEF ServedOnceOf, Only
    <3> QED BY <3>3, <3>4
  <2>4. fetch[p].step = "serving" /\ fetch'[p].step = "finishing" =>
          got' = [got EXCEPT ![p] = got[p] \cup {receipt}]
    BY <2>0 DEF Moves
  <2> HIDE DEF receipt
  <2> QED BY <2>1, <2>2, <2>3, <2>4
<1>2. CASE UNCHANGED <<fetch, handled, got>>
  BY <1>0, <1>2 DEF ServedOnceOf, FetchedBy
<1> QED BY <1>1, <1>2, StepKinds, SessionFrame DEF vars, registry

-----------------------------------------------------------------------------
(* The theorems *)

LEMMA Initially == Init => ShareInv
<1> SUFFICES ASSUME Init PROVE ShareInv
  OBVIOUS
<1>1. TypeOK
  <2>1. QueuesTyped
    BY ShareAssumption DEF Init, QueuesTyped
  <2>2. fetch \in [Peers -> Fetch]
    <3>1. Idle \in Fetch
      BY ShareAssumption DEF Idle, Fetch
    <3> QED BY <3>1 DEF Init
  <2>3. Cardinality(Codes) \in Nat
    BY ShareAssumption, FS_CardinalityType
  <2>4. /\ seq \in [Codes -> 0..Cardinality(Codes)]
        /\ cancels \in 0..MaxCancels /\ faults \in 0..MaxFaults
    BY <2>3, ShareAssumption DEF Init
  <2> QED BY <2>1, <2>2, <2>4 DEF Init, TypeOK, QueuesTyped, Messages
<1>2. \A p \in Peers : fetch[p].step = "idle"
  BY DEF Init, Idle
<1>3. Known /\ Ownership /\ ~panicked /\ Ordered
  BY <1>2 DEF Init, Known, KnownOf, TransferSteps, Ownership, Owns, Ordered
<1>4. Honest
  BY DEF Init, Honest, In
<1>5. ServedOnce
  BY <1>2 DEF Init, ServedOnce, ServedOnceOf, FetchedBy
<1> QED BY <1>1, <1>3, <1>4, <1>5 DEF ShareInv

LEMMA Inductive == ShareInv /\ [Next]_vars => ShareInv'
<1> SUFFICES ASSUME ShareInv, [Next]_vars PROVE ShareInv'
  OBVIOUS
<1> USE DEF ShareInv
<1>1. TypeOK' /\ Ordered'
  BY TypesKept
<1>2. Known'
  BY KnownKept
<1>3. Ownership' /\ ~panicked'
  BY OwnershipKept
<1>4. Honest' /\ ServedOnce'
  BY HonestKept, ServedOnceKept
<1> QED BY <1>1, <1>2, <1>3, <1>4

\* The inductive invariant, from which the two theorems below follow.
THEOREM ShareInvariant == Spec => []ShareInv
<1> QED BY Initially, Inductive, PTL DEF Spec

\* The two routes never both own a share's progress channel: serveShare and
\* completeShareRead neither send on it nor close it once it is closed.
THEOREM SharesNeverPanic == Spec => []NeverPanics
<1>1. ShareInv => NeverPanics
  BY DEF ShareInv, NeverPanics
<1> QED BY <1>1, ShareInvariant, PTL

\* A session says done only of a file that went out whole to somebody who presented
\* the code, and the transfer protocol serves a code to at most one receiver.
THEOREM DoneIsEarned == Spec => []DoneIsTrue
<1>1. ShareInv => DoneIsTrue
  <2> SUFFICES ASSUME ShareInv, NEW c \in Codes
               PROVE  (state[c] = "done" => Evidence(c)) /\ Cardinality(FetchedBy("share", c)) <= 1
    BY DEF DoneIsTrue, Evidence
  <2>1. state[c] = "done" => Evidence(c)
    BY DEF ShareInv, Honest
  <2>2. \/ FetchedBy("share", c) = {}
        \/ \E p \in Peers : FetchedBy("share", c) = {p}
    BY DEF ShareInv, ServedOnce, ServedOnceOf, FetchedBy
  <2>3. Cardinality(FetchedBy("share", c)) \in {0, 1}
    BY <2>2, FS_EmptySet, FS_Singleton
  <2> QED BY <2>1, <2>3
<1> QED BY <1>1, ShareInvariant, PTL

=============================================================================
