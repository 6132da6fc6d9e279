--------------------------- MODULE ReceiveProofs ----------------------------
(***************************************************************************)
(* What TLC checks of two fetches of one code, for any number of fetches,  *)
(* codes, chunks and failures and any capacity of the progress channel.    *)
(*                                                                         *)
(* One fact carries the first two: the progress channel of a fetch has one *)
(* owner, the caller until it hands the channel over and the goroutine of  *)
(* RegisterReceive from then on, and who pulls is never behind its owner.  *)
(* The third follows messages from where they are sent to where a session  *)
(* ends on them.                                                           *)
(***************************************************************************)
EXTENDS Frames, Receive, SequenceTheorems, TLAPS

\* The goroutine that pulls is at work.
Pulling(f) == pull[f].step \notin {"idle", "over"}

Messages == {"progress", "done", "error"}
In(m, q) == \E i \in 1..Len(q) : q[i] = m
Queued(f, m) == In(m, progress[f])

\* Who owns the channel: nothing pulls before the caller waits or hands over, on
\* the read path the caller waits while it is pulled, and the channel is closed
\* by the owner's last step.
OneOwnerOf(f) ==
  /\ call[f] \in {"idle", "discover", "resolve", "decide"} =>
       pull[f].step = "idle" /\ f \notin closed
  /\ call[f] = "wait" => pull[f].step # "idle" /\ pull[f].route = "read" /\ f \notin closed
  /\ call[f] = "refused" => ~Pulling(f)
  /\ Pulling(f) =>
       /\ f \notin closed
       /\ call[f] = IF pull[f].route = "read" THEN "wait" ELSE "returned"
  /\ pull[f].step \in {"telling", "closing"} => pull[f].route = "share"

OneOwner == \A f \in Fetches : OneOwnerOf(f)

\* A pull succeeds when it reports so, and not before; one that saved its file
\* has reported so, or is about to, or could not clear up.
SucceedingOf(f) ==
  /\ pull[f].step \in {"idle", "asked", "running", "landed", "telling"} => ~pull[f].ok
  /\ pull[f].step = "landed" => f \in saved
  /\ pull[f].step \in {"idle", "asked", "running"} => f \notin saved
  /\ f \in saved /\ ~pull[f].ok => pull[f].step = "landed" \/ f \in uncleared

Succeeding == \A f \in Fetches : SucceedingOf(f)

\* A caller that is refused has no pull that reported a success.
RefusedFailed == \A f \in Fetches : call[f] = "refused" => ~pull[f].ok

\* A pull that failed on the transfer protocol, and has said so.
ToldError(f) ==
  /\ pull[f].route = "share" /\ ~pull[f].ok
  /\ pull[f].step \in {"closing", "over"} /\ call[f] = "returned"

\* A message is queued only for what has happened.
Honest == \A f \in Fetches :
  /\ Queued(f, "done") => f \in saved
  /\ Queued(f, "error") => ToldError(f)

Same(f) == {g \in Fetches : CodeOf[g] = CodeOf[f]}

\* A session ends with what a fetch of its code came to.
Outcomes == \A f \in Fetches :
  /\ sess[f] = "done" => Same(f) \cap saved # {}
  /\ sess[f] = "failed" => \E g \in Same(f) : ToldError(g)

\* The inductive invariant.
ReceiveInv ==
  TypeOK /\ OneOwner /\ ~panicked /\ RefusedFailed /\ Succeeding /\ Honest /\ Outcomes

-----------------------------------------------------------------------------
(* The queue *)

LEMMA QueueAppend ==
  ASSUME NEW q \in Seq(Messages), NEW m \in Messages
  PROVE  /\ Append(q, m) \in Seq(Messages) /\ Len(Append(q, m)) = Len(q) + 1
         /\ \A x : In(x, Append(q, m)) => In(x, q) \/ x = m
  BY DEF In

LEMMA QueueTail ==
  ASSUME NEW q \in Seq(Messages), q # <<>>
  PROVE  /\ Tail(q) \in Seq(Messages) /\ Len(Tail(q)) = Len(q) - 1
         /\ Head(q) \in Messages /\ In(Head(q), q)
         /\ \A x : In(x, Tail(q)) => In(x, q)
<1>1. Len(q) \in Nat /\ Len(q) > 0
  BY EmptySeq
<1>2. Head(q) = q[1] /\ \A i \in 1..Len(Tail(q)) : Tail(q)[i] = q[i + 1]
  BY <1>1
<1> QED BY <1>1, <1>2 DEF In

\* A report adds its message, or is given up; on an open channel it never panics.
LEMMA ReportAdds ==
  ASSUME ReceiveConstants, TypeOK, NEW f \in Fetches, NEW m \in Messages, Report(f, m)
  PROVE  /\ closed' = closed /\ panicked' \in BOOLEAN /\ (f \notin closed => panicked' = panicked)
         /\ progress' \in [Fetches -> Seq(Messages)]
         /\ \A g \in Fetches : Len(progress'[g]) <= Buffer
         /\ \A g \in Fetches, x \in Messages : Queued(g, x)' => Queued(g, x) \/ (g = f /\ x = m)
<1>0. progress \in [Fetches -> Seq(Messages)]
  BY DEF TypeOK, Messages
<1>1. CASE UNCHANGED progress /\ ((f \in closed /\ panicked' = TRUE) \/ UNCHANGED panicked)
  BY <1>0, <1>1 DEF Report, TypeOK, Queued
<1>2. CASE /\ Len(progress[f]) < Buffer
           /\ progress' = [progress EXCEPT ![f] = Append(progress[f], m)]
           /\ UNCHANGED panicked
  <2>1. /\ Append(progress[f], m) \in Seq(Messages)
        /\ Len(Append(progress[f], m)) = Len(progress[f]) + 1
        /\ \A x : In(x, Append(progress[f], m)) => In(x, progress[f]) \/ x = m
    BY <1>0, QueueAppend
  <2>2. \A g \in Fetches : progress'[g] = IF g = f THEN Append(progress[f], m) ELSE progress[g]
    BY <1>0, <1>2
  <2>3. progress' \in [Fetches -> Seq(Messages)]
    BY <1>0, <1>2, <2>1
  <2>4. \A g \in Fetches : Len(progress'[g]) <= Buffer
    <3>1. Len(progress[f]) + 1 <= Buffer
      BY <1>0, <1>2, ReceiveConstants DEF ReceiveConstants
    <3>2. \A g \in Fetches : Len(progress[g]) <= Buffer
      BY DEF TypeOK
    <3> QED BY <2>1, <2>2, <3>1, <3>2
  <2>5. \A g \in Fetches, x \in Messages : Queued(g, x)' => Queued(g, x) \/ (g = f /\ x = m)
    BY <2>1, <2>2 DEF Queued
  <2> QED BY <1>2, <2>3, <2>4, <2>5 DEF Report, TypeOK
<1> QED BY <1>1, <1>2 DEF Report

\* The forwarder takes the oldest message.
LEMMA ForwardTakes ==
  ASSUME ReceiveConstants, TypeOK, NEW f \in Fetches, Forward(f)
  PROVE  /\ progress' \in [Fetches -> Seq(Messages)]
         /\ \A g \in Fetches : Len(progress'[g]) <= Buffer
         /\ \A g \in Fetches, x \in Messages : Queued(g, x)' => Queued(g, x)
         /\ Queued(f, Head(progress[f])) /\ Head(progress[f]) \in Messages
<1>0. progress \in [Fetches -> Seq(Messages)]
  BY DEF TypeOK, Messages
<1>1. progress[f] # <<>> /\ progress' = [progress EXCEPT ![f] = Tail(progress[f])]
  BY DEF Forward
<1>2. /\ Tail(progress[f]) \in Seq(Messages) /\ Len(Tail(progress[f])) = Len(progress[f]) - 1
      /\ Head(progress[f]) \in Messages /\ Queued(f, Head(progress[f]))
      /\ \A x : In(x, Tail(progress[f])) => In(x, progress[f])
  BY <1>0, <1>1, QueueTail DEF Queued
<1>3. \A g \in Fetches : progress'[g] = IF g = f THEN Tail(progress[f]) ELSE progress[g]
  BY <1>0, <1>1
<1>4. progress' \in [Fetches -> Seq(Messages)]
  BY <1>0, <1>1, <1>2
<1>5. \A g \in Fetches : Len(progress'[g]) <= Buffer
  <2>1. \A g \in Fetches : Len(progress[g]) <= Buffer
    BY DEF TypeOK
  <2>2. Len(progress[f]) - 1 <= Buffer
    BY <1>0, <2>1, ReceiveConstants DEF ReceiveConstants
  <2> QED BY <1>2, <1>3, <2>1, <2>2
<1>6. \A g \in Fetches, x \in Messages : Queued(g, x)' => Queued(g, x)
  BY <1>2, <1>3 DEF Queued
<1> QED BY <1>2, <1>4, <1>5, <1>6

-----------------------------------------------------------------------------
(* Types *)

QueuesTyped ==
  progress \in [Fetches -> Seq(Messages)] /\ \A f \in Fetches : Len(progress[f]) <= Buffer

\* A report keeps the types of the channel and leaves everything else alone.
LEMMA ReportTypes ==
  ASSUME ReceiveConstants, TypeOK, NEW f \in Fetches, NEW m \in Messages, Report(f, m)
  PROVE  QueuesTyped' /\ closed' = closed /\ panicked' \in BOOLEAN
BY ReportAdds DEF QueuesTyped

\* A step of the goroutine that pulls to another place in its code.
LEMMA PullGoes ==
  ASSUME pull \in [Fetches -> Pull], NEW f \in Fetches, NEW step \in PullSteps, PullGoto(f, step)
  PROVE  /\ pull' \in [Fetches -> Pull]
         /\ \A g \in Fetches : g # f => pull'[g] = pull[g]
         /\ pull'[f].step = step /\ pull'[f].route = pull[f].route /\ pull'[f].ok = pull[f].ok
<1>1. pull' = [pull EXCEPT ![f] = [pull[f] EXCEPT !.step = step]]
  BY DEF PullGoto
<1>2. pull[f] \in Pull /\ [pull[f] EXCEPT !.step = step] \in Pull
  BY DEF Pull
<1> QED BY <1>1, <1>2 DEF Pull

\* What a step of the caller's goroutine does to the pull.
LEMMA CallerPulls ==
  ASSUME ReceiveConstants, TypeOK, NEW f \in Fetches, Start(f) \/ Caller(f)
  PROVE  /\ pull' \in [Fetches -> Pull]
         /\ \A g \in Fetches : g # f => pull'[g] = pull[g]
         /\ \/ pull' = pull /\ ~HandOver(f) /\ ~(Resolve(f) /\ call'[f] = "wait")
            \/ /\ pull'[f].step = "asked" /\ pull'[f].ok = pull[f].ok
               /\ Resolve(f) /\ call'[f] = "wait" /\ pull'[f].route = "read"
            \/ /\ pull'[f].step = "asked" /\ ~pull'[f].ok
               /\ HandOver(f) /\ pull'[f].route = "share"
<1>0. pull \in [Fetches -> Pull] /\ pull[f] \in Pull /\ 0 \in 0..Chunks
  BY ReceiveConstants DEF ReceiveConstants, TypeOK
<1>1. CASE Resolve(f) /\ ~(Goto(f, "decide") /\ UNCHANGED pull)
  <2> DEFINE p == [[pull[f] EXCEPT !.step = "asked"] EXCEPT !.route = "read"]
  <2>1. p \in Pull /\ p.step = "asked" /\ p.ok = pull[f].ok /\ p.route = "read"
    BY <1>0 DEF Pull, PullSteps, Routes
  <2>2. pull' = [pull EXCEPT ![f] = p] /\ call'[f] = "wait"
    BY <1>0, <1>1 DEF Resolve, Goto, TypeOK
  <2> HIDE DEF p
  <2> QED BY <1>0, <1>1, <2>1, <2>2
<1>2. CASE HandOver(f)
  <2> DEFINE p == [step |-> "asked", route |-> "share", sent |-> 0, ok |-> FALSE]
  <2>1. p \in Pull /\ p.step = "asked" /\ ~p.ok /\ p.route = "share"
    BY <1>0 DEF Pull, PullSteps, Routes
  <2>2. pull' = [pull EXCEPT ![f] = p]
    BY <1>2 DEF HandOver
  <2> HIDE DEF p
  <2> QED BY <1>0, <1>2, <2>1, <2>2
<1>3. CASE Resolve(f) /\ Goto(f, "decide") /\ UNCHANGED pull
  BY <1>0, <1>3 DEF Resolve, HandOver, Goto, TypeOK
<1>4. CASE Start(f) \/ Found(f) \/ NotFound(f) \/ Await(f) \/ GiveUp(f)
  BY <1>0, <1>4 DEF Start, Found, NotFound, Await, GiveUp, Resolve, HandOver
<1> QED BY <1>1, <1>2, <1>3, <1>4 DEF Caller

\* Every step of the caller's goroutine keeps the types.
LEMMA CallerTypes ==
  ASSUME ReceiveConstants, TypeOK, NEW f \in Fetches, Start(f) \/ Caller(f) PROVE TypeOK'
<1> USE DEF TypeOK, Goto, Finish, Close, Return, session, channel, disk, world, Ended
<1>0. pull' \in [Fetches -> Pull]
  BY CallerPulls
<1>1. CASE Start(f)
  BY <1>0, <1>1 DEF Start
<1>2. CASE Found(f)
  BY <1>0, <1>2 DEF Found
<1>3. CASE NotFound(f)
  BY <1>0, <1>3 DEF NotFound
<1>4. CASE Resolve(f)
  BY <1>0, <1>4 DEF Resolve
<1>5. CASE Await(f)
  BY <1>0, <1>5 DEF Await
<1>6. CASE GiveUp(f)
  BY <1>0, <1>6 DEF GiveUp
<1>7. CASE HandOver(f)
  BY <1>0, <1>7 DEF HandOver
<1> QED BY <1>1, <1>2, <1>3, <1>4, <1>5, <1>6, <1>7 DEF Caller

\* What a step of the goroutine that pulls does to the pull.
LEMMA PullerPulls ==
  ASSUME ReceiveConstants, TypeOK, NEW f \in Fetches, Puller(f)
  PROVE  /\ pull' \in [Fetches -> Pull]
         /\ \A g \in Fetches : g # f => pull'[g] = pull[g]
         /\ pull'[f].route = pull[f].route
         /\ (pull'[f].ok => pull[f].ok \/ ReportDone(f))
<1>0. pull \in [Fetches -> Pull] /\ pull[f] \in Pull /\ 0 \in 0..Chunks /\ Chunks \in Nat
  BY ReceiveConstants DEF ReceiveConstants, TypeOK
<1>1. ASSUME NEW step \in PullSteps, PullGoto(f, step)
      PROVE  /\ pull' \in [Fetches -> Pull]
             /\ \A g \in Fetches : g # f => pull'[g] = pull[g]
             /\ pull'[f].route = pull[f].route
             /\ (pull'[f].ok => pull[f].ok \/ ReportDone(f))
  BY <1>0, <1>1, PullGoes
<1>2. CASE Chunk(f) /\ ~Dropped(f)
  <2>1. [pull[f] EXCEPT !.sent = pull[f].sent + 1] \in Pull
    BY <1>0, <1>2 DEF Chunk, Pull
  <2>2. pull' = [pull EXCEPT ![f] = [pull[f] EXCEPT !.sent = pull[f].sent + 1]]
    BY <1>2 DEF Chunk
  <2> QED BY <1>0, <2>1, <2>2 DEF Pull
<1>3. CASE ReportDone(f)
  <2> DEFINE p == [[pull[f] EXCEPT !.step = "leaving"] EXCEPT !.ok = TRUE]
  <2>1. p \in Pull /\ p.ok /\ p.route = pull[f].route
    BY <1>0 DEF Pull, PullSteps
  <2>2. pull' = [pull EXCEPT ![f] = p]
    BY <1>3 DEF ReportDone
  <2> HIDE DEF p
  <2> QED BY <1>0, <1>3, <2>1, <2>2
<1>4. CASE Release(f)
  <2> DEFINE step == IF pull[f].route = "read" THEN "over"
                     ELSE IF pull[f].ok THEN "closing" ELSE "telling"
             p == [[pull[f] EXCEPT !.sent = 0] EXCEPT !.step = step]
  <2>1. p \in Pull /\ p.ok = pull[f].ok /\ p.route = pull[f].route
    BY <1>0 DEF Pull, PullSteps
  <2>2. pull' = [pull EXCEPT ![f] = p]
    BY <1>4 DEF Release
  <2> HIDE DEF p
  <2> QED BY <1>0, <2>1, <2>2 DEF Pull
<1>5. CASE \/ Begin(f) \/ Refused(f) \/ Breaks(f) \/ Publish(f) \/ ClearFails(f) \/ TellError(f)
           \/ CloseProgress(f) \/ (Chunk(f) /\ Dropped(f))
  <2>1. \E step \in PullSteps : PullGoto(f, step)
    BY <1>5 DEF Begin, Refused, Breaks, Publish, ClearFails, TellError, CloseProgress, Chunk,
                PullSteps
  <2> QED BY <1>1, <2>1
<1> QED BY <1>2, <1>3, <1>4, <1>5 DEF Puller

\* So does every step of the goroutine that pulls.
LEMMA PullerTypes ==
  ASSUME ReceiveConstants, TypeOK, NEW f \in Fetches, Puller(f) PROVE TypeOK'
<1> USE DEF PullGoto, Fault, session, channel, disk, world
<1>0. /\ pull' \in [Fetches -> Pull]
      /\ KeyOf(f) \in Routes \X Codes /\ CodeOf[f] \in Codes /\ MaxFaults \in Nat
  BY PullerPulls, ReceiveConstants DEF ReceiveConstants, TypeOK, KeyOf, Pull
<1>1. CASE Begin(f)
  BY <1>0, <1>1 DEF TypeOK, Begin
<1>2. CASE Refused(f)
  BY <1>0, <1>2 DEF TypeOK, Refused
<1>3. CASE Chunk(f)
  <2>1. QueuesTyped' /\ closed' = closed /\ panicked' \in BOOLEAN
    BY <1>3, ReportTypes DEF Chunk, Messages
  <2> QED BY <1>0, <1>3, <2>1 DEF Chunk, TypeOK, QueuesTyped, Messages
<1>4. CASE Breaks(f)
  BY <1>0, <1>4 DEF TypeOK, Breaks
<1>5. CASE Publish(f)
  BY <1>0, <1>5 DEF TypeOK, Publish
<1>6. CASE ReportDone(f)
  <2>1. QueuesTyped' /\ closed' = closed /\ panicked' \in BOOLEAN
    BY <1>6, ReportTypes DEF ReportDone, Messages
  <2> QED BY <1>0, <1>6, <2>1 DEF ReportDone, TypeOK, QueuesTyped, Messages
<1>7. CASE ClearFails(f)
  BY <1>0, <1>7 DEF TypeOK, ClearFails
<1>8. CASE Release(f)
  BY <1>0, <1>8 DEF TypeOK, Release
<1>9. CASE TellError(f)
  <2>1. QueuesTyped' /\ closed' = closed /\ panicked' \in BOOLEAN
    BY <1>9, ReportTypes DEF TellError, Messages
  <2> QED BY <1>0, <1>9, <2>1 DEF TellError, TypeOK, QueuesTyped, Messages
<1>10. CASE CloseProgress(f)
  BY <1>0, <1>10 DEF TypeOK, CloseProgress, Close
<1> QED BY <1>1, <1>2, <1>3, <1>4, <1>5, <1>6, <1>7, <1>8, <1>9, <1>10 DEF Puller

\* So do the forwarder and whoever cancels or closes a session.
LEMMA OtherTypes ==
  ASSUME ReceiveConstants, TypeOK, NEW f \in Fetches,
         Forwarder(f) \/ Stall(f) \/ CancelParent(f) \/ AfterCancel(f) \/ CloseSession(f)
  PROVE  TypeOK'
<1> USE DEF Finish, session, channel, disk, world, Ended
<1>1. CASE Forward(f)
  <2>1. QueuesTyped'
    BY <1>1, ForwardTakes DEF QueuesTyped
  <2>2. sess' \in [Fetches -> Ended \cup {"none", "running"}] /\ alive' \subseteq Fetches
    BY <1>1 DEF Forward, TypeOK
  <2> QED BY <1>1, <2>1, <2>2 DEF Forward, TypeOK, QueuesTyped, Messages
<1>2. CASE ForwarderEnds(f)
  BY <1>2 DEF ForwarderEnds, TypeOK
<1>3. CASE CancelParent(f)
  BY <1>3 DEF CancelParent, TypeOK
<1>4. CASE AfterCancel(f)
  BY <1>4 DEF AfterCancel, TypeOK
<1>5. CASE CloseSession(f)
  BY <1>5 DEF CloseSession, TypeOK
<1>6. CASE Stall(f)
  BY <1>6 DEF Stall, TypeOK
<1> QED BY <1>1, <1>2, <1>3, <1>4, <1>5, <1>6 DEF Forwarder

LEMMA TypesKept ==
  ASSUME ReceiveConstants, TypeOK, [Next]_vars PROVE TypeOK'
BY CallerTypes, PullerTypes, OtherTypes DEF Next, vars, session, channel, disk, world, TypeOK


-----------------------------------------------------------------------------
(* What the actors leave alone *)

LEMMA StepKinds ==
  ASSUME [Next]_vars
  PROVE  UNCHANGED vars \/ \E f \in Fetches :
           \/ Start(f) \/ Caller(f) \/ Puller(f) \/ Forward(f)
           \/ Stall(f) \/ ForwarderEnds(f) \/ CancelParent(f) \/ AfterCancel(f) \/ CloseSession(f)
BY DEF Next, Forwarder

\* The caller's goroutine sends nothing and publishes nothing, and may close its channel.
LEMMA CallerFrame ==
  ASSUME TypeOK, NEW f \in Fetches, Start(f) \/ Caller(f)
  PROVE  /\ progress' = progress /\ saved' = saved /\ uncleared' = uncleared
         /\ closed' \in {closed, closed \cup {f}}
         /\ \A g \in Fetches : g # f => call'[g] = call[g]
         /\ \A g \in Fetches : sess'[g] \in {sess[g], "running", "canceled"}
<1> USE DEF TypeOK, Goto, Finish, Close, Return, session, channel, disk, world
<1>1. CASE Start(f)
  BY <1>1 DEF Start
<1>2. CASE Found(f)
  BY <1>2 DEF Found
<1>3. CASE NotFound(f)
  BY <1>3 DEF NotFound
<1>4. CASE Resolve(f)
  BY <1>4 DEF Resolve
<1>5. CASE Await(f)
  BY <1>5 DEF Await
<1>6. CASE GiveUp(f)
  BY <1>6 DEF GiveUp
<1>7. CASE HandOver(f)
  BY <1>7 DEF HandOver
<1> QED BY <1>1, <1>2, <1>3, <1>4, <1>5, <1>6, <1>7 DEF Caller

\* The goroutine that pulls leaves the caller and the session alone, takes nothing
\* back, and sends what its three reports say.
LEMMA PullerFrame ==
  ASSUME NEW f \in Fetches, Puller(f)
  PROVE  /\ call' = call /\ sess' = sess
         /\ saved' = saved \/ (Publish(f) /\ saved' = saved \cup {f})
         /\ uncleared \subseteq uncleared' /\ (ClearFails(f) => f \in uncleared')
         /\ \/ progress' = progress
            \/ Chunk(f) /\ Report(f, "progress")
            \/ ReportDone(f) /\ Report(f, "done")
            \/ TellError(f) /\ Report(f, "error")
<1> USE DEF session, channel, disk
<1>0. ClearFails(f) => f \in uncleared'
  BY DEF ClearFails
<1>1. CASE Begin(f) \/ Refused(f) \/ Breaks(f) \/ ClearFails(f) \/ Release(f)
  BY <1>1 DEF Begin, Refused, Breaks, ClearFails, Release
<1>2. CASE Publish(f) \/ CloseProgress(f)
  BY <1>0, <1>2 DEF Publish, CloseProgress, Close
<1>3. CASE Chunk(f) \/ ReportDone(f) \/ TellError(f)
  BY <1>0, <1>3 DEF Chunk, ReportDone, TellError
<1> QED BY <1>1, <1>2, <1>3 DEF Puller

\* The others touch sessions, and the forwarder the queue.
LEMMA OtherFrame ==
  ASSUME TypeOK, NEW f \in Fetches,
         \/ Forward(f) \/ Stall(f) \/ ForwarderEnds(f)
         \/ CancelParent(f) \/ AfterCancel(f) \/ CloseSession(f)
  PROVE  /\ UNCHANGED <<call, pull, closed, panicked, saved, uncleared>>
         /\ \/ Forward(f)
            \/ /\ progress' = progress
               /\ \A g \in Fetches : sess'[g] \in {sess[g], "running", "canceled"}
<1> USE DEF Finish, session, channel, disk, world
<1>1. CASE Forward(f)
  BY <1>1 DEF Forward
<1>2. CASE Stall(f) \/ ForwarderEnds(f) \/ CancelParent(f)
  BY <1>2 DEF Stall, ForwarderEnds, CancelParent
<1>3. CASE AfterCancel(f) \/ CloseSession(f)
  BY <1>3 DEF TypeOK, AfterCancel, CloseSession
<1> QED BY <1>1, <1>2, <1>3

-----------------------------------------------------------------------------
(* The parts of the invariant, step by step *)

\* The way of a pull through its code.
LEMMA PullerMoves ==
  ASSUME ReceiveConstants, TypeOK, NEW f \in Fetches, Puller(f)
  PROVE  \/ Begin(f) /\ pull[f].step = "asked" /\ pull'[f].step \in {"leaving", "running"}
         \/ /\ Refused(f) /\ pull[f].step = "asked"
            /\ pull'[f].step = IF pull[f].route = "read" THEN "over" ELSE "telling"
         \/ Chunk(f) /\ pull[f].step = "running" /\ pull'[f].step \in {"leaving", "running"}
         \/ Breaks(f) /\ pull[f].step = "running" /\ pull'[f].step = "leaving"
         \/ /\ Publish(f) /\ pull[f].step = "running"
            /\ pull'[f].step = "leaving" \/ (pull'[f].step = "landed" /\ f \in saved')
         \/ ReportDone(f) /\ pull[f].step = "landed" /\ pull'[f].step = "leaving"
         \/ ClearFails(f) /\ pull[f].step = "landed" /\ pull'[f].step = "leaving"
         \/ /\ Release(f) /\ pull[f].step = "leaving"
            /\ pull'[f].step = IF pull[f].route = "read" THEN "over"
                                ELSE IF pull[f].ok THEN "closing" ELSE "telling"
         \/ TellError(f) /\ pull[f].step = "telling" /\ pull'[f].step = "closing"
         \/ CloseProgress(f) /\ pull[f].step = "closing" /\ pull'[f].step = "over"
<1>0. pull \in [Fetches -> Pull] /\ pull[f] \in Pull
  BY DEF TypeOK
<1>1. \A step \in PullSteps : PullGoto(f, step) => pull'[f].step = step
  BY <1>0, PullGoes
<1>2. CASE Chunk(f) /\ ~Dropped(f)
  BY <1>0, <1>2 DEF Chunk, Pull
<1>3. CASE ReportDone(f)
  BY <1>0, <1>3 DEF ReportDone, Pull
<1>4. CASE Release(f)
  BY <1>0, <1>4 DEF Release, Pull
<1>5. CASE Begin(f) \/ Refused(f) \/ Publish(f)
  BY <1>1, <1>5 DEF Begin, Refused, Publish, PullSteps
<1>6. CASE \/ Breaks(f) \/ ClearFails(f) \/ TellError(f) \/ CloseProgress(f)
           \/ Chunk(f) /\ Dropped(f)
  BY <1>1, <1>6 DEF Breaks, ClearFails, TellError, CloseProgress, Chunk, PullSteps
<1> QED BY <1>2, <1>3, <1>4, <1>5, <1>6 DEF Puller

\* The channel keeps one owner, who never finds it closed.
LEMMA OwnerKept ==
  ASSUME ReceiveConstants, TypeOK, OneOwner, ~panicked, [Next]_vars
  PROVE  OneOwner' /\ ~panicked'
<1>0. call \in [Fetches -> {"idle", "discover", "resolve", "wait", "decide", "returned", "refused"}]
  BY DEF TypeOK
<1>1. ASSUME NEW f \in Fetches, Start(f) \/ Caller(f) PROVE OneOwner' /\ ~panicked'
  <2> USE DEF Goto, Close, Return, channel
  <2>0. /\ \A g \in Fetches : g # f => pull'[g] = pull[g]
        /\ \A g \in Fetches : g # f => call'[g] = call[g]
        /\ \A g \in Fetches : g # f => (g \in closed' <=> g \in closed)
    <3>1. \A g \in Fetches : g # f => call'[g] = call[g]
      BY <1>1, CallerFrame
    <3>2. closed' \in {closed, closed \cup {f}}
      BY <1>1, CallerFrame
    <3> QED BY <1>1, <3>1, <3>2, CallerPulls
  <2> SUFFICES OneOwnerOf(f)' /\ ~panicked'
    BY <2>0 DEF OneOwner, OneOwnerOf, Pulling
  <2>1. OneOwnerOf(f)
    BY DEF OneOwner
  <2> USE DEF OneOwnerOf, Pulling
  <2>2. CASE Start(f)
    BY <1>0, <2>1, <2>2 DEF Start
  <2>3. CASE Found(f)
    BY <1>0, <2>1, <2>3 DEF Found
  <2>4. CASE NotFound(f)
    BY <1>0, <2>1, <2>4 DEF NotFound
  <2>5. CASE Resolve(f)
    BY <1>0, <1>1, <2>1, <2>5, CallerPulls DEF Resolve, HandOver
  <2>6. CASE Await(f)
    BY <1>0, <2>1, <2>6 DEF Await
  <2>7. CASE GiveUp(f)
    BY <1>0, <2>1, <2>7 DEF GiveUp
  <2>8. CASE HandOver(f)
    BY <1>0, <1>1, <2>1, <2>8, CallerPulls DEF Resolve, HandOver
  <2> QED BY <1>1, <2>2, <2>3, <2>4, <2>5, <2>6, <2>7, <2>8 DEF Caller
<1>2. ASSUME NEW f \in Fetches, Puller(f) PROVE OneOwner' /\ ~panicked'
  <2>1. call' = call
    BY <1>2, PullerFrame
  <2>2. f \notin closed
    BY <1>2, PullerMoves DEF OneOwner, OneOwnerOf, Pulling
  <2>3. (closed' = closed /\ panicked' = panicked) \/ CloseProgress(f)
    BY <1>2, <2>2 DEF Puller, Begin, Refused, Chunk, Breaks, Publish, ReportDone, ClearFails,
                      Release, TellError, Report, channel
  <2>4. CASE CloseProgress(f)
    <3>1. closed' = closed \cup {f} /\ ~panicked'
      BY <2>2, <2>4 DEF CloseProgress, Close
    <3>2. pull[f].step = "closing" /\ pull'[f].step = "over"
      BY <2>4, PullGoes DEF CloseProgress, PullSteps, TypeOK
    <3> QED BY <1>2, <2>1, <3>1, <3>2, PullerPulls DEF OneOwner, OneOwnerOf, Pulling
  <2>5. CASE closed' = closed /\ panicked' = panicked
    <3>1. /\ Pulling(f) /\ pull'[f].step # "idle" /\ pull'[f].route = pull[f].route
          /\ pull'[f].step \in {"telling", "closing"} => pull[f].route = "share"
      <4>1. pull[f].route \in Routes
        BY DEF TypeOK, Pull
      <4> QED BY <1>2, <4>1, PullerPulls, PullerMoves DEF OneOwner, OneOwnerOf, Pulling, Routes
    <3>2. OneOwnerOf(f)'
      BY <2>1, <2>5, <3>1 DEF OneOwner, OneOwnerOf, Pulling
    <3> QED BY <1>2, <2>1, <2>5, <3>2, PullerPulls DEF OneOwner, OneOwnerOf, Pulling
  <2> QED BY <2>3, <2>4, <2>5
<1>3. CASE UNCHANGED <<call, pull, closed, panicked>>
  BY <1>3 DEF OneOwner, OneOwnerOf, Pulling
<1> QED BY <1>1, <1>2, <1>3, StepKinds, OtherFrame DEF vars, channel

\* A file is published by a fetch of its own and stays so, as does what could not
\* be removed, and a step that is not of f's own goroutines leaves its call and its
\* pull alone.
LEMMA StepFacts ==
  ASSUME ReceiveConstants, TypeOK, [Next]_vars
  PROVE  /\ saved \subseteq saved' /\ uncleared \subseteq uncleared'
         /\ \A f \in Fetches : f \in saved' => f \in saved \/ Publish(f)
         /\ \A f \in Fetches :
              \/ Start(f) \/ Caller(f) \/ Puller(f)
              \/ call'[f] = call[f] /\ pull'[f] = pull[f]
<1>1. /\ saved \subseteq saved' /\ uncleared \subseteq uncleared'
      /\ \A f \in Fetches : f \in saved' => f \in saved \/ Publish(f)
  BY StepKinds, CallerFrame, PullerFrame, OtherFrame DEF vars, disk
<1>2. ASSUME NEW f \in Fetches, NEW g \in Fetches, f # g, Start(f) \/ Caller(f) \/ Puller(f)
      PROVE  call'[g] = call[g] /\ pull'[g] = pull[g]
  <2>1. pull'[g] = pull[g]
    BY <1>2, CallerPulls, PullerPulls
  <2>2. call'[g] = call[g]
    BY <1>2, CallerFrame, PullerFrame
  <2> QED BY <2>1, <2>2
<1> QED BY <1>1, <1>2, StepKinds, OtherFrame DEF vars

\* A pull is not a success before it has reported, and no refused caller has one.
LEMMA SuccessKept ==
  ASSUME ReceiveConstants, TypeOK, OneOwner, Succeeding, RefusedFailed, [Next]_vars
  PROVE  Succeeding' /\ RefusedFailed'
<1> SUFFICES ASSUME NEW f \in Fetches
             PROVE  SucceedingOf(f)' /\ (call'[f] = "refused" => ~pull'[f].ok)
  BY DEF Succeeding, RefusedFailed
<1>1. SucceedingOf(f) /\ OneOwnerOf(f) /\ (call[f] = "refused" => ~pull[f].ok)
  BY DEF Succeeding, OneOwner, RefusedFailed
<1>2. /\ f \in saved => f \in saved'
      /\ f \in uncleared => f \in uncleared'
      /\ f \in saved' => f \in saved \/ Publish(f)
  BY StepFacts
<1>3. CASE Start(f) \/ Caller(f)
  <2>0. saved' = saved /\ uncleared' = uncleared
    BY <1>3, CallerFrame
  <2>1. SucceedingOf(f)'
    <3>1. CASE pull'[f] = pull[f]
      BY <1>1, <2>0, <3>1 DEF SucceedingOf
    <3>2. CASE Resolve(f) \/ HandOver(f)
      <4>1. pull[f].step = "idle"
        BY <1>1, <3>2 DEF Resolve, HandOver, OneOwnerOf
      <4> QED BY <1>1, <1>3, <2>0, <4>1, CallerPulls DEF SucceedingOf
    <3> QED BY <1>3, <3>1, <3>2, CallerPulls
  <2>2. call'[f] = "refused" => ~pull'[f].ok
    <3>1. CASE NotFound(f) \/ GiveUp(f)
      BY <1>1, <3>1 DEF NotFound, GiveUp, OneOwnerOf, SucceedingOf
    <3>2. CASE Await(f)
      BY <1>1, <3>2 DEF Await, Return, Goto, TypeOK
    <3>3. CASE Start(f) \/ Found(f) \/ Resolve(f) \/ HandOver(f)
      BY <1>1, <3>3 DEF Start, Found, Resolve, HandOver, Goto, TypeOK
    <3> QED BY <1>3, <3>1, <3>2, <3>3 DEF Caller
  <2> QED BY <2>1, <2>2
<1>4. CASE Puller(f)
  <2>1. call' = call
    BY <1>4, PullerFrame
  <2>2. /\ pull'[f].ok => pull[f].ok \/ ReportDone(f)
        /\ ReportDone(f) => pull[f].step = "landed" /\ pull'[f].step = "leaving"
    <3>1. pull \in [Fetches -> Pull] /\ pull[f] \in Pull
      BY DEF TypeOK
    <3> QED BY <1>4, <3>1, PullerPulls DEF ReportDone, Pull
  <2>3. SucceedingOf(f)'
    <3>1. saved' = saved \/ Publish(f)
      BY <1>4, PullerFrame
    <3>2. ClearFails(f) => f \in uncleared'
      BY <1>4, PullerFrame
    <3>3. pull[f].route \in Routes /\ (ReportDone(f) => pull'[f].ok)
      <4>1. pull \in [Fetches -> Pull] /\ pull[f] \in Pull
        BY DEF TypeOK
      <4> QED BY <4>1 DEF ReportDone, Pull
    <3>4. Publish(f) => pull'[f].step = "landed" \/ (pull'[f].step = "leaving" /\ saved' = saved)
      <4> SUFFICES ASSUME Publish(f)
                   PROVE  pull'[f].step = "landed" \/ (pull'[f].step = "leaving" /\ saved' = saved)
        OBVIOUS
      <4>1. CASE CodeOf[f] \in file
        BY <4>1, PullGoes DEF Publish, PullSteps, TypeOK
      <4>2. CASE CodeOf[f] \notin file
        BY <4>2, PullGoes DEF Publish, PullSteps, TypeOK
      <4> QED BY <4>1, <4>2
    <3>5. pull[f].ok => pull'[f].ok
      <4>1. pull \in [Fetches -> Pull] /\ pull[f] \in Pull
        BY DEF TypeOK
      <4>2. \A step \in PullSteps : PullGoto(f, step) => pull'[f].ok = pull[f].ok
        BY <4>1, PullGoes
      <4>3. CASE \/ Begin(f) \/ Refused(f) \/ Breaks(f) \/ Publish(f) \/ ClearFails(f) \/ TellError(f)
                 \/ CloseProgress(f) \/ (Chunk(f) /\ Dropped(f))
        BY <4>2, <4>3 DEF Begin, Refused, Breaks, Publish, ClearFails, TellError, CloseProgress,
                         Chunk, PullSteps
      <4>4. CASE (Chunk(f) /\ ~Dropped(f)) \/ ReportDone(f) \/ Release(f)
        BY <4>1, <4>4 DEF Chunk, ReportDone, Release, Pull
      <4> QED BY <1>4, <4>3, <4>4 DEF Puller
    <3> QED BY <1>1, <1>2, <1>4, <2>2, <3>1, <3>2, <3>3, <3>4, <3>5, PullerMoves DEF SucceedingOf, Routes
  <2>4. call[f] # "refused"
    BY <1>1, <1>4, PullerMoves DEF OneOwnerOf, Pulling
  <2> QED BY <2>1, <2>3, <2>4
<1>5. CASE call'[f] = call[f] /\ pull'[f] = pull[f] /\ ~Puller(f)
  BY <1>1, <1>2, <1>5 DEF SucceedingOf, Puller
<1> QED BY <1>3, <1>4, <1>5, StepFacts

\* Once a fetch has failed and said so, it stays so.
LEMMA ErrorStays ==
  ASSUME ReceiveConstants, TypeOK, [Next]_vars, NEW f \in Fetches, ToldError(f)
  PROVE  ToldError(f)'
<1>1. CASE Start(f) \/ Caller(f)
  BY <1>1 DEF ToldError, Start, Caller, Found, NotFound, Resolve, Await, GiveUp, HandOver
<1>2. CASE Puller(f)
  <2>1. call' = call
    BY <1>2, PullerFrame
  <2> QED BY <1>2, <2>1, PullerMoves, PullerPulls DEF ToldError, ReportDone
<1>3. CASE call'[f] = call[f] /\ pull'[f] = pull[f]
  BY <1>3 DEF ToldError
<1> QED BY <1>1, <1>2, <1>3, StepFacts

\* What a step may add to a queue.
LEMMA QueueGrows ==
  ASSUME ReceiveConstants, TypeOK, OneOwner, [Next]_vars,
         NEW f \in Fetches, NEW m \in {"done", "error"}, Queued(f, m)'
  PROVE  Queued(f, m) \/ (m = "done" /\ ReportDone(f)) \/ (m = "error" /\ TellError(f))
<1>1. CASE progress' = progress
  BY <1>1 DEF Queued
<1>2. ASSUME NEW g \in Fetches, Forward(g) PROVE Queued(f, m)
  BY <1>2, ForwardTakes DEF Messages
<1>3. ASSUME NEW g \in Fetches, NEW x \in Messages, Report(g, x), ~Queued(f, m) PROVE g = f /\ x = m
  BY <1>3, ReportAdds DEF Messages
<1>4. progress' = progress \/ \E g \in Fetches :
        \/ Forward(g)
        \/ Chunk(g) /\ Report(g, "progress")
        \/ ReportDone(g) /\ Report(g, "done")
        \/ TellError(g) /\ Report(g, "error")
  BY StepKinds, CallerFrame, PullerFrame, OtherFrame DEF vars, channel
<1>5. ASSUME NEW g \in Fetches, NEW x \in Messages, Report(g, x), g # f \/ x # m PROVE Queued(f, m)
  BY <1>3, <1>5
<1>6. \A g \in Fetches : Report(g, "progress") => Queued(f, m)
  BY <1>5 DEF Messages
<1>7. \A g \in Fetches : Report(g, "done") => Queued(f, m) \/ (g = f /\ m = "done")
  BY <1>5 DEF Messages
<1>8. \A g \in Fetches : Report(g, "error") => Queued(f, m) \/ (g = f /\ m = "error")
  BY <1>5 DEF Messages
<1>9. CASE \E g \in Fetches : Chunk(g) /\ Report(g, "progress")
  BY <1>6, <1>9
<1>10. CASE \E g \in Fetches : ReportDone(g) /\ Report(g, "done")
  <2>1. PICK g \in Fetches : ReportDone(g) /\ Report(g, "done")
    BY <1>10
  <2>2. Queued(f, m) \/ (g = f /\ m = "done")
    BY <1>7, <2>1
  <2> QED BY <2>1, <2>2
<1>11. CASE \E g \in Fetches : TellError(g) /\ Report(g, "error")
  <2>1. PICK g \in Fetches : TellError(g) /\ Report(g, "error")
    BY <1>11
  <2>2. Queued(f, m) \/ (g = f /\ m = "error")
    BY <1>8, <2>1
  <2> QED BY <2>1, <2>2
<1> QED BY <1>1, <1>2, <1>4, <1>9, <1>10, <1>11

\* What is queued stays true, and so does what is added.
LEMMA HonestKept ==
  ASSUME ReceiveConstants, TypeOK, OneOwner, Succeeding, Honest, [Next]_vars
  PROVE  Honest'
<1> SUFFICES ASSUME NEW f \in Fetches
             PROVE  /\ Queued(f, "done")' => f \in saved'
                    /\ Queued(f, "error")' => ToldError(f)'
  BY DEF Honest
<1>1. Queued(f, "done") => f \in saved'
  BY StepFacts DEF Honest
<1>2. Queued(f, "error") => ToldError(f)'
  BY ErrorStays DEF Honest
<1>3. ReportDone(f) => f \in saved'
  BY StepFacts DEF ReportDone, Succeeding, SucceedingOf
<1>4. TellError(f) => ToldError(f)'
  <2> SUFFICES ASSUME TellError(f) PROVE ToldError(f)'
    OBVIOUS
  <2>1. pull[f].step = "telling" /\ pull'[f].step = "closing" /\ call' = call
    BY PullGoes DEF TellError, PullSteps, TypeOK
  <2>2. pull[f].route = "share" /\ call[f] = "returned" /\ ~pull[f].ok
    BY <2>1 DEF OneOwner, OneOwnerOf, Pulling, Succeeding, SucceedingOf
  <2>3. pull'[f].route = pull[f].route /\ ~pull'[f].ok
    BY <2>1, <2>2, PullGoes DEF TellError, PullSteps, TypeOK
  <2> QED BY <2>1, <2>2, <2>3 DEF ToldError
<1> QED BY <1>1, <1>2, <1>3, <1>4, QueueGrows

\* Sessions end on what was queued.
LEMMA OutcomesKept ==
  ASSUME ReceiveConstants, TypeOK, OneOwner, Honest, Outcomes, [Next]_vars
  PROVE  Outcomes'
<1> SUFFICES ASSUME NEW f \in Fetches
             PROVE  /\ sess'[f] = "done" => Same(f) \cap saved' # {}
                    /\ sess'[f] = "failed" => \E g \in Same(f) : ToldError(g)'
  BY DEF Outcomes, Same
<1>1. CASE sess'[f] \in {sess[f], "running", "canceled"}
  <2>1. sess[f] = "done" => Same(f) \cap saved' # {}
    BY StepFacts DEF Outcomes
  <2>2. sess[f] = "failed" => \E g \in Same(f) : ToldError(g)'
    BY ErrorStays DEF Outcomes, Same
  <2> QED BY <1>1, <2>1, <2>2
<1>2. ASSUME NEW g \in Fetches, Forward(g), sess'[f] # sess[f]
      PROVE  /\ sess'[f] = "done" => Same(f) \cap saved' # {}
             /\ sess'[f] = "failed" => \E h \in Same(f) : ToldError(h)'
  <2>1. g \in Same(f) /\ \/ sess'[f] = "done" /\ Head(progress[g]) = "done"
                         \/ sess'[f] = "failed" /\ Head(progress[g]) = "error"
    BY <1>2 DEF Forward, Finish, TypeOK, session, Same
  <2>2. Queued(g, Head(progress[g]))
    BY <1>2, ForwardTakes
  <2>3. Head(progress[g]) = "done" => g \in saved'
    BY <2>2, StepFacts DEF Honest
  <2>4. Head(progress[g]) = "error" => ToldError(g)'
    BY <2>2, ErrorStays DEF Honest
  <2> QED BY <2>1, <2>3, <2>4
<1>3. sess'[f] \in {sess[f], "running", "canceled"} \/ \E g \in Fetches : Forward(g)
  BY StepKinds, CallerFrame, PullerFrame, OtherFrame DEF vars, session
<1> QED BY <1>1, <1>2, <1>3

-----------------------------------------------------------------------------
(* The theorems *)

LEMMA Initially == ReceiveConstants /\ Init => ReceiveInv
<1> SUFFICES ASSUME ReceiveConstants, Init PROVE ReceiveInv
  OBVIOUS
<1>1. TypeOK
  <2>1. [step |-> "idle", route |-> "read", sent |-> 0, ok |-> FALSE] \in Pull
    BY DEF Pull, PullSteps, Routes, ReceiveConstants
  <2>2. pull \in [Fetches -> Pull]
    BY <2>1 DEF Init
  <2>3. QueuesTyped
    BY DEF Init, QueuesTyped, ReceiveConstants
  <2>4. 0 \in 0..MaxFaults
    BY DEF ReceiveConstants
  <2> QED BY <2>2, <2>3, <2>4 DEF Init, TypeOK, QueuesTyped, Messages, Ended
<1>2. \A f \in Fetches : ~Queued(f, "done") /\ ~Queued(f, "error")
  BY DEF Init, Queued, In
<1>3. Honest
  BY <1>2 DEF Honest
<1>4. Outcomes
  BY DEF Init, Outcomes
<1>5. OneOwner /\ Succeeding /\ RefusedFailed /\ ~panicked
  BY DEF Init, OneOwner, OneOwnerOf, Pulling, RefusedFailed, Succeeding, SucceedingOf
<1> QED BY <1>1, <1>3, <1>4, <1>5 DEF ReceiveInv

LEMMA Inductive == ReceiveConstants /\ ReceiveInv /\ [Next]_vars => ReceiveInv'
BY TypesKept, OwnerKept, SuccessKept, HonestKept, OutcomesKept DEF ReceiveInv

\* The inductive invariant, from which the three theorems below follow.
THEOREM ReceiveInvariant == ASSUME ReceiveConstants PROVE Spec => []ReceiveInv
<1>1. Init => ReceiveInv
  BY Initially, ReceiveConstants
<1>2. ReceiveInv /\ [Next]_vars => ReceiveInv'
  BY Inductive, ReceiveConstants
<1> QED BY <1>1, <1>2, PTL DEF Spec

\* The progress channel is sent on and closed only by its owner: receive and
\* RegisterReceive never panic on it.
THEOREM ChannelIsOwned == ASSUME ReceiveConstants PROVE Spec => []NeverPanics
<1>1. Spec => []ReceiveInv
  BY ReceiveInvariant, ReceiveConstants
<1>2. ReceiveInv => NeverPanics
  BY DEF ReceiveInv, NeverPanics
<1> QED BY <1>1, <1>2, PTL

\* A caller that was given an error has no file saved behind its back, but for one
\* whose fetch saved it and then could not clear up.
THEOREM RefusalIsReal == ASSUME ReceiveConstants PROVE Spec => []SavedIsReported
<1>1. Spec => []ReceiveInv
  BY ReceiveInvariant, ReceiveConstants
<1>2. ReceiveInv => SavedIsReported
  BY DEF ReceiveInv, OneOwner, OneOwnerOf, Pulling, RefusedFailed, Succeeding, SucceedingOf,
         SavedIsReported
<1> QED BY <1>1, <1>2, PTL

\* A session is done or failed only because a fetch of its code is.
THEOREM SessionsAreTrue == ASSUME ReceiveConstants PROVE Spec => []OutcomeIsTrue
<1>1. Spec => []ReceiveInv
  BY ReceiveInvariant, ReceiveConstants
<1>2. ReceiveInv => OutcomeIsTrue
  BY DEF ReceiveInv, OutcomeIsTrue, Outcomes, Same, ToldError
<1> QED BY <1>1, <1>2, PTL

-----------------------------------------------------------------------------
(* The frames a file travels in: Frames, for any size of file, chunk and   *)
(* number of faults.                                                       *)

FrameRecords == [first : 1..Size, last : 1..Size, intact : BOOLEAN]

\* The last byte that is neither still in the writer's buffer nor lost.
End == IF wire = <<>> THEN buf.last ELSE wire[Len(wire)].last

\* Frames carry on where the one before ended, and nothing is ahead of the writer.
Contiguous ==
  /\ \A i \in 1..Len(wire) : wire[i].first <= wire[i].last /\ wire[i].last <= taken - held
  /\ \A i \in 1..Len(wire) - 1 : wire[i + 1].first = wire[i].last + 1

\* The reader has handed out what comes before its buffer, which comes before
\* the first frame on the wire as long as no frame was refused.
Delivered ==
  /\ buf.first <= buf.last + 1 /\ buf.last <= taken - held
  /\ Len(got) = buf.first - 1
  /\ \A i \in 1..Len(got) : got[i] = i
  /\ err = "none" /\ wire # <<>> => wire[1].first = buf.last + 1

\* While the wire is open, and for ever without faults, nothing is missing
\* between what was flushed and what is left to read.
NothingMissing ==
  (tail = "open" \/ damages = 0) /\ (wire # <<>> \/ err = "none") => End = taken - held

\* The writer closes on the whole file; without faults nothing else ends it.
EndsWhole ==
  /\ writer = "closed" => taken = Size /\ held = 0
  /\ tail = "open" => writer # "failed" /\ err # "eof"
  /\ damages = 0 =>
       /\ \A i \in 1..Len(wire) : wire[i].intact
       /\ writer # "failed" /\ tail # "torn" /\ err # "broken"
       /\ tail = "end" => writer = "closed"
       /\ err = "eof" => buf.first = Size + 1

IInv == FramesTypeOK /\ Contiguous /\ Delivered /\ NothingMissing /\ EndsWhole

-----------------------------------------------------------------------------

\* What the type invariant says of the numbers in a state.
LEMMA Typed ==
  ASSUME FramesConstants, FramesTypeOK
  PROVE  /\ Size \in Nat /\ taken \in Nat /\ held \in Nat /\ held <= taken /\ taken <= Size
         /\ damages \in Nat
         /\ wire \in Seq(FrameRecords) /\ Len(wire) \in Nat
         /\ \A i \in 1..Len(wire) :
              wire[i].first \in Nat /\ wire[i].last \in Nat /\ wire[i].intact \in BOOLEAN
         /\ wire # <<>> => Len(wire) > 0
         /\ wire = <<>> => Len(wire) = 0
         /\ buf.first \in Nat /\ buf.last \in Nat /\ buf.first > 0 /\ buf.last <= Size
         /\ got \in Seq(1..Size) /\ Len(got) \in Nat
<1> USE DEF FramesConstants, FramesTypeOK
<1>1. wire \in Seq(FrameRecords)
  BY DEF FrameRecords
<1>2. wire # <<>> => Len(wire) > 0
  BY <1>1, EmptySeq
<1>3. \A i \in 1..Len(wire) : wire[i] \in FrameRecords
  BY <1>1
<1>4. \A i \in 1..Len(wire) :
        wire[i].first \in Nat /\ wire[i].last \in Nat /\ wire[i].intact \in BOOLEAN
  BY <1>3 DEF FrameRecords
<1>5. buf.first \in 1..Size + 1 /\ buf.last \in 0..Size
  OBVIOUS
<1>6. Len(wire) \in Nat /\ Len(got) \in Nat /\ (wire = <<>> => Len(wire) = 0)
  BY <1>1, EmptySeq
<1> QED BY <1>1, <1>2, <1>4, <1>5, <1>6

\* A flush puts the writer's buffer on the wire, or finds the wire gone.
LEMMA FlushKeeps ==
  ASSUME FramesConstants, IInv, writer = "writing", held > 0,
         NEW after \in {"writing", "closed"}, after = "closed" => taken = Size,
         Flush(after)
  PROVE  IInv'
<1>0. UNCHANGED <<taken, tail, buf, err, got, damages>> /\ held' = 0
  BY DEF Flush
<1>t. FramesTypeOK /\ Contiguous /\ Delivered /\ NothingMissing /\ EndsWhole
  BY DEF IInv
<1> HIDE DEF IInv
<1>1. CASE tail # "open" /\ writer' = "failed" /\ UNCHANGED wire
  <2>1. damages # 0
    BY <1>1, <1>t DEF EndsWhole, FramesTypeOK
  <2>2. FramesTypeOK'
    BY <1>0, <1>1, <1>t, FramesConstants DEF FramesTypeOK, FramesConstants
  <2>3. /\ taken - held <= taken' - held' /\ taken - held \in Int /\ taken' - held' \in Int
        /\ buf.last \in Int /\ \A i \in 1..Len(wire) : wire[i].last \in Int
    BY <1>0, <1>t, Typed
  <2>5. Contiguous'
    BY <1>0, <1>1, <1>t, <2>3 DEF Contiguous
  <2>6. Delivered'
    BY <1>0, <1>1, <1>t, <2>3 DEF Delivered
  <2>4. NothingMissing' /\ EndsWhole'
    BY <1>0, <1>1, <1>t, <2>1, Typed DEF NothingMissing, EndsWhole
  <2> QED BY <2>2, <2>4, <2>5, <2>6 DEF IInv
<1>2. CASE tail = "open" /\ wire' = Append(wire, Frame) /\ writer' = after
  <2>1. Frame \in FrameRecords /\ Frame.first <= Frame.last /\ Frame.last = taken
        /\ Frame.first = taken - held + 1 /\ Frame.intact
    <3>1. /\ taken \in 1..Size /\ taken - held + 1 \in 1..Size /\ taken - held + 1 <= taken
      BY <1>t, Typed
    <3> QED BY <3>1 DEF Frame, FrameRecords
  <2>2. /\ wire' \in Seq(FrameRecords) /\ wire' # <<>>
        /\ Len(wire') = Len(wire) + 1
        /\ \A i \in 1..Len(wire) : wire'[i] = wire[i]
        /\ wire'[Len(wire) + 1] = Frame
    <3>1. wire \in Seq(FrameRecords)
      BY <1>t, Typed
    <3> QED BY <1>2, <2>1, <3>1, AppendProperties
  <2>4. wire # <<>> => wire[Len(wire)].last = taken - held
    BY <1>2, <1>t DEF NothingMissing, End
  <2>5. wire = <<>> /\ err = "none" => buf.last = taken - held
    BY <1>2, <1>t DEF NothingMissing, End
  <2>6. FramesTypeOK'
    BY <1>0, <1>2, <1>t, <2>2, FramesConstants DEF FrameRecords, FramesTypeOK, FramesConstants
  <2>7. Contiguous'
    <3>0. Len(wire) \in Nat /\ taken \in Nat /\ held \in Nat
      BY <1>t, Typed
    <3>1. ASSUME NEW i \in 1..Len(wire')
          PROVE  wire'[i].first <= wire'[i].last /\ wire'[i].last <= taken' - held'
      <4>1. CASE i \in 1..Len(wire)
        <5>1. wire'[i] = wire[i] /\ wire[i].last \in Nat
          BY <1>t, <2>2, <4>1, Typed
        <5>2. wire[i].first <= wire[i].last /\ wire[i].last <= taken - held
          BY <1>t, <4>1 DEF Contiguous
        <5> QED BY <1>0, <3>0, <5>1, <5>2
      <4>2. CASE i = Len(wire) + 1
        BY <1>0, <2>1, <2>2, <3>0, <4>2
      <4> QED BY <2>2, <3>0, <4>1, <4>2
    <3>2. ASSUME NEW i \in 1..Len(wire') - 1
          PROVE  wire'[i + 1].first = wire'[i].last + 1
      <4>1. CASE i \in 1..Len(wire) - 1
        <5>1. wire'[i] = wire[i] /\ wire'[i + 1] = wire[i + 1]
          BY <2>2, <3>0, <4>1
        <5> QED BY <1>t, <4>1, <5>1 DEF Contiguous
      <4>2. CASE i = Len(wire) /\ i > 0
        <5>1. wire'[i] = wire[i] /\ wire'[i + 1] = Frame /\ wire # <<>>
          BY <1>t, <2>2, <3>0, <4>2, Typed
        <5> QED BY <2>1, <2>4, <3>0, <4>2, <5>1
      <4> QED BY <2>2, <3>0, <4>1, <4>2
    <3> QED BY <3>1, <3>2 DEF Contiguous
  <2>8. Delivered'
    <3>1. CASE wire = <<>>
      <4>1. Len(wire) = 0 /\ wire'[1] = Frame
        BY <1>t, <3>1, <2>2, Typed
      <4> QED BY <1>0, <1>t, <2>1, <2>5, <3>1, <4>1, Typed DEF Delivered
    <3>2. CASE wire # <<>>
      <4>1. wire'[1] = wire[1]
        BY <1>t, <3>2, <2>2, Typed
      <4> QED BY <1>0, <1>t, <3>2, <4>1, Typed DEF Delivered
    <3> QED BY <3>1, <3>2
  <2>9. NothingMissing'
    BY <1>0, <1>t, <2>1, <2>2, Typed DEF NothingMissing, End
  <2>10. EndsWhole'
    BY <1>0, <1>2, <1>t, <2>1, <2>2, Typed DEF EndsWhole
  <2> QED BY <2>6, <2>7, <2>8, <2>9, <2>10 DEF IInv
<1> QED BY <1>1, <1>2 DEF Flush

\* A cut leaves a part of what was on the wire, from its beginning.
LEMMA CutKeeps == FramesConstants /\ IInv /\ Cut => IInv'
<1> SUFFICES ASSUME FramesConstants, IInv, Cut PROVE IInv'
  OBVIOUS
<1>0. /\ UNCHANGED <<taken, held, writer, buf, err, got>> /\ damages' = damages + 1
      /\ damages < MaxDamages /\ tail = "open" /\ tail' \in {"end", "torn"}
  BY DEF Cut, Damage
<1>t. FramesTypeOK /\ Contiguous /\ Delivered /\ NothingMissing /\ EndsWhole
  BY DEF IInv
<1>1. PICK n \in 0..Len(wire) : wire' = SubSeq(wire, 1, n)
  BY DEF Cut
<1>2. \A i \in 1..n : wire[i] \in FrameRecords
  BY <1>t, Typed
<1>3. wire' \in Seq(FrameRecords) /\ Len(wire') = n /\ \A i \in 1..n : wire'[i] = wire[i]
  <2>1. n \in Nat /\ 1 \in Int /\ n \in Int
    BY <1>t, Typed
  <2>2. /\ SubSeq(wire, 1, n) \in Seq(FrameRecords)
        /\ Len(SubSeq(wire, 1, n)) = IF 1 <= n THEN n - 1 + 1 ELSE 0
        /\ \A i \in 1..n - 1 + 1 : SubSeq(wire, 1, n)[i] = wire[1 + i - 1]
    BY <1>2, <2>1, SubSeqProperties
  <2> QED BY <1>1, <2>1, <2>2
<1>4. damages' # 0
  BY <1>0, <1>t, Typed
<1>5. FramesTypeOK'
  BY <1>0, <1>3, <1>t, FramesConstants DEF FramesTypeOK, FramesConstants, FrameRecords
<1>6. Contiguous'
  <2>1. \A i \in 1..n : i \in 1..Len(wire)
    BY <1>t, Typed
  <2>2. \A i \in 1..n - 1 : i \in 1..Len(wire) - 1 /\ i \in 1..n /\ i + 1 \in 1..n
    BY <1>t, Typed
  <2> QED BY <1>0, <1>3, <1>t, <2>1, <2>2 DEF Contiguous
<1>7. Delivered'
  <2>1. wire' # <<>> => n > 0 /\ wire'[1] = wire[1] /\ wire # <<>>
    BY <1>1, <1>3, <1>t, Typed, EmptySeq
  <2> QED BY <1>0, <1>t, <2>1 DEF Delivered
<1>8. NothingMissing' /\ EndsWhole'
  BY <1>0, <1>4, <1>t DEF NothingMissing, EndsWhole
<1> QED BY <1>5, <1>6, <1>7, <1>8 DEF IInv

\* An altered frame keeps its place.
LEMMA AlterKeeps == FramesConstants /\ IInv /\ Alter => IInv'
<1> SUFFICES ASSUME FramesConstants, IInv, Alter PROVE IInv'
  OBVIOUS
<1>0. /\ UNCHANGED <<taken, held, writer, tail, buf, err, got>> /\ damages' = damages + 1
      /\ damages < MaxDamages
  BY DEF Alter, Damage
<1>t. FramesTypeOK /\ Contiguous /\ Delivered /\ NothingMissing /\ EndsWhole
  BY DEF IInv
<1>1. PICK i \in DOMAIN wire : wire' = [wire EXCEPT ![i].intact = FALSE]
  BY DEF Alter
<1>2. /\ wire' \in Seq(FrameRecords) /\ Len(wire') = Len(wire)
      /\ \A j \in 1..Len(wire) :
           wire'[j].first = wire[j].first /\ wire'[j].last = wire[j].last
  <2>1. wire \in Seq(FrameRecords) /\ \A j \in 1..Len(wire) : wire[j] \in FrameRecords
    BY <1>t, Typed
  <2>2. i \in 1..Len(wire) /\ DOMAIN wire = 1..Len(wire) /\ Len(wire) \in Nat
    BY <2>1
  <2> DEFINE new == [wire[i] EXCEPT !.intact = FALSE]
  <2>3. new \in FrameRecords /\ new.first = wire[i].first /\ new.last = wire[i].last
    BY <2>1, <2>2 DEF FrameRecords
  <2>4. wire' = [wire EXCEPT ![i] = new]
    BY <1>1
  <2> HIDE DEF new
  <2>5. wire' \in Seq(FrameRecords) /\ Len(wire') = Len(wire)
    BY <2>1, <2>2, <2>3, <2>4
  <2>6. \A j \in 1..Len(wire) : wire'[j] = IF j = i THEN new ELSE wire[j]
    BY <2>2, <2>4
  <2> QED BY <2>3, <2>5, <2>6
<1>3. wire' = <<>> <=> wire = <<>>
  BY <1>2, <1>t, Typed, EmptySeq
<1>4. damages' # 0
  BY <1>0, <1>t, Typed
<1>5. FramesTypeOK'
  BY <1>0, <1>2, <1>t, FramesConstants DEF FramesTypeOK, FramesConstants, FrameRecords
<1>6. Contiguous'
  <2>1. ASSUME NEW j \in 1..Len(wire')
        PROVE  wire'[j].first <= wire'[j].last /\ wire'[j].last <= taken' - held'
    BY <1>0, <1>2, <1>t DEF Contiguous
  <2>2. ASSUME NEW j \in 1..Len(wire') - 1
        PROVE  wire'[j + 1].first = wire'[j].last + 1
    <3>1. j \in 1..Len(wire) - 1 /\ j \in 1..Len(wire) /\ j + 1 \in 1..Len(wire)
      BY <1>2, <1>t, Typed
    <3> QED BY <1>2, <1>t, <3>1 DEF Contiguous
  <2> QED BY <2>1, <2>2 DEF Contiguous
<1>7. Delivered'
  <2>1. wire # <<>> => 1 \in 1..Len(wire)
    BY <1>t, Typed
  <2> QED BY <1>0, <1>2, <1>3, <1>t, <2>1 DEF Delivered
<1>8. NothingMissing'
  BY <1>0, <1>2, <1>3, <1>4, <1>t, Typed DEF NothingMissing, End
<1>9. EndsWhole'
  BY <1>0, <1>4, <1>t DEF EndsWhole
<1> QED BY <1>5, <1>6, <1>7, <1>8, <1>9 DEF IInv

\* Read hands out bytes in order.
LEMMA ReadKeeps == FramesConstants /\ IInv /\ Read => IInv'
<1> SUFFICES ASSUME FramesConstants, IInv, Read PROVE IInv'
  OBVIOUS
<1>0. UNCHANGED <<taken, held, writer, wire, tail, err, damages>> /\ Count(buf) > 0
  BY DEF Read
<1>t. FramesTypeOK /\ Contiguous /\ Delivered /\ NothingMissing /\ EndsWhole
  BY DEF IInv
<1>1. PICK n \in 1..Count(buf) :
        /\ got' = got \o [i \in 1..n |-> buf.first + i - 1]
        /\ buf' = [buf EXCEPT !.first = @ + n]
  BY DEF Read
<1>2. /\ n \in Nat /\ n > 0 /\ buf.first + n <= buf.last + 1
      /\ buf' \in [first : 1..Size + 1, last : 0..Size]
      /\ buf'.first = buf.first + n /\ buf'.last = buf.last
  <2>1. buf \in [first : 1..Size + 1, last : 0..Size] /\ Size \in Nat
    BY <1>t, Typed DEF FramesTypeOK
  <2>2. buf.first \in 1..Size + 1 /\ buf.last \in 0..Size
    BY <2>1
  <2>3. n \in Nat /\ n > 0 /\ buf.first + n <= buf.last + 1
    BY <2>1, <2>2 DEF Count
  <2>4. buf.first + n \in 1..Size + 1
    BY <2>1, <2>2, <2>3
  <2> QED BY <1>1, <2>1, <2>3, <2>4
<1> DEFINE next == [i \in 1..n |-> buf.first + i - 1]
<1>3. next \in Seq(1..Size) /\ Len(next) = n /\ \A i \in 1..n : next[i] = buf.first + i - 1
  <2>1. \A i \in 1..n : buf.first + i - 1 \in 1..Size
    <3>1. buf.first \in Nat /\ buf.first > 0 /\ buf.last \in Nat /\ buf.last <= Size /\ Size \in Nat
      BY <1>t, Typed
    <3> QED BY <1>2, <3>1
  <2>2. next \in [1..n -> 1..Size]
    BY <2>1
  <2>3. next \in Seq(1..Size) /\ Len(next) = n
    BY <1>2, <2>2, SeqDef, LenProperties
  <2> QED BY <2>3
<1> HIDE DEF next
<1>4. /\ got' \in Seq(1..Size) /\ Len(got') = Len(got) + n
      /\ \A i \in 1..Len(got) + n :
           got'[i] = IF i <= Len(got) THEN got[i] ELSE next[i - Len(got)]
  <2>1. got' = got \o next
    BY <1>1 DEF next
  <2>2. got \in Seq(1..Size)
    BY <1>t, Typed
  <2>3. /\ got \o next \in Seq(1..Size) /\ Len(got \o next) = Len(got) + Len(next)
        /\ \A i \in 1..Len(got) + Len(next) :
             (got \o next)[i] = IF i <= Len(got) THEN got[i] ELSE next[i - Len(got)]
    BY <1>3, <2>2, ConcatProperties
  <2> QED BY <1>3, <2>1, <2>3
<1>5. FramesTypeOK'
  BY <1>0, <1>2, <1>4, <1>t DEF FramesTypeOK
<1>6. Contiguous' /\ NothingMissing'
  BY <1>0, <1>2, <1>t DEF Contiguous, NothingMissing, End
<1>7. Delivered'
  <2>1. Len(got) = buf.first - 1 /\ buf.first \in Nat /\ Len(got) \in Nat
    BY <1>t, Typed DEF Delivered
  <2>2. ASSUME NEW i \in 1..Len(got') PROVE got'[i] = i
    <3>0. i \in 1..Len(got) + n /\ i \in Nat /\ n \in Nat
      BY <1>2, <1>4, <2>1
    <3>1. CASE i <= Len(got)
      BY <1>4, <1>t, <3>0, <2>1, <3>1 DEF Delivered
    <3>2. CASE ~(i <= Len(got))
      <4>1. i - Len(got) \in 1..n
        BY <2>1, <3>0, <3>2
      <4>2. got'[i] = next[i - Len(got)]
        BY <1>4, <3>0, <3>2
      <4>3. next[i - Len(got)] = buf.first + (i - Len(got)) - 1
        BY <1>3, <4>1
      <4> QED BY <2>1, <3>0, <4>2, <4>3
    <3> QED BY <3>1, <3>2
  <2>3. Len(got') = buf'.first - 1 /\ buf'.first <= buf'.last + 1
    BY <1>2, <1>4, <2>1
  <2>4. buf'.last <= taken' - held'
        /\ (err' = "none" /\ wire' # <<>> => wire'[1].first = buf'.last + 1)
    BY <1>0, <1>2, <1>t DEF Delivered
  <2> QED BY <2>2, <2>3, <2>4 DEF Delivered
<1>8. EndsWhole'
  BY <1>0, <1>2, <1>t, Typed DEF EndsWhole
<1> QED BY <1>5, <1>6, <1>7, <1>8 DEF IInv

\* The next frame carries on where the buffer ends; the end of the stream is the
\* end of the file unless there was a fault.
LEMMA ReadChunkKeeps == FramesConstants /\ IInv /\ ReadChunk => IInv'
<1> SUFFICES ASSUME FramesConstants, IInv, ReadChunk PROVE IInv'
  OBVIOUS
<1>0. /\ UNCHANGED <<taken, held, writer, tail, got, damages>>
      /\ ~(Count(buf) > 0) /\ Count(buf) = 0 /\ err = "none"
  BY DEF ReadChunk
<1>t. FramesTypeOK /\ Contiguous /\ Delivered /\ NothingMissing /\ EndsWhole
  BY DEF IInv
<1>e. buf.first = buf.last + 1
  BY <1>0, <1>t, Typed DEF Count
<1>1. CASE wire # <<>> /\ wire' = Tail(wire)
  <2>1. wire \in Seq(FrameRecords) /\ wire # <<>> /\ Len(wire) \in Nat /\ Len(wire) > 0
    BY <1>t, <1>1, Typed
  <2>2. /\ wire' \in Seq(FrameRecords) /\ Len(wire') = Len(wire) - 1
        /\ \A i \in 1..Len(wire') : wire'[i] = wire[i + 1]
        /\ Head(wire) = wire[1]
    BY <1>1, <2>1, HeadTailProperties
  <2>3. wire' = <<>> <=> Len(wire) = 1
    BY <2>1, <2>2, EmptySeq
  <2>4. wire[1] \in FrameRecords
    BY <2>1
  <2>5. Contiguous'
    <3>1. ASSUME NEW i \in 1..Len(wire')
          PROVE  wire'[i].first <= wire'[i].last /\ wire'[i].last <= taken' - held'
      <4>1. i + 1 \in 1..Len(wire) /\ wire'[i] = wire[i + 1]
        BY <2>1, <2>2
      <4> QED BY <1>0, <1>t, <4>1 DEF Contiguous
    <3>2. ASSUME NEW i \in 1..Len(wire') - 1
          PROVE  wire'[i + 1].first = wire'[i].last + 1
      <4>1. /\ i + 1 \in 1..Len(wire) - 1 /\ wire'[i] = wire[i + 1]
            /\ wire'[i + 1] = wire[(i + 1) + 1]
        BY <2>1, <2>2
      <4> QED BY <1>t, <4>1 DEF Contiguous
    <3> QED BY <3>1, <3>2 DEF Contiguous
  <2>6. wire' # <<>> => wire'[1] = wire[2] /\ wire[2].first = wire[1].last + 1
    <3>1. wire' # <<>> => 1 \in 1..Len(wire') /\ 1 \in 1..Len(wire) - 1
      BY <2>1, <2>2, <2>3
    <3> QED BY <1>t, <2>2, <3>1 DEF Contiguous
  <2>7. /\ wire[1].first <= wire[1].last /\ wire[1].last <= taken - held
        /\ wire[1].first = buf.last + 1
    BY <1>0, <1>1, <1>t, <2>1 DEF Contiguous, Delivered
  <2>8. wire' # <<>> => wire'[Len(wire')] = wire[Len(wire)]
    <3>1. wire' # <<>> => Len(wire') \in 1..Len(wire') /\ Len(wire') + 1 = Len(wire)
      BY <2>1, <2>2, <2>3
    <3> QED BY <2>2, <3>1
  <2>9. damages = 0 => \A i \in 1..Len(wire') : wire'[i].intact
    <3>1. \A i \in 1..Len(wire') : i + 1 \in 1..Len(wire)
      BY <2>1, <2>2
    <3> QED BY <1>t, <2>2, <3>1 DEF EndsWhole
  <2>10. CASE buf' = Span(Head(wire).first, Head(wire).last) /\ UNCHANGED err
    <3>1. buf'.first = wire[1].first /\ buf'.last = wire[1].last
      BY <2>2, <2>10 DEF Span
    <3>2. FramesTypeOK'
      <4>1. wire[1].first \in 1..Size + 1 /\ wire[1].last \in 0..Size
        BY <1>t, <2>4, Typed DEF FrameRecords
      <4>2. buf' \in [first : 1..Size + 1, last : 0..Size]
        BY <2>2, <2>10, <4>1 DEF Span
      <4> QED BY <1>0, <1>t, <2>2, <2>10, <4>2 DEF FramesTypeOK, FrameRecords
    <3>3. Delivered'
      <4>1. buf'.first = buf.first
        BY <1>e, <2>7, <3>1
      <4>2. /\ buf'.first <= buf'.last + 1 /\ buf'.last <= taken' - held'
            /\ Len(got') = buf'.first - 1
        <5>1. Len(got') = buf'.first - 1
          BY <1>0, <1>t, <4>1 DEF Delivered
        <5>2. wire[1].first \in Int /\ wire[1].last \in Int
          BY <2>4 DEF FrameRecords
        <5> QED BY <1>0, <2>7, <3>1, <5>1, <5>2
      <4>3. \A i \in 1..Len(got') : got'[i] = i
        BY <1>0, <1>t DEF Delivered
      <4>4. err' = "none" /\ wire' # <<>> => wire'[1].first = buf'.last + 1
        BY <2>6, <3>1
      <4> QED BY <4>2, <4>3, <4>4 DEF Delivered
    <3>4. NothingMissing'
      <4>1. tail = "open" \/ damages = 0 => wire[Len(wire)].last = taken - held
        BY <1>1, <1>t DEF NothingMissing, End
      <4>2. wire' # <<>> => End' = wire[Len(wire)].last
        BY <2>8 DEF End
      <4>3. wire' = <<>> => End' = wire[Len(wire)].last
        BY <2>3, <3>1 DEF End
      <4> QED BY <1>0, <4>1, <4>2, <4>3 DEF NothingMissing
    <3>5. EndsWhole'
      BY <1>0, <1>t, <2>9, <2>10 DEF EndsWhole
    <3> QED BY <2>5, <3>2, <3>3, <3>4, <3>5 DEF IInv
  <2>11. CASE ~Head(wire).intact /\ err' = "broken" /\ UNCHANGED buf
    <3>1. damages # 0
      BY <1>t, <2>1, <2>2, <2>11 DEF EndsWhole
    <3>2. FramesTypeOK'
      BY <1>0, <1>t, <2>2, <2>11 DEF FramesTypeOK, FrameRecords
    <3>3. Delivered'
      BY <1>0, <1>t, <2>11 DEF Delivered
    <3>4. NothingMissing'
      <4>1. tail = "open" => wire[Len(wire)].last = taken - held
        BY <1>1, <1>t DEF NothingMissing, End
      <4> QED BY <1>0, <2>8, <2>11, <3>1, <4>1 DEF NothingMissing, End
    <3>5. EndsWhole'
      BY <1>0, <1>t, <2>11, <3>1 DEF EndsWhole
    <3> QED BY <2>5, <3>2, <3>3, <3>4, <3>5 DEF IInv
  <2> QED BY <1>1, <2>10, <2>11 DEF ReadChunk
<1>2. CASE /\ wire = <<>> /\ tail # "open" /\ UNCHANGED <<wire, buf>>
           /\ err' = IF tail = "end" THEN "eof" ELSE "broken"
  <2>1. FramesTypeOK' /\ Contiguous' /\ Delivered' /\ NothingMissing'
    BY <1>0, <1>2, <1>t DEF FramesTypeOK, Contiguous, Delivered, NothingMissing, End
  <2>2. damages = 0 => tail = "end" /\ writer = "closed" /\ taken = Size /\ held = 0
    BY <1>2, <1>t DEF EndsWhole, FramesTypeOK
  <2>3. damages = 0 => buf.first = Size + 1
    BY <1>0, <1>2, <1>e, <1>t, <2>2, Typed DEF NothingMissing, End
  <2>4. EndsWhole'
    BY <1>0, <1>2, <1>t, <2>2, <2>3 DEF EndsWhole
  <2> QED BY <2>1, <2>4 DEF IInv
<1> QED BY <1>1, <1>2 DEF ReadChunk

\* The steps of the writer that put nothing on the wire.
LEMMA WriterKeeps ==
  FramesConstants /\ IInv /\ (Write \/ EndStream \/ (CloseWriter /\ held = 0)) => IInv'
<1> SUFFICES ASSUME FramesConstants, IInv PROVE Write \/ EndStream \/ (CloseWriter /\ held = 0) => IInv'
  OBVIOUS
<1>t. FramesTypeOK /\ Contiguous /\ Delivered /\ NothingMissing /\ EndsWhole
  BY DEF IInv
<1>1. ASSUME Write PROVE IInv'
  <2>0. UNCHANGED <<writer, wire, tail, buf, err, got, damages>> /\ writer = "writing"
    BY <1>1 DEF Write
  <2>1. PICK n \in 1..ChunkSize - held : taken + n <= Size /\ taken' = taken + n /\ held' = held + n
    BY <1>1 DEF Write
  <2>2. ChunkSize \in Nat /\ held \in 0..ChunkSize /\ n \in Nat /\ n > 0
    BY <1>t, FramesConstants DEF FramesTypeOK, FramesConstants
  <2>3. taken' - held' = taken - held /\ taken' \in 0..Size /\ held' \in 0..ChunkSize
        /\ held' <= taken'
    BY <1>t, <2>1, <2>2, Typed
  <2>4. FramesTypeOK'
    BY <1>t, <2>0, <2>3 DEF FramesTypeOK
  <2>5. Contiguous' /\ Delivered' /\ NothingMissing'
    BY <1>t, <2>0, <2>3 DEF Contiguous, Delivered, NothingMissing, End
  <2>6. EndsWhole'
    BY <1>t, <2>0 DEF EndsWhole
  <2> QED BY <2>4, <2>5, <2>6 DEF IInv
<1>2. ASSUME EndStream PROVE IInv'
  <2>1. EndsWhole'
    BY <1>2, <1>t DEF EndStream, EndsWhole, FramesTypeOK
  <2> QED BY <1>2, <1>t, <2>1
          DEF EndStream, IInv, FramesTypeOK, Contiguous, Delivered, NothingMissing, End
<1>3. ASSUME CloseWriter, held = 0 PROVE IInv'
  <2>1. writer' = "closed" /\ UNCHANGED <<taken, held, wire, tail, buf, err, got, damages>>
        /\ taken = Size /\ writer = "writing"
    BY <1>3 DEF CloseWriter
  <2>2. EndsWhole'
    BY <1>3, <1>t, <2>1 DEF EndsWhole
  <2> QED BY <1>t, <2>1, <2>2 DEF IInv, FramesTypeOK, Contiguous, Delivered, NothingMissing, End
<1> QED BY <1>1, <1>2, <1>3

\* Every step keeps the invariant.
LEMMA FramesInductive == FramesConstants /\ IInv /\ [FramesNext]_framesVars => IInv'
<1> SUFFICES ASSUME FramesConstants, IInv, [FramesNext]_framesVars PROVE IInv'
  OBVIOUS
<1>t. FramesTypeOK /\ ChunkSize \in Nat \ {0} /\ held \in Nat
  BY Typed DEF IInv, FramesConstants
<1>1. CASE FlushFull
  BY <1>1, <1>t, FlushKeeps DEF FlushFull
<1>2. CASE CloseWriter
  BY <1>2, <1>t, FlushKeeps, WriterKeeps DEF CloseWriter
<1>3. CASE UNCHANGED framesVars
  BY <1>3 DEF framesVars, IInv, FramesTypeOK, Contiguous, Delivered, NothingMissing, EndsWhole, End
<1> QED BY <1>1, <1>2, <1>3, WriterKeeps, CutKeeps, AlterKeeps, ReadKeeps, ReadChunkKeeps
        DEF FramesNext

\* The reader of the encrypted stream hands out a prefix of what was written, and
\* without a fault the end it reports is the end of the file, whatever the size of
\* the file and of the chunks and however the two sides keep pace.
THEOREM StreamIsKept ==
  ASSUME FramesConstants PROVE FramesSpec => []StreamIsPrefix
<1>1. FramesInit => IInv
  <2> SUFFICES ASSUME FramesInit PROVE IInv
    OBVIOUS
  <2>1. FramesTypeOK
    BY FramesConstants DEF FramesInit, FramesTypeOK, FramesConstants, Span
  <2> QED BY <2>1, FramesConstants
          DEF FramesInit, IInv, Contiguous, Delivered, NothingMissing, EndsWhole, End, Span, FramesConstants
<1>2. IInv => StreamIsPrefix
  <2> SUFFICES ASSUME IInv PROVE StreamIsPrefix
    OBVIOUS
  <2>1. DOMAIN got = 1..Len(got)
    BY Typed DEF IInv
  <2>2. /\ buf.first <= buf.last + 1 /\ buf.last <= taken - held /\ Len(got) = buf.first - 1
        /\ err = "eof" /\ damages = 0 => buf.first = Size + 1
    BY DEF IInv, Delivered, EndsWhole
  <2>3. /\ buf.first \in Nat /\ buf.last \in Nat /\ taken \in Nat /\ held \in Nat
        /\ Size \in Nat
    BY Typed DEF IInv
  <2>4. Len(got) <= taken /\ (err = "eof" /\ damages = 0 => Len(got) = Size)
    BY <2>2, <2>3
  <2> QED BY <2>1, <2>4 DEF IInv, Delivered, StreamIsPrefix
<1>3. IInv /\ [FramesNext]_framesVars => IInv'
  BY FramesInductive
<1> QED BY <1>1, <1>2, <1>3, PTL DEF FramesSpec

=============================================================================
