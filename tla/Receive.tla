------------------------------ MODULE Receive -------------------------------
(***************************************************************************)
(* A fetch as its caller sees it: ReceiveSession, receive, tryFetchViaRead *)
(* and forwardProgress of pkg/lantern/lantern.go, with RegisterReceive and *)
(* the outline of receiveFile and FetchFS of internal/p2p/transfer.go      *)
(* (Download has their insides).                                           *)
(*                                                                         *)
(* The caller's goroutine finds the sender and asks whether it serves the  *)
(* code over the read path.  If it does, a second goroutine pulls the file *)
(* while the first waits; if it does not, the transfer protocol pulls it   *)
(* after the caller has its session.  Whichever pulls reports to one       *)
(* progress channel, a forwarder makes events of the reports, and a        *)
(* terminal event ends every session of that code and cancels its context. *)
(* Several fetches run at once, of one code too.                           *)
(*                                                                         *)
(* Abstractions.                                                           *)
(*   - A body is Chunks reads long; all fetches use one output directory.  *)
(*   - A code stands for one file name.                                    *)
(*   - Whether the sender is found, serves the code over the read path and *)
(*     answers in time is the environment's choice.  The rendezvous file   *)
(*     Discover may consume is the fetching device's own and is left out.  *)
(***************************************************************************)
EXTENDS Integers, Sequences

CONSTANTS
  MaxFetches, \* bound: calls of ReceiveSession
  Codes,     \* share codes
  CodeOf,    \* CodeOf[f]: the code of the f-th call
  Chunks,    \* reads per body
  Buffer,    \* capacity of the progress channel
  MaxFaults  \* bound: reads and calls that fail

Fetches == 1..MaxFetches

\* What a run of this module presupposes.
ReceiveConstants ==
  /\ MaxFetches \in Nat
  /\ CodeOf \in [Fetches -> Codes]
  /\ Chunks \in Nat \ {0} /\ Buffer \in Nat \ {0} /\ MaxFaults \in Nat

VARIABLES
  call,      \* call[f]: the caller's goroutine
  pull,      \* pull[f]: the goroutine that pulls the file
  sess,      \* sess[f]: Session.state, "none" before it is created
  alive,     \* the fetches whose session context is not cancelled
  progress,  \* progress[f]: the reports queued for the forwarder
  closed,    \* the fetches whose progress channel is closed
  fwd,       \* fwd[f]: forwardProgress
  claims,    \* Node.downloads
  file,      \* the codes whose file name is taken in the output directory
  saved,     \* history: the fetches that published their file
  uncleared, \* history: those of them that could not clear up behind it
  panicked,  \* a send on, or a close of, a closed channel
  stalled,   \* the fetches whose sender neither goes on nor hangs up
  faults

session == <<sess, alive>>
channel == <<progress, closed, panicked>>
disk == <<claims, file, saved, uncleared>>
world == <<stalled, faults>>
vars == <<call, pull, session, channel, fwd, disk, world>>

Ended == {"done", "failed", "canceled"}
Routes == {"read", "share"}
PullSteps == {"idle", "asked", "running", "landed", "leaving", "telling", "closing", "over"}

Pull == [step : PullSteps, route : Routes, sent : 0..Chunks, ok : BOOLEAN]

TypeOK ==
  /\ call \in [Fetches -> {"idle", "discover", "resolve", "wait", "decide", "returned", "refused"}]
  /\ pull \in [Fetches -> Pull]
  /\ sess \in [Fetches -> Ended \cup {"none", "running"}]
  /\ alive \subseteq Fetches /\ closed \subseteq Fetches
  /\ progress \in [Fetches -> Seq({"progress", "done", "error"})]
  /\ \A f \in Fetches : Len(progress[f]) <= Buffer
  /\ fwd \in [Fetches -> {"none", "run", "ended"}]
  /\ claims \subseteq Routes \X Codes
  /\ file \subseteq Codes /\ saved \subseteq Fetches /\ uncleared \subseteq Fetches
  /\ panicked \in BOOLEAN /\ stalled \subseteq Fetches /\ faults \in 0..MaxFaults

Init ==
  /\ call = [f \in Fetches |-> "idle"]
  /\ pull = [f \in Fetches |-> [step |-> "idle", route |-> "read", sent |-> 0, ok |-> FALSE]]
  /\ sess = [f \in Fetches |-> "none"]
  /\ alive = {} /\ closed = {} /\ claims = {} /\ file \in SUBSET Codes
  /\ saved = {} /\ uncleared = {}
  /\ progress = [f \in Fetches |-> <<>>]
  /\ fwd = [f \in Fetches |-> "none"]
  /\ panicked = FALSE /\ stalled = {} /\ faults = 0

-----------------------------------------------------------------------------
(* The channel, and the session *)

Close(f) ==
  /\ closed' = closed \cup {f}
  /\ panicked' = (panicked \/ f \in closed)
  /\ UNCHANGED progress

\* Mutant of Report: it waits for room, whoever is still reading.
ReportBlocking(f, msg) ==
  /\ f \in closed \/ Len(progress[f]) < Buffer
  /\ IF f \in closed THEN panicked' = TRUE /\ UNCHANGED progress
     ELSE progress' = [progress EXCEPT ![f] = Append(@, msg)] /\ UNCHANGED panicked
  /\ UNCHANGED closed

\* reportProgress: a send, given up when the context is cancelled.
Report(f, msg) ==
  /\ \/ /\ f \in closed
        /\ panicked' = TRUE /\ UNCHANGED progress
     \/ /\ f \notin closed /\ Len(progress[f]) < Buffer
        /\ progress' = [progress EXCEPT ![f] = Append(@, msg)]
        /\ UNCHANGED panicked
     \/ f \notin alive /\ UNCHANGED <<progress, panicked>>
  /\ UNCHANGED closed

\* The report of a chunk was given up.
Dropped(f) == progress' = progress /\ panicked' = panicked

\* Session.finish, for the sessions in F; the first ending wins.
Finish(F, st) ==
  /\ sess' = [f \in Fetches |-> IF f \in F /\ sess[f] = "running" THEN st ELSE sess[f]]
  /\ alive' = alive \ F

\* The caller's own context, the parent of the session's, is cancelled.
CancelParent(f) ==
  /\ f \in alive /\ alive' = alive \ {f}
  /\ UNCHANGED <<call, pull, sess, channel, fwd, disk, world>>

\* The function registered on the session's context.
AfterCancel(f) ==
  /\ sess[f] = "running" /\ f \notin alive
  /\ Finish({f}, "canceled")
  /\ UNCHANGED <<call, pull, channel, fwd, disk, world>>

\* Session.Close.
CloseSession(f) ==
  /\ call[f] = "returned" /\ sess[f] = "running"
  /\ Finish({f}, "canceled")
  /\ UNCHANGED <<call, pull, channel, fwd, disk, world>>

-----------------------------------------------------------------------------
(* The caller's goroutine *)

Goto(f, step) == call' = [call EXCEPT ![f] = step]

\* ReceiveSession with a valid code; fetches are numbered in the order they start.
Start(f) ==
  /\ call[f] = "idle" /\ \A g \in Fetches : g < f => call[g] # "idle"
  /\ Goto(f, "discover")
  /\ sess' = [sess EXCEPT ![f] = "running"]
  /\ alive' = alive \cup {f}
  /\ UNCHANGED <<pull, channel, fwd, disk, world>>

Found(f) ==
  /\ call[f] = "discover" /\ f \in alive
  /\ Goto(f, "resolve")
  /\ fwd' = [fwd EXCEPT ![f] = "run"]
  /\ UNCHANGED <<pull, session, channel, disk, world>>

\* Nobody is found before the lookup times out or is cancelled.
NotFound(f) ==
  /\ call[f] = "discover"
  /\ Goto(f, "refused")
  /\ Finish({f}, "canceled")
  /\ UNCHANGED <<pull, channel, fwd, disk, world>>

Resolve(f) ==
  /\ call[f] = "resolve"
  /\ \/ /\ f \in alive
        /\ Goto(f, "wait")
        /\ pull' = [pull EXCEPT ![f].step = "asked", ![f].route = "read"]
     \/ Goto(f, "decide") /\ UNCHANGED pull
  /\ UNCHANGED <<session, channel, fwd, disk, world>>

\* receive closes the channel; an error closes the session too.
Return(f, ok) ==
  /\ Close(f)
  /\ IF ok THEN Goto(f, "returned") /\ UNCHANGED session
     ELSE Goto(f, "refused") /\ Finish({f}, "canceled")

\* Mutant of Await: a cancelled context is an answer too.
AwaitOrCancelled(f) ==
  /\ call[f] = "wait"
  /\ \/ pull[f].step = "over" /\ Return(f, pull[f].ok)
     \/ f \notin alive /\ Return(f, FALSE)
  /\ UNCHANGED <<pull, fwd, disk, world>>

\* The caller waits for the fetch and for nothing else; a read path that was
\* started has the last word.
Await(f) ==
  /\ call[f] = "wait" /\ pull[f].step = "over"
  /\ Return(f, pull[f].ok)
  /\ UNCHANGED <<pull, fwd, disk, world>>

\* The caller went away before it was decided.
GiveUp(f) ==
  /\ call[f] = "decide" /\ f \notin alive
  /\ Return(f, FALSE)
  /\ UNCHANGED <<pull, fwd, disk, world>>

\* Mutant of HandOver: the channel is closed on every way out of receive.
HandOverClosed(f) ==
  /\ call[f] = "decide" /\ f \in alive
  /\ Close(f)
  /\ pull' = [pull EXCEPT ![f] = [step |-> "asked", route |-> "share", sent |-> 0, ok |-> FALSE]]
  /\ Goto(f, "returned")
  /\ UNCHANGED <<session, fwd, disk, world>>

\* RegisterReceive, which owns the channel from here on.
HandOver(f) ==
  /\ call[f] = "decide" /\ f \in alive
  /\ pull' = [pull EXCEPT ![f] = [step |-> "asked", route |-> "share", sent |-> 0, ok |-> FALSE]]
  /\ Goto(f, "returned")
  /\ UNCHANGED <<session, channel, fwd, disk, world>>

-----------------------------------------------------------------------------
(* The goroutine that pulls: FetchFS or receiveFile *)

KeyOf(f) == <<pull[f].route, CodeOf[f]>>
PullGoto(f, step) == pull' = [pull EXCEPT ![f].step = step]
Fault == faults < MaxFaults /\ faults' = faults + 1 /\ UNCHANGED stalled

\* The claim, and the destination that has to be free.
Begin(f) ==
  /\ pull[f].step = "asked"
  /\ KeyOf(f) \notin claims
  /\ claims' = claims \cup {KeyOf(f)}
  /\ PullGoto(f, IF CodeOf[f] \in file THEN "leaving" ELSE "running")
  /\ UNCHANGED <<call, session, channel, fwd, file, saved, uncleared, world>>

\* Another download holds the claim, or the sender no longer answers as it did:
\* there is no claim to release.
Refused(f) ==
  /\ pull[f].step = "asked"
  /\ \/ (KeyOf(f) \in claims \/ f \notin alive) /\ UNCHANGED world
     \/ Fault
  /\ PullGoto(f, IF pull[f].route = "read" THEN "over" ELSE "telling")
  /\ UNCHANGED <<call, session, channel, fwd, disk>>

\* A pull by the transfer protocol is in a read that nothing ends: it has no
\* deadline, and the context is looked at between two reads only.
Stall(f) ==
  /\ pull[f].step = "running" /\ pull[f].route = "share" /\ pull[f].sent < Chunks
  /\ f \notin stalled /\ stalled' = stalled \cup {f}
  /\ UNCHANGED <<call, pull, session, channel, fwd, disk, faults>>

\* A chunk is read, written and reported; a report given up ends the pull.
Chunk(f) ==
  /\ pull[f].step = "running" /\ pull[f].sent < Chunks /\ f \notin stalled
  /\ Report(f, "progress")
  /\ IF Dropped(f) THEN PullGoto(f, "leaving") ELSE pull' = [pull EXCEPT ![f].sent = @ + 1]
  /\ UNCHANGED <<call, session, fwd, disk, world>>

\* Mutant of Breaks: a body that ends early is a whole one.
BreaksUnnoticed(f) ==
  /\ pull[f].step = "running" /\ f \notin stalled
  /\ \/ f \notin alive /\ UNCHANGED world
     \/ Fault
  /\ PullGoto(f, "landed")
  /\ UNCHANGED <<call, session, channel, fwd, disk>>

\* The context is seen to be cancelled, a read fails, or the content is wrong.
Breaks(f) ==
  /\ pull[f].step = "running" /\ f \notin stalled
  /\ \/ f \notin alive /\ UNCHANGED world
     \/ Fault
  /\ PullGoto(f, "leaving")
  /\ UNCHANGED <<call, session, channel, fwd, disk>>

\* publishIfAbsent.
Publish(f) ==
  /\ pull[f].step = "running" /\ pull[f].sent = Chunks
  /\ IF CodeOf[f] \in file
     THEN PullGoto(f, "leaving") /\ UNCHANGED <<file, saved>>
     ELSE /\ PullGoto(f, "landed")
          /\ file' = file \cup {CodeOf[f]}
          /\ saved' = saved \cup {f}
  /\ UNCHANGED <<call, session, channel, fwd, claims, uncleared, world>>

\* The checkpoint is removed and the completion reported, to whoever listens.
ReportDone(f) ==
  /\ pull[f].step = "landed"
  /\ Report(f, "done")
  /\ pull' = [pull EXCEPT ![f].step = "leaving", ![f].ok = TRUE]
  /\ UNCHANGED <<call, session, fwd, disk, world>>

\* The other name of the file or the checkpoint cannot be removed, which is an
\* error although the file is there.
ClearFails(f) ==
  /\ pull[f].step = "landed" /\ Fault
  /\ uncleared' = uncleared \cup {f}
  /\ PullGoto(f, "leaving")
  /\ UNCHANGED <<call, session, channel, fwd, claims, file, saved>>

\* The deferred release; FetchFS is then over, RegisterReceive has more to do.
Release(f) ==
  /\ pull[f].step = "leaving"
  /\ claims' = claims \ {KeyOf(f)}
  /\ pull' = [pull EXCEPT ![f].sent = 0,
       ![f].step = IF pull[f].route = "read" THEN "over" ELSE IF pull[f].ok THEN "closing" ELSE "telling"]
  /\ UNCHANGED <<call, session, channel, fwd, file, saved, uncleared, world>>

TellError(f) ==
  /\ pull[f].step = "telling"
  /\ Report(f, "error")
  /\ PullGoto(f, "closing")
  /\ UNCHANGED <<call, session, fwd, disk, world>>

CloseProgress(f) ==
  /\ pull[f].step = "closing"
  /\ Close(f)
  /\ PullGoto(f, "over")
  /\ UNCHANGED <<call, session, fwd, disk, world>>

-----------------------------------------------------------------------------
(* forwardProgress *)

\* emitProgress: an ending ends every session of the code, not only this one.
Forward(f) ==
  /\ fwd[f] = "run" /\ progress[f] # <<>>
  /\ progress' = [progress EXCEPT ![f] = Tail(@)]
  /\ LET e == Head(progress[f])
         same == {g \in Fetches : CodeOf[g] = CodeOf[f] /\ sess[g] = "running"} IN
     CASE e = "done" -> Finish(same, "done")
       [] e = "error" -> Finish(same, "failed")
       [] OTHER -> UNCHANGED session
  /\ UNCHANGED <<call, pull, closed, panicked, fwd, disk, world>>

\* The channel is closed, or the context cancelled; either way what is queued
\* is drained first.
ForwarderEnds(f) ==
  /\ fwd[f] = "run" /\ progress[f] = <<>>
  /\ f \in closed \/ f \notin alive
  /\ fwd' = [fwd EXCEPT ![f] = "ended"]
  /\ UNCHANGED <<call, pull, session, channel, disk, world>>

-----------------------------------------------------------------------------

Caller(f) ==
  Found(f) \/ NotFound(f) \/ Resolve(f) \/ Await(f) \/ GiveUp(f) \/ HandOver(f)

Puller(f) ==
  \/ Begin(f) \/ Refused(f) \/ Chunk(f) \/ Breaks(f) \/ Publish(f) \/ ReportDone(f)
  \/ ClearFails(f) \/ Release(f) \/ TellError(f) \/ CloseProgress(f)

Forwarder(f) == Forward(f) \/ ForwarderEnds(f)

Next ==
  \E f \in Fetches : \/ Start(f) \/ Caller(f) \/ Puller(f) \/ Stall(f) \/ Forwarder(f)
                     \/ CancelParent(f) \/ AfterCancel(f) \/ CloseSession(f)

Spec == Init /\ [][Next]_vars

\* What the goroutines of a fetch do of their own accord.
Works(f) == Caller(f) \/ Puller(f) \/ Forwarder(f) \/ AfterCancel(f)

\* Goroutines run, and lookups, resolutions and reads of the read path have
\* deadlines.  A read of the transfer protocol has none: it ends unless it stalls.
FairSpec == Spec /\ \A f \in Fetches : WF_vars(Works(f))

-----------------------------------------------------------------------------
(* Properties *)

\* The progress channel has one owner on every way through receive: nothing is
\* sent on it, and it is not closed again, once it is closed.
NeverPanics == ~panicked

\* A caller that is given an error has no file saved behind its back, although
\* the end of the fetch cancels the context the caller waits under: unless the
\* file was saved and what was left of the download could not be removed, which
\* the code reports as a failure of the fetch.
SavedIsReported ==
  \A f \in Fetches : call[f] = "refused" /\ f \in saved => f \in uncleared

\* A session says done only if a fetch of its code has published the file, and
\* failed only if one has failed on the transfer protocol.
OutcomeIsTrue ==
  \A f \in Fetches :
    LET same == {g \in Fetches : CodeOf[g] = CodeOf[f]} IN
    /\ sess[f] = "done" => same \cap saved # {}
    /\ sess[f] = "failed" => \E g \in same : pull[g].route = "share" /\ ~pull[g].ok

\* A session that was handed out ends once its fetch is over, whichever route it
\* took and whoever cancels what.  A fetch whose session has ended leaves nothing
\* running: its forwarder ends, and so does what pulls, which never stays on a
\* full channel with its claim, its file and its stream.  One thing keeps a pull
\* after its session: a sender that stalls in a transfer, which no cancellation
\* reaches.
FetchesEnd ==
  \A f \in Fetches :
    /\ call[f] = "returned" /\ pull[f].step = "over" ~> sess[f] \in Ended
    /\ sess[f] \in Ended ~> fwd[f] \in {"none", "ended"}
    /\ sess[f] \in Ended ~> pull[f].step \in {"idle", "over"} \/ f \in stalled

=============================================================================
