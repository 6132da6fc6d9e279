----------------------------- MODULE Transfers ------------------------------
(***************************************************************************)
(* The transfers a daemon tracks: the events of pkg/lantern/lantern.go     *)
(* (emit, newSession, Session.finish), the records, the watchers and the   *)
(* event stream of internal/daemon (Share, Fetch, Cancel, watch,           *)
(* broadcast, getEvents), and the commands that follow a transfer through  *)
(* it (runDaemonTransfer of cmd/lantern/main.go).                          *)
(*                                                                         *)
(* A transfer here is one attempt, a call of Share or Fetch.  Everything    *)
(* names it by its code: the events, the map of records, the stream and    *)
(* the commands.  A share has a code of its own; a code may be fetched     *)
(* again at any time, and the new attempt's record takes the place of the  *)
(* one before, whose watcher and callers of Cancel may still be at work.   *)
(*                                                                         *)
(* Every session subscribes to the events of the one Lantern.  A terminal  *)
(* event of its code ends the session; a watcher reads the subscription    *)
(* and keeps the code's record and the history; what it learns is          *)
(* broadcast to the clients of the event stream, each behind a bounded     *)
(* buffer.  Cancel works on the record and the session in several steps,   *)
(* called by a client or by the TTL timer of a share.  A client that       *)
(* follows a transfer looks at its record once, then reads the stream, and *)
(* polls the record when the stream drops.                                 *)
(*                                                                         *)
(* Abstractions.                                                           *)
(*   - The transfer itself is the environment: it reports progress and     *)
(*     then at most one ending.                                            *)
(*   - Events that change no record (peer found, peer connected) are left  *)
(*     out, and the byte counts of those that do.                          *)
(***************************************************************************)
EXTENDS Integers, Sequences

CONSTANTS
  Transfers,      \* calls of Share and Fetch
  Codes,          \* share codes: what sessions, events, records and commands are named by
  CodeOf,         \* CodeOf[t]: the code t shares or fetches
  Timed,          \* the shares with a TTL
  Clients,        \* commands that follow a transfer
  SessionBuffer,  \* sessionBufferSize
  ClientBuffer,   \* the buffer of a subscriber
  MaxHistory,     \* maxHistory
  MaxProgress     \* bound: progress reports per transfer

SameCode(s, t) == CodeOf[s] = CodeOf[t]

\* Who calls Cancel.
Callers == {"user", "timer"}

\* What a run of this module presupposes.  ShareSession generates the code of a share.
TransfersConstants ==
  /\ CodeOf \in [Transfers -> Codes]
  /\ Timed \subseteq Transfers /\ \A t \in Timed, s \in Transfers : SameCode(s, t) => s = t
  /\ SessionBuffer \in Nat \ {0} /\ ClientBuffer \in Nat \ {0}
  /\ MaxHistory \in Nat /\ MaxProgress \in Nat

VARIABLES
  session,  \* session[t]: Session.state, "none" before it is created
  subs,     \* the sessions subscribed to the Lantern
  events,   \* events[t]: the subscription's channel
  reports,  \* reports[t]: progress reported by the transfer
  outcome,  \* outcome[t]: the ending the transfer itself came to
  record,   \* record[t]: State of the Record made for t, "none" before it is made
  records,  \* the attempts whose Record is in Daemon.records, at most one of a code
  armed,    \* the records whose ttlTimer runs
  watch,    \* watch[t]: the watcher
  cancel,   \* cancel[t][a]: the call of Cancel by a that looked up the Record of t
  history,  \* Daemon.history
  client,   \* client[k]: where the command is, which code it follows, what it was told
  queue     \* queue[k]: what the stream of client k holds

lanternVars == <<session, subs, events, reports, outcome>>
daemonVars == <<record, records, armed, history>>
clientVars == <<client, queue>>
vars == <<lanternVars, daemonVars, clientVars, watch, cancel>>

States == {"none", "running", "done", "failed", "canceled"}
Ended == {"done", "failed", "canceled"}
Endings == {"done", "error", "cancelled"}
Event == [id : Codes, type : Endings \cup {"progress"}]

TypeOK ==
  /\ session \in [Transfers -> States] /\ record \in [Transfers -> States]
  /\ subs \subseteq Transfers /\ records \subseteq Transfers /\ armed \subseteq Timed
  /\ events \in [Transfers -> Seq(Event)]
  /\ \A t \in Transfers : Len(events[t]) <= SessionBuffer
  /\ reports \in [Transfers -> 0..MaxProgress]
  /\ outcome \in [Transfers -> {"none", "done", "error"}]
  /\ watch \in [Transfers -> [step : {"none", "loop", "tell", "ended"},
                              say : Endings \cup {"progress"}]]
  /\ cancel \in [Transfers -> [Callers -> {"idle", "close", "mark", "tell", "over"}]]
  /\ history \in Seq([of : Transfers, state : Ended]) /\ Len(history) <= MaxHistory
  /\ queue \in [Clients -> Seq(Event)]
  /\ \A k \in Clients : Len(queue[k]) <= ClientBuffer
  /\ client \in [Clients -> [step : {"idle", "opening", "stream", "polling", "told", "gone"},
                              of : Codes, told : States]]

NotWatched == [step |-> "none", say |-> "progress"]

Init ==
  /\ session = [t \in Transfers |-> "none"] /\ record = session
  /\ subs = {} /\ records = {} /\ armed = {}
  /\ events = [t \in Transfers |-> <<>>]
  /\ reports = [t \in Transfers |-> 0]
  /\ outcome = [t \in Transfers |-> "none"]
  /\ watch = [t \in Transfers |-> NotWatched]
  /\ cancel = [t \in Transfers |-> [a \in Callers |-> "idle"]]
  /\ history = <<>>
  /\ queue = [k \in Clients |-> <<>>]
  /\ \E c \in Codes :
       client = [k \in Clients |-> [step |-> "idle", of |-> c, told |-> "none"]]

-----------------------------------------------------------------------------
(* Events *)

\* Mutant of Offer: nothing is exempt from the drop rule.
OfferOrDrop(q, e, size) == IF Len(q) < size THEN Append(q, e) ELSE q

\* A send that never blocks: when the buffer is full a progress event is
\* dropped, and a terminal one takes the place of the oldest.
Offer(q, e, size) ==
  IF Len(q) < size THEN Append(q, e)
  ELSE IF e.type \in Endings THEN Append(Tail(q), e)
  ELSE q

\* Session.finish: the first ending wins.  The unsubscription runs on a
\* goroutine of its own.
Finish(ts, st) ==
  session' = [t \in Transfers |->
                IF t \in ts /\ session[t] = "running" THEN st ELSE session[t]]

\* emit: every subscription gets the event, whichever session it is of, and the
\* terminal callback of each session of its code runs.
Emit(e) ==
  /\ events' = [t \in Transfers |->
                  IF t \in subs THEN Offer(events[t], e, SessionBuffer) ELSE events[t]]
  /\ IF e.type \in Endings
     THEN Finish({t \in subs : CodeOf[t] = e.id}, IF e.type = "done" THEN "done" ELSE "failed")
     ELSE UNCHANGED session

\* The transfer reports, while its forwarder runs or drains.
Progress(t) ==
  /\ session[t] # "none" /\ outcome[t] = "none" /\ reports[t] < MaxProgress
  /\ reports' = [reports EXCEPT ![t] = @ + 1]
  /\ Emit([id |-> CodeOf[t], type |-> "progress"])
  /\ UNCHANGED <<subs, outcome, daemonVars, clientVars, watch, cancel>>

EndTransfer(t, type) ==
  /\ session[t] # "none" /\ outcome[t] = "none"
  /\ outcome' = [outcome EXCEPT ![t] = type]
  /\ Emit([id |-> CodeOf[t], type |-> type])
  /\ UNCHANGED <<subs, reports, daemonVars, clientVars, watch, cancel>>

\* The unsubscription of a finished session; it closes the channel.
Unsubscribe(t) ==
  /\ session[t] \in Ended /\ t \in subs
  /\ subs' = subs \ {t}
  /\ UNCHANGED <<session, events, reports, outcome, daemonVars, clientVars, watch, cancel>>

-----------------------------------------------------------------------------
(* Starting a transfer *)

\* ShareSession or ReceiveSession; the transfer may end before they return.
OpenSession(t) ==
  /\ session[t] = "none"
  /\ session' = [session EXCEPT ![t] = "running"]
  /\ subs' = subs \cup {t}
  /\ UNCHANGED <<events, reports, outcome, daemonVars, clientVars, watch, cancel>>

\* They return an error: the session is closed and no record is made.
OpenFails(t) ==
  /\ session[t] # "none" /\ record[t] = "none" /\ watch[t].step = "none"
  /\ Finish({t}, "canceled")
  /\ watch' = [watch EXCEPT ![t].step = "ended"]
  /\ UNCHANGED <<subs, events, reports, outcome, daemonVars, clientVars, cancel>>

\* The record, which replaces the one the code had, the timer of a share with a
\* TTL, and the watcher.
AddRecord(t) ==
  /\ session[t] # "none" /\ record[t] = "none" /\ watch[t].step = "none"
  /\ record' = [record EXCEPT ![t] = "running"]
  /\ records' = {s \in records : ~SameCode(s, t)} \cup {t}
  /\ armed' = armed \cup ({t} \cap Timed)
  /\ watch' = [watch EXCEPT ![t].step = "loop"]
  /\ UNCHANGED <<lanternVars, history, clientVars, cancel>>

-----------------------------------------------------------------------------
(* broadcast, and the clients *)

Broadcast(e) ==
  queue' = [k \in Clients |->
              IF client[k].step = "stream" THEN Offer(queue[k], e, ClientBuffer) ELSE queue[k]]

\* What a frame of the stream means for the command.
Meaning(type) ==
  CASE type = "done" -> "done" [] type = "error" -> "failed" [] type = "cancelled" -> "canceled"

Tell(k, st) == client' = [client EXCEPT ![k].step = "told", ![k].told = st]

\* The command was given the record when it started the transfer; it looks at the
\* code's once more before it opens the stream.
Follow(k, t) ==
  /\ client[k].step = "idle" /\ t \in records
  /\ client' = [client EXCEPT ![k] =
                  IF record[t] \in Ended THEN [step |-> "told", of |-> CodeOf[t], told |-> record[t]]
                  ELSE [step |-> "opening", of |-> CodeOf[t], told |-> "none"]]
  /\ UNCHANGED <<lanternVars, daemonVars, watch, cancel, queue>>

\* The daemon has answered the request, and only then subscribes it.
Subscribe(k) ==
  /\ client[k].step = "opening"
  /\ client' = [client EXCEPT ![k].step = "stream"]
  /\ UNCHANGED <<lanternVars, daemonVars, watch, cancel, queue>>

\* A frame about another code is skipped; one that ends this one is the answer.
Read(k) ==
  LET e == Head(queue[k]) IN
  /\ client[k].step = "stream" /\ queue[k] # <<>>
  /\ queue' = [queue EXCEPT ![k] = Tail(@)]
  /\ IF e.id = client[k].of /\ e.type \in Endings THEN Tell(k, Meaning(e.type)) ELSE UNCHANGED client
  /\ UNCHANGED <<lanternVars, daemonVars, watch, cancel>>

\* The stream is not opened, or closes before it told the ending.
StreamDrops(k) ==
  /\ client[k].step \in {"opening", "stream"}
  /\ client' = [client EXCEPT ![k].step = "polling"]
  /\ queue' = [queue EXCEPT ![k] = <<>>]
  /\ UNCHANGED <<lanternVars, daemonVars, watch, cancel>>

\* Mutant of Poll: what did not succeed is reported as cancelled.
PollBlurs(k) ==
  /\ client[k].step = "polling"
  /\ \E r \in records :
       /\ CodeOf[r] = client[k].of /\ record[r] \in Ended
       /\ Tell(k, IF record[r] = "done" THEN "done" ELSE "canceled")
  /\ UNCHANGED <<lanternVars, daemonVars, watch, cancel, queue>>

\* A tick of the poller, once the code's record has ended; earlier ones change nothing.
Poll(k) ==
  /\ client[k].step = "polling"
  /\ \E r \in records : CodeOf[r] = client[k].of /\ record[r] \in Ended /\ Tell(k, record[r])
  /\ UNCHANGED <<lanternVars, daemonVars, watch, cancel, queue>>

\* The user interrupts the command; the transfer is the daemon's and goes on.
Interrupt(k) ==
  /\ client[k].step \in {"opening", "stream", "polling"}
  /\ client' = [client EXCEPT ![k].step = "gone"]
  /\ queue' = [queue EXCEPT ![k] = <<>>]
  /\ UNCHANGED <<lanternVars, daemonVars, watch, cancel>>

-----------------------------------------------------------------------------
(* watch *)

\* pushHistoryLocked keeps the most recent.
Remember(t, st) ==
  LET h == Append(history, [of |-> t, state |-> st])
  IN  history' = IF Len(h) > MaxHistory THEN Tail(h) ELSE h

\* A record ends, and with it its timer; the history gets a copy of it.
Settle(r, st) ==
  /\ record' = [record EXCEPT ![r] = st]
  /\ armed' = armed \ {r}
  /\ Remember(r, st)
  /\ UNCHANGED records

\* Mutant of WatchEvent: an error ends the watcher and leaves the record.
WatchKeepsRunning(t) ==
  LET e == Head(events[t]) IN
  /\ watch[t].step = "loop" /\ events[t] # <<>>
  /\ events' = [events EXCEPT ![t] = Tail(@)]
  /\ watch' = [watch EXCEPT ![t] = [step |-> "tell", say |-> e.type]]
  /\ IF e.type = "done"
     THEN \E r \in records : SameCode(r, t) /\ Settle(r, "done")
     ELSE UNCHANGED daemonVars
  /\ UNCHANGED <<session, subs, reports, outcome, clientVars, cancel>>

\* An event of the subscription, whichever session it is of, is applied to the
\* record this watcher's code has now.
WatchEvent(t) ==
  LET e == Head(events[t]) IN
  /\ watch[t].step = "loop" /\ events[t] # <<>>
  /\ events' = [events EXCEPT ![t] = Tail(@)]
  /\ watch' = [watch EXCEPT ![t] = [step |-> "tell", say |-> e.type]]
  /\ IF e.type \in Endings
     THEN \E r \in records :
            SameCode(r, t) /\ Settle(r, IF e.type = "done" THEN "done" ELSE "failed")
     ELSE UNCHANGED daemonVars
  /\ UNCHANGED <<session, subs, reports, outcome, clientVars, cancel>>

\* The channel is closed and no ending came: the transfer was cancelled, by
\* Cancel, which told the clients, or in some other way.
WatchClosed(t) ==
  /\ watch[t].step = "loop" /\ events[t] = <<>> /\ t \notin subs
  /\ \E r \in records :
       /\ SameCode(r, t)
       /\ \/ /\ record[r] = "running"
             /\ record' = [record EXCEPT ![r] = "canceled"]
             /\ watch' = [watch EXCEPT ![t] = [step |-> "tell", say |-> "cancelled"]]
          \/ /\ record[r] # "running"
             /\ watch' = [watch EXCEPT ![t].step = "ended"]
             /\ UNCHANGED record
       /\ Remember(r, record'[r])
  /\ UNCHANGED <<lanternVars, records, armed, clientVars, cancel>>

\* The broadcast comes after the lock is released.
WatchTells(t) ==
  /\ watch[t].step = "tell"
  /\ Broadcast([id |-> CodeOf[t], type |-> watch[t].say])
  /\ watch' = [watch EXCEPT ![t].step = IF watch[t].say \in Endings THEN "ended" ELSE "loop"]
  /\ UNCHANGED <<lanternVars, daemonVars, client, cancel>>

-----------------------------------------------------------------------------
(* Cancel *)

CancelGoto(t, a, step) == cancel' = [cancel EXCEPT ![t][a] = step]

\* A client calls it, or the timer of a share fires.  The Record the code has is
\* looked up once; every later step is about that one.
CancelStarts(t, a) ==
  /\ cancel[t][a] = "idle" /\ t \in records
  /\ a = "timer" => t \in armed
  /\ a = "user" => record[t] = "running"
  /\ armed' = armed \ {t}
  /\ CancelGoto(t, a, IF record[t] = "running" THEN "close" ELSE "over")
  /\ UNCHANGED <<lanternVars, record, records, history, clientVars, watch>>

CancelCloses(t, a) ==
  /\ cancel[t][a] = "close"
  /\ Finish({t}, "canceled")
  /\ CancelGoto(t, a, "mark")
  /\ UNCHANGED <<subs, events, reports, outcome, daemonVars, clientVars, watch>>

\* Mutant of CancelMarks: the record is not looked at again.
CancelOverwrites(t, a) ==
  /\ cancel[t][a] = "mark"
  /\ record' = [record EXCEPT ![t] = "canceled"]
  /\ CancelGoto(t, a, "tell")
  /\ UNCHANGED <<lanternVars, records, armed, history, clientVars, watch>>

CancelMarks(t, a) ==
  /\ cancel[t][a] = "mark"
  /\ record' = IF record[t] = "running" THEN [record EXCEPT ![t] = "canceled"] ELSE record
  /\ CancelGoto(t, a, "tell")
  /\ UNCHANGED <<lanternVars, records, armed, history, clientVars, watch>>

CancelTells(t, a) ==
  /\ cancel[t][a] = "tell"
  /\ Broadcast([id |-> CodeOf[t], type |-> "cancelled"])
  /\ CancelGoto(t, a, "over")
  /\ UNCHANGED <<lanternVars, daemonVars, client, watch>>

-----------------------------------------------------------------------------

Watcher(t) == WatchEvent(t) \/ WatchClosed(t) \/ WatchTells(t)
Client(k) == Subscribe(k) \/ Read(k) \/ Poll(k)
Canceller(t, a) == CancelCloses(t, a) \/ CancelMarks(t, a) \/ CancelTells(t, a)

Next ==
  \/ \E t \in Transfers :
       \/ OpenSession(t) \/ OpenFails(t) \/ AddRecord(t) \/ Progress(t) \/ Unsubscribe(t) \/ Watcher(t)
       \/ \E type \in {"done", "error"} : EndTransfer(t, type)
       \/ \E a \in Callers : CancelStarts(t, a) \/ Canceller(t, a)
  \/ \E k \in Clients :
       Client(k) \/ StreamDrops(k) \/ Interrupt(k) \/ \E t \in Transfers : Follow(k, t)

Spec == Init /\ [][Next]_vars

\* What the daemon does about a transfer once it was asked to.
Works(t) ==
  \/ AddRecord(t) \/ Unsubscribe(t) \/ Watcher(t)
  \/ \E a \in Callers : Canceller(t, a) \/ (a = "timer" /\ CancelStarts(t, a))

\* Goroutines run, a call that was made returns, a timer that runs fires, and a
\* client opens and reads its stream, or polls.  No transfer has to end, no
\* stream has to drop and no command has to be started.
FairSpec ==
  /\ Spec
  /\ \A t \in Transfers : WF_vars(Works(t))
  /\ \A k \in Clients : WF_vars(Client(k))

-----------------------------------------------------------------------------
(* Properties *)

Truth(st) == CASE st = "done" -> "done" [] st = "failed" -> "error" [] OTHER -> "none"

\* A record that says how its transfer ended is right: done and failed are what an
\* attempt at its code came to (watch, on the events of its session).
RecordIsTrue ==
  \A t \in Transfers :
    record[t] \in {"done", "failed"} =>
      \E s \in Transfers : SameCode(s, t) /\ outcome[s] = Truth(record[t])

\* What the history says last of a record is what the record says, whatever Cancel
\* and the watchers of its code do at the same time.
HistoryAgrees ==
  \A i \in DOMAIN history :
    (\A j \in DOMAIN history : j > i => history[j].of # history[i].of)
      => record[history[i].of] = history[i].state

\* The session of t has ended and the record that can be looked up does not say so.
Lags(t) == t \in records /\ session[t] \in Ended /\ record[t] = "running"

\* No record that can be looked up stays running once its session has ended, whichever
\* of the event, the closing of the channel and Cancel comes first, even if the
\* session ended before the record was made, and whatever the watcher and the
\* callers of an earlier attempt still do.  (A record lags once at most.)
RecordsEnd == []<>(\A t \in Transfers : ~Lags(t))

\* What a command reports is what happened to the code it follows: done and error are
\* what an attempt at it came to, and "cancelled" is said only when somebody
\* cancelled one, over the stream, over polling and before either (runDaemonTransfer).
ToldIsTrue ==
  \A k \in Clients :
    /\ client[k].told \in {"done", "failed"} =>
         \E t \in Transfers : CodeOf[t] = client[k].of /\ outcome[t] = Truth(client[k].told)
    /\ client[k].told = "canceled" =>
         \E t \in Transfers, a \in Callers : CodeOf[t] = client[k].of /\ cancel[t][a] # "idle"

Learns(k) == client[k].step \in {"told", "gone"}

\* The record the code a command follows has now.
CodeIs(k, states) == \E r \in records : CodeOf[r] = client[k].of /\ record[r] \in states

\* A command whose stream was open before the code's record ended, or that polls,
\* learns of the ending, however far behind it reads and whatever its buffer drops,
\* unless it polls and the code is fetched again first.
FollowersLearn ==
  \A k \in Clients :
    /\ client[k].step = "stream" /\ CodeIs(k, {"running"}) /\ <>CodeIs(k, Ended) ~> Learns(k)
    /\ client[k].step = "polling" /\ CodeIs(k, Ended) ~> Learns(k) \/ CodeIs(k, {"running"})

=============================================================================
