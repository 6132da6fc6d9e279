---------------------------- MODULE DaemonProofs ----------------------------
(***************************************************************************)
(* What TLC checks of one and of two transfers, for any number of          *)
(* transfers, clients and callers and any capacity of the buffers; and of  *)
(* three uploads, for any number of them.                                  *)
(*                                                                         *)
(* Every watcher reads the events of all transfers, so what can be said of *)
(* any number of them is that a record, a frame and an answer name an      *)
(* ending some transfer came to, and that "cancelled" is said only of a    *)
(* code somebody cancelled a transfer of.  With one code in use that is    *)
(* the code the client follows.                                            *)
(***************************************************************************)
EXTENDS Transfers, Uploads, SequenceTheorems, TLAPS

In(x, q) == \E i \in 1..Len(q) : q[i] = x
HasEnding(q) == \E i \in 1..Len(q) : q[i].type \in Endings

Cancelled(t) == \E a \in Callers : cancel[t][a] # "idle"

\* Somebody cancelled a transfer of the code.
CodeCancelled(c) == \E t \in Transfers : CodeOf[t] = c /\ Cancelled(t)

\* Some transfer came to this ending.
Happened(type) == \E u \in Transfers : outcome[u] = type

\* The watcher of t has taken its last event.
Settled(t) == watch[t].step = "ended" \/ (watch[t].step = "tell" /\ watch[t].say \in Endings)

\* A watched transfer has a record and a session, which ends before its channel
\* closes; and the map of records holds only such a record.
WatchedOf(t) ==
  /\ watch[t].step \in {"loop", "tell"} => record[t] # "none"
  /\ record[t] # "none" => session[t] # "none" /\ watch[t].step # "none"
  /\ t \notin subs => session[t] \in Ended \cup {"none"}
  /\ t \in records => record[t] # "none"

Watched == \A t \in Transfers : WatchedOf(t)

\* The map of records holds one record of a code.
OneOfACode == \A s, t \in records : SameCode(s, t) => s = t

Entry == [of : Transfers, state : Ended]

\* How a session ended: by an event, and then its subscription holds an ending until
\* the watcher has taken one, or because somebody cancelled it.
SessionOf(t) ==
  /\ session[t] \in {"done", "failed"} => Settled(t) \/ HasEnding(events[t])
  /\ session[t] = "canceled" => Cancelled(t) \/ watch[t].step = "ended"

\* What a frame, a record and an answer about the code c say is so.
Vouched(c, type) ==
  /\ type \in {"done", "error"} => Happened(type)
  /\ type = "cancelled" => CodeCancelled(c)

FrameType(st) ==
  CASE st = "done" -> "done" [] st = "failed" -> "error"
    [] st = "canceled" -> "cancelled" [] OTHER -> "progress"

\* An event that says what is so.
Sound(x) ==
  /\ x \in Event /\ x.type # "cancelled"
  /\ x.type # "progress" => \E t \in Transfers : CodeOf[t] = x.id /\ outcome[t] = x.type

HonestEvents == \A t \in Transfers, x \in Event : In(x, events[t]) => Sound(x)
HonestRecords ==
  \A t \in Transfers :
    Vouched(CodeOf[t], FrameType(record[t])) /\ Vouched(CodeOf[t], watch[t].say)
HonestFrames == \A k \in Clients, x \in Event : In(x, queue[k]) => Vouched(x.id, x.type)
HonestAnswers == \A k \in Clients : Vouched(client[k].of, FrameType(client[k].told))

Honest == HonestEvents /\ HonestRecords /\ HonestFrames /\ HonestAnswers

\* The inductive invariant.
TransfersInv ==
  TypeOK /\ Watched /\ OneOfACode /\ HistoryAgrees /\ (\A t \in Transfers : SessionOf(t)) /\ Honest

-----------------------------------------------------------------------------
(* The queues *)

\* What Append and Tail do to what a queue holds.
LEMMA QueueAppend ==
  ASSUME NEW S, NEW q \in Seq(S), NEW e \in S
  PROVE  /\ Append(q, e) \in Seq(S) /\ Len(Append(q, e)) = Len(q) + 1
         /\ \A x : In(x, Append(q, e)) <=> In(x, q) \/ x = e
<1>1. /\ Append(q, e) \in Seq(S) /\ Len(Append(q, e)) = Len(q) + 1 /\ Len(q) \in Nat
      /\ Append(q, e)[Len(q) + 1] = e /\ \A i \in 1..Len(q) : Append(q, e)[i] = q[i]
  OBVIOUS
<1>2. ASSUME NEW x PROVE In(x, Append(q, e)) => In(x, q) \/ x = e
  BY <1>1 DEF In
<1>3. ASSUME NEW x PROVE In(x, q) => In(x, Append(q, e))
  BY <1>1 DEF In
<1>4. In(e, Append(q, e))
  BY <1>1 DEF In
<1> QED BY <1>1, <1>2, <1>3, <1>4

LEMMA QueueTail ==
  ASSUME NEW S, NEW q \in Seq(S), q # <<>>
  PROVE  /\ Tail(q) \in Seq(S) /\ Len(Tail(q)) = Len(q) - 1 /\ Len(q) \in Nat \ {0}
         /\ Head(q) \in S /\ In(Head(q), q)
         /\ \A x : In(x, Tail(q)) => In(x, q)
         /\ \A x : In(x, q) => In(x, Tail(q)) \/ x = Head(q)
<1>1. Len(q) \in Nat \ {0}
  BY EmptySeq
<1>2. /\ Head(q) = q[1] /\ Tail(q) \in Seq(S) /\ Len(Tail(q)) = Len(q) - 1
      /\ \A i \in 1..Len(Tail(q)) : Tail(q)[i] = q[i + 1]
  BY <1>1
<1>3. ASSUME NEW x PROVE In(x, Tail(q)) => In(x, q)
  BY <1>1, <1>2 DEF In
<1>4. ASSUME NEW x PROVE In(x, q) => In(x, Tail(q)) \/ x = Head(q)
  <2> SUFFICES ASSUME NEW i \in 1..Len(q), q[i] = x, i # 1 PROVE In(x, Tail(q))
    BY <1>2 DEF In
  <2>1. i - 1 \in 1..Len(Tail(q)) /\ Tail(q)[i - 1] = x
    BY <1>1, <1>2
  <2> QED BY <2>1 DEF In
<1> QED BY <1>1, <1>2, <1>3, <1>4 DEF In

LEMMA EndingIsIn ==
  ASSUME NEW q \in Seq(Event)
  PROVE  HasEnding(q) <=> \E x \in Event : In(x, q) /\ x.type \in Endings
<1>1. Len(q) \in Nat /\ \A i \in 1..Len(q) : q[i] \in Event
  OBVIOUS
<1> QED BY <1>1 DEF HasEnding, In

\* An offer never outgrows its buffer, adds nothing but the event, always keeps
\* one that ends a transfer, and never leaves a queue without an ending it had.
LEMMA OfferAdds ==
  ASSUME NEW q \in Seq(Event), NEW e \in Event, NEW size \in Nat \ {0}, Len(q) <= size
  PROVE  /\ Offer(q, e, size) \in Seq(Event) /\ Len(Offer(q, e, size)) <= size
         /\ \A x : In(x, Offer(q, e, size)) => In(x, q) \/ x = e
         /\ HasEnding(q) \/ e.type \in Endings => HasEnding(Offer(q, e, size))
<1>0. Len(q) \in Nat
  OBVIOUS
<1>1. CASE Len(q) < size
  <2>1. Offer(q, e, size) = Append(q, e)
    BY <1>1 DEF Offer
  <2>2. Len(q) + 1 <= size
    BY <1>0, <1>1
  <2>3. /\ Append(q, e) \in Seq(Event) /\ Len(Append(q, e)) = Len(q) + 1
        /\ \A x : In(x, Append(q, e)) <=> In(x, q) \/ x = e
    BY QueueAppend
  <2>4. HasEnding(q) \/ e.type \in Endings => HasEnding(Append(q, e))
    BY <2>3, EndingIsIn
  <2> QED BY <2>1, <2>2, <2>3, <2>4
<1>2. CASE ~(Len(q) < size) /\ e.type \in Endings
  <2>1. Offer(q, e, size) = Append(Tail(q), e)
    BY <1>2 DEF Offer
  <2>2. q # <<>> /\ Len(q) = size
    BY <1>0, <1>2
  <2>3. /\ Tail(q) \in Seq(Event) /\ Len(Tail(q)) = size - 1
        /\ \A x : In(x, Tail(q)) => In(x, q)
    BY <2>2, QueueTail
  <2>4. /\ Append(Tail(q), e) \in Seq(Event) /\ Len(Append(Tail(q), e)) = Len(Tail(q)) + 1
        /\ \A x : In(x, Append(Tail(q), e)) <=> In(x, Tail(q)) \/ x = e
    BY <2>3, QueueAppend
  <2>5. Len(Append(Tail(q), e)) <= size
    BY <2>3, <2>4
  <2>6. HasEnding(Append(Tail(q), e))
    BY <1>2, <2>4, EndingIsIn
  <2> QED BY <2>1, <2>3, <2>4, <2>5, <2>6
<1>3. CASE ~(Len(q) < size) /\ e.type \notin Endings
  BY <1>3 DEF Offer
<1> QED BY <1>1, <1>2, <1>3

\* The history gains its newest entry, and may lose its oldest.
LEMMA RememberAdds ==
  ASSUME TransfersConstants, TypeOK, NEW t \in Transfers, NEW st \in Ended, Remember(t, st)
  PROVE  /\ history' \in Seq(Entry) /\ Len(history') <= MaxHistory
<1> DEFINE e == [of |-> t, state |-> st]
           h == Append(history, e)
<1>1. /\ history \in Seq(Entry) /\ Len(history) <= MaxHistory
      /\ Len(history) \in Nat /\ MaxHistory \in Nat
  BY DEF TypeOK, Entry, TransfersConstants
<1>2. e \in Entry
  BY DEF Entry
<1>3. history' = IF Len(h) > MaxHistory THEN Tail(h) ELSE h
  BY DEF Remember
<1> HIDE DEF e
<1>4. h \in Seq(Entry) /\ Len(h) = Len(history) + 1
  BY <1>1, <1>2, QueueAppend
<1> HIDE DEF h
<1>5. h # <<>>
  BY <1>1, <1>4
<1>6. Tail(h) \in Seq(Entry) /\ Len(Tail(h)) = Len(h) - 1
  BY <1>4, <1>5, QueueTail
<1>7. CASE Len(h) > MaxHistory
  BY <1>1, <1>3, <1>4, <1>6, <1>7
<1>8. CASE ~(Len(h) > MaxHistory)
  BY <1>1, <1>3, <1>4, <1>8
<1> QED BY <1>7, <1>8

\* When a record changes and its new state is what the history gains, the newest
\* entries still say what the records do.
LEMMA RememberAgrees ==
  ASSUME TransfersConstants, TypeOK, HistoryAgrees, NEW r \in Transfers, record'[r] \in Ended,
         Remember(r, record'[r]), \A u \in Transfers : u # r => record'[u] = record[u]
  PROVE  HistoryAgrees'
<1> DEFINE e == [of |-> r, state |-> record'[r]]
           n == Len(history)
           h == Append(history, e)
           Newest(q, i) == \A j \in 1..Len(q) : j > i => q[j].of # q[i].of
<1>1. history \in Seq(Entry) /\ n \in Nat
  BY DEF TypeOK, Entry
<1>2. e \in Entry /\ e.of = r /\ e.state = record'[r]
  BY DEF Entry
<1>3. history' = IF Len(h) > MaxHistory THEN Tail(h) ELSE h
  BY DEF Remember
<1>4. ASSUME NEW i \in 1..n, Newest(history, i) PROVE record[history[i].of] = history[i].state
  BY <1>1, <1>4 DEF HistoryAgrees
<1> HIDE DEF e
<1>5. /\ h \in Seq(Entry) /\ Len(h) = n + 1 /\ h[n + 1] = e
      /\ \A i \in 1..n : h[i] = history[i] /\ history[i] \in Entry
  BY <1>1, <1>2
<1> HIDE DEF h
<1>6. ASSUME NEW i \in 1..(n + 1), Newest(h, i) PROVE record'[h[i].of] = h[i].state
  <2>1. CASE i = n + 1
    BY <1>2, <1>5, <2>1
  <2>2. CASE i \in 1..n
    <3>1. h[n + 1].of # h[i].of
      BY <1>1, <1>5, <1>6, <2>2
    <3>2. history[i].of # r /\ history[i].of \in Transfers /\ h[i] = history[i]
      BY <1>2, <1>5, <2>2, <3>1 DEF Entry
    <3>3. Newest(history, i)
      <4> SUFFICES ASSUME NEW j \in 1..n, j > i PROVE history[j].of # history[i].of
        OBVIOUS
      <4>1. j \in 1..Len(h) /\ h[j] = history[j]
        BY <1>1, <1>5
      <4> QED BY <1>6, <3>2, <4>1
    <3> QED BY <1>4, <2>2, <3>2, <3>3
  <2> QED BY <1>1, <2>1, <2>2
<1>0. ASSUME NEW q \in Seq(Entry), history' = q,
             \A i \in 1..Len(q) : Newest(q, i) => record'[q[i].of] = q[i].state
      PROVE  HistoryAgrees'
  <2>1. DOMAIN q = 1..Len(q)
    OBVIOUS
  <2> QED BY <1>0, <2>1 DEF HistoryAgrees
<1>7. CASE history' = h
  BY <1>0, <1>5, <1>6, <1>7
<1>8. CASE history' = Tail(h)
  <2>1. /\ Tail(h) \in Seq(Entry) /\ Len(Tail(h)) = n
        /\ \A i \in 1..n : Tail(h)[i] = h[i + 1]
    <3>1. h # <<>> /\ Len(h) - 1 = n
      BY <1>1, <1>5
    <3> QED BY <1>1, <1>5, <3>1
  <2>2. ASSUME NEW i \in 1..n, Newest(Tail(h), i) PROVE record'[Tail(h)[i].of] = Tail(h)[i].state
    <3>1. i + 1 \in 1..(n + 1) /\ Tail(h)[i] = h[i + 1]
      BY <1>1, <2>1
    <3>2. Newest(h, i + 1)
      <4> SUFFICES ASSUME NEW j \in 1..(n + 1), j > i + 1 PROVE h[j].of # h[i + 1].of
        BY <1>5
      <4>1. j - 1 \in 1..n /\ j - 1 > i /\ Tail(h)[j - 1] = h[j]
        BY <1>1, <2>1
      <4> QED BY <2>1, <2>2, <3>1, <4>1
    <3> QED BY <1>6, <3>1, <3>2
  <2> QED BY <1>0, <1>8, <2>1, <2>2
<1> QED BY <1>3, <1>7, <1>8

-----------------------------------------------------------------------------
(* What the steps do to the events, the streams and the sessions *)

\* The first ending wins.
LEMMA FinishOnce ==
  ASSUME TypeOK, NEW ts, NEW st \in Ended, Finish(ts, st)
  PROVE  /\ session' \in [Transfers -> States]
         /\ \A u \in Transfers : \/ session'[u] = session[u]
                                 \/ u \in ts /\ session[u] = "running" /\ session'[u] = st
BY DEF Finish, TypeOK, States, Ended

\* An event reaches the subscriptions; one that ends a transfer ends the sessions of
\* its code, whose subscriptions then hold it.
LEMMA EmitAdds ==
  ASSUME TransfersConstants, TypeOK, NEW e \in Event, Emit(e)
  PROVE  /\ events' \in [Transfers -> Seq(Event)]
         /\ \A t \in Transfers :
              /\ Len(events'[t]) <= SessionBuffer
              /\ \A x : In(x, events'[t]) => In(x, events[t]) \/ x = e
              /\ HasEnding(events[t]) => HasEnding(events'[t])
         /\ session' \in [Transfers -> States]
         /\ \A t \in Transfers :
              \/ session'[t] = session[t]
              \/ /\ e.type \in Endings /\ session[t] = "running" /\ HasEnding(events'[t])
                 /\ session'[t] = IF e.type = "done" THEN "done" ELSE "failed"
<1>1. /\ events \in [Transfers -> Seq(Event)] /\ \A t \in Transfers : Len(events[t]) <= SessionBuffer
      /\ SessionBuffer \in Nat \ {0} /\ session \in [Transfers -> States]
  BY DEF TypeOK, TransfersConstants
<1>2. events' = [t \in Transfers |->
                   IF t \in subs THEN Offer(events[t], e, SessionBuffer) ELSE events[t]]
  BY DEF Emit
<1>3. ASSUME NEW t \in Transfers
      PROVE  /\ Offer(events[t], e, SessionBuffer) \in Seq(Event)
             /\ Len(Offer(events[t], e, SessionBuffer)) <= SessionBuffer
             /\ \A x : In(x, Offer(events[t], e, SessionBuffer)) => In(x, events[t]) \/ x = e
             /\ HasEnding(events[t]) \/ e.type \in Endings
                  => HasEnding(Offer(events[t], e, SessionBuffer))
  BY <1>1, OfferAdds
<1>4. \A t \in Transfers :
        events'[t] = IF t \in subs THEN Offer(events[t], e, SessionBuffer) ELSE events[t]
  BY <1>2
<1>5. events' \in [Transfers -> Seq(Event)]
  BY <1>1, <1>2, <1>3
<1>6. ASSUME NEW t \in Transfers
      PROVE  /\ Len(events'[t]) <= SessionBuffer
             /\ \A x : In(x, events'[t]) => In(x, events[t]) \/ x = e
             /\ HasEnding(events[t]) => HasEnding(events'[t])
             /\ t \in subs /\ e.type \in Endings => HasEnding(events'[t])
  BY <1>1, <1>3, <1>4
<1>7. CASE e.type \in Endings
  <2> DEFINE st == IF e.type = "done" THEN "done" ELSE "failed"
             ts == {t \in subs : CodeOf[t] = e.id}
  <2>1. st \in Ended /\ Finish(ts, st)
    BY <1>7 DEF Emit, Ended
  <2> HIDE DEF st
  <2>2. /\ session' \in [Transfers -> States]
        /\ \A u \in Transfers : \/ session'[u] = session[u]
                                \/ u \in ts /\ session[u] = "running" /\ session'[u] = st
    BY <2>1, FinishOnce
  <2>3. \A u \in ts : u \in Transfers => HasEnding(events'[u])
    BY <1>6, <1>7
  <2> QED BY <1>5, <1>6, <1>7, <2>2, <2>3 DEF st
<1>8. CASE e.type \notin Endings
  BY <1>1, <1>5, <1>6, <1>8 DEF Emit
<1> QED BY <1>7, <1>8

\* A frame reaches the streams that are open.
LEMMA BroadcastAdds ==
  ASSUME TransfersConstants, TypeOK, NEW e \in Event, Broadcast(e)
  PROVE  /\ queue' \in [Clients -> Seq(Event)]
         /\ \A k \in Clients : /\ Len(queue'[k]) <= ClientBuffer
                               /\ \A x : In(x, queue'[k]) => In(x, queue[k]) \/ x = e
<1>1. /\ queue \in [Clients -> Seq(Event)] /\ \A k \in Clients : Len(queue[k]) <= ClientBuffer
      /\ ClientBuffer \in Nat \ {0}
  BY DEF TypeOK, TransfersConstants
<1>2. queue' = [k \in Clients |->
              IF client[k].step = "stream" THEN Offer(queue[k], e, ClientBuffer) ELSE queue[k]]
  BY DEF Broadcast
<1>3. ASSUME NEW k \in Clients
      PROVE  /\ Offer(queue[k], e, ClientBuffer) \in Seq(Event)
             /\ Len(Offer(queue[k], e, ClientBuffer)) <= ClientBuffer
             /\ \A x : In(x, Offer(queue[k], e, ClientBuffer)) => In(x, queue[k]) \/ x = e
  BY <1>1, OfferAdds
<1>4. \A k \in Clients : queue'[k] =
        IF client[k].step = "stream" THEN Offer(queue[k], e, ClientBuffer) ELSE queue[k]
  BY <1>2
<1>5. queue' \in [Clients -> Seq(Event)]
  BY <1>1, <1>2, <1>3
<1> QED BY <1>1, <1>3, <1>4, <1>5

-----------------------------------------------------------------------------
(* Who changes what *)

Session(t) ==
  \/ OpenSession(t) \/ OpenFails(t) \/ AddRecord(t) \/ Progress(t) \/ Unsubscribe(t)
  \/ \E type \in {"done", "error"} : EndTransfer(t, type)
Cancelling(t, a) == CancelStarts(t, a) \/ Canceller(t, a)
Command(k) == Client(k) \/ StreamDrops(k) \/ Interrupt(k) \/ \E t \in Transfers : Follow(k, t)

LEMMA StepKinds ==
  ASSUME [Next]_vars
  PROVE  \/ \E t \in Transfers : Session(t)
         \/ \E t \in Transfers : Watcher(t)
         \/ \E t \in Transfers, a \in Callers : Cancelling(t, a)
         \/ \E k \in Clients : Command(k)
         \/ UNCHANGED vars
BY DEF Next, Session, Cancelling, Command

LEMMA SessionFrame ==
  ASSUME NEW t \in Transfers, Session(t)
  PROVE  UNCHANGED <<history, client, queue, cancel>>
BY DEF Session, OpenSession, OpenFails, AddRecord, Progress, Unsubscribe, EndTransfer, daemonVars, clientVars

LEMMA WatcherFrame ==
  ASSUME NEW t \in Transfers, Watcher(t)
  PROVE  UNCHANGED <<session, subs, reports, outcome, client, cancel>>
BY DEF Watcher, WatchEvent, WatchClosed, WatchTells, lanternVars, clientVars

LEMMA CancelFrame ==
  ASSUME NEW t \in Transfers, NEW a \in Callers, Cancelling(t, a)
  PROVE  UNCHANGED <<subs, events, reports, outcome, records, history, client, watch>>
BY DEF Cancelling, CancelStarts, Canceller, CancelCloses, CancelMarks, CancelTells, lanternVars,
       daemonVars, clientVars

LEMMA CommandFrame ==
  ASSUME NEW k \in Clients, Command(k)
  PROVE  UNCHANGED <<lanternVars, daemonVars, watch, cancel>>
BY DEF Command, Client, Subscribe, Read, Poll, StreamDrops, Interrupt, Follow

-----------------------------------------------------------------------------
(* What each actor's steps do, said once *)

WatchSteps == {"none", "loop", "tell", "ended"}
Watching == [step : WatchSteps, say : Endings \cup {"progress"}]

LEMMA WatchGoes ==
  ASSUME TypeOK, NEW t \in Transfers, NEW s \in WatchSteps, watch' = [watch EXCEPT ![t].step = s]
  PROVE  /\ watch' \in [Transfers -> Watching]
         /\ watch'[t].step = s /\ watch'[t].say = watch[t].say
         /\ \A u \in Transfers : u # t => watch'[u] = watch[u]
<1>1. watch \in [Transfers -> Watching] /\ watch' = [watch EXCEPT ![t] = [watch[t] EXCEPT !.step = s]]
  BY DEF TypeOK, Watching, WatchSteps
<1>2. watch[t] \in Watching /\ [watch[t] EXCEPT !.step = s] \in Watching
  BY <1>1 DEF Watching
<1> QED BY <1>1, <1>2 DEF Watching

LEMMA WatchSays ==
  ASSUME TypeOK, NEW t \in Transfers, NEW say \in Endings \cup {"progress"},
         watch' = [watch EXCEPT ![t] = [step |-> "tell", say |-> say]]
  PROVE  /\ watch' \in [Transfers -> Watching] /\ watch'[t].step = "tell" /\ watch'[t].say = say
         /\ \A u \in Transfers : u # t => watch'[u] = watch[u]
<1> DEFINE w == [step |-> "tell", say |-> say]
<1>1. watch \in [Transfers -> Watching]
  BY DEF TypeOK, Watching, WatchSteps
<1>2. w \in Watching /\ w.step = "tell" /\ w.say = say
  BY DEF Watching, WatchSteps
<1> HIDE DEF w
<1>3. watch' = [watch EXCEPT ![t] = w]
  BY DEF w
<1> QED BY <1>1, <1>2, <1>3

\* What the steps of a session do to the watcher and the record.
LEMMA SessionSteps ==
  ASSUME TypeOK, NEW t \in Transfers, Session(t)
  PROVE  /\ watch' \in [Transfers -> Watching] /\ record' \in [Transfers -> States]
         /\ \A u \in Transfers :
              /\ watch'[u].say = watch[u].say
              /\ \/ watch'[u].step = watch[u].step
                 \/ u = t /\ watch[t].step = "none" /\ record[t] = "none" /\ session[t] # "none"
                    /\ watch'[t].step = IF record'[t] = "running" THEN "loop" ELSE "ended"
              /\ \/ record'[u] = record[u]
                 \/ u = t /\ record[t] = "none" /\ record'[t] = "running" /\ session[t] # "none"
         /\ \/ records' = records
            \/ /\ records' = {s \in records : ~SameCode(s, t)} \cup {t}
               /\ record'[t] = "running" /\ watch'[t].step = "loop"
<1>0. watch \in [Transfers -> Watching] /\ record \in [Transfers -> States] /\ "running" \in States
  BY DEF TypeOK, Watching, WatchSteps, States
<1>1. CASE OpenFails(t)
  <2>1. watch' = [watch EXCEPT ![t].step = "ended"] /\ record' = record /\ records' = records
    BY <1>1 DEF OpenFails, daemonVars
  <2>2. /\ watch' \in [Transfers -> Watching]
        /\ watch'[t].step = "ended" /\ watch'[t].say = watch[t].say
        /\ \A u \in Transfers : u # t => watch'[u] = watch[u]
    BY <2>1, WatchGoes DEF WatchSteps
  <2> QED BY <1>0, <1>1, <2>1, <2>2 DEF OpenFails
<1>2. CASE AddRecord(t)
  <2>1. watch' = [watch EXCEPT ![t].step = "loop"] /\ record' = [record EXCEPT ![t] = "running"]
    BY <1>2 DEF AddRecord
  <2>2. /\ watch' \in [Transfers -> Watching]
        /\ watch'[t].step = "loop" /\ watch'[t].say = watch[t].say
        /\ \A u \in Transfers : u # t => watch'[u] = watch[u]
    BY <2>1, WatchGoes DEF WatchSteps
  <2>3. record' \in [Transfers -> States] /\ record'[t] = "running"
        /\ \A u \in Transfers : u # t => record'[u] = record[u]
    BY <1>0, <2>1
  <2> QED BY <1>2, <2>2, <2>3 DEF AddRecord
<1>3. CASE ~OpenFails(t) /\ ~AddRecord(t)
  <2>1. UNCHANGED <<watch, record, records>>
    BY <1>3 DEF Session, OpenSession, Progress, Unsubscribe, EndTransfer, daemonVars
  <2> QED BY <1>0, <2>1
<1> QED BY <1>1, <1>2, <1>3

EventsTyped ==
  events \in [Transfers -> Seq(Event)] /\ \A t \in Transfers : Len(events[t]) <= SessionBuffer

\* What the steps of a session do to it and to the subscriptions.
LEMMA SessionReports ==
  ASSUME TransfersConstants, TypeOK, NEW t \in Transfers, Session(t)
  PROVE  /\ EventsTyped' /\ session' \in [Transfers -> States]
         /\ outcome' \in [Transfers -> {"none", "done", "error"}]
         /\ \A u \in Transfers :
              /\ \A x : In(x, events'[u]) => In(x, events[u]) \/ Sound(x)'
              /\ HasEnding(events[u]) => HasEnding(events'[u])
              /\ outcome'[u] = outcome[u] \/ outcome[u] = "none"
              /\ \/ session'[u] = session[u]
                 \/ session[u] = "none" /\ session'[u] = "running" /\ u \in subs'
                 \/ session[u] = "running" /\ HasEnding(events'[u]) /\ session'[u] \in {"done", "failed"}
                 \/ session[u] = "running" /\ session'[u] = "canceled" /\ watch'[u].step = "ended"
              /\ u \notin subs' => u \notin subs \/ session[u] \in Ended
<1>0. EventsTyped /\ session \in [Transfers -> States] /\ "running" \in States
      /\ outcome \in [Transfers -> {"none", "done", "error"}]
  BY DEF TypeOK, EventsTyped, States
<1>1. CASE OpenSession(t)
  <2>1. session[t] = "none" /\ session' = [session EXCEPT ![t] = "running"] /\ subs' = subs \cup {t}
        /\ UNCHANGED <<events, outcome>>
    BY <1>1 DEF OpenSession
  <2> QED BY <1>0, <2>1 DEF EventsTyped
<1>2. CASE OpenFails(t)
  <2>1. Finish({t}, "canceled") /\ "canceled" \in Ended /\ watch' = [watch EXCEPT ![t].step = "ended"]
        /\ UNCHANGED <<events, outcome, subs>>
    BY <1>2 DEF OpenFails, Ended
  <2>2. /\ session' \in [Transfers -> States]
        /\ \A u \in Transfers : \/ session'[u] = session[u]
                                \/ u = t /\ session[t] = "running" /\ session'[t] = "canceled"
    BY <2>1, FinishOnce
  <2>3. watch'[t].step = "ended"
    BY <2>1, WatchGoes DEF WatchSteps
  <2> QED BY <1>0, <2>1, <2>2, <2>3 DEF EventsTyped
<1>3. CASE AddRecord(t)
  <2>1. UNCHANGED lanternVars
    BY <1>3 DEF AddRecord
  <2> QED BY <1>0, <2>1 DEF EventsTyped, lanternVars
<1>4. CASE Unsubscribe(t)
  <2>1. session[t] \in Ended /\ subs' = subs \ {t} /\ UNCHANGED <<session, events, outcome>>
    BY <1>4 DEF Unsubscribe
  <2> QED BY <1>0, <2>1 DEF EventsTyped
<1>5. CASE Progress(t)
  <2> DEFINE e == [id |-> CodeOf[t], type |-> "progress"]
  <2>1. e \in Event /\ e.type = "progress" /\ Emit(e) /\ UNCHANGED <<outcome, subs>>
    BY <1>5 DEF Progress, Event, TransfersConstants
  <2> HIDE DEF e
  <2>2. /\ events' \in [Transfers -> Seq(Event)] /\ session' \in [Transfers -> States]
        /\ \A u \in Transfers :
             /\ Len(events'[u]) <= SessionBuffer
             /\ \A x : In(x, events'[u]) => In(x, events[u]) \/ x = e
             /\ HasEnding(events[u]) => HasEnding(events'[u])
        /\ \A u \in Transfers : session'[u] = session[u] \/ e.type \in Endings
    BY <2>1, EmitAdds
  <2>3. Sound(e)' /\ e.type \notin Endings
    BY <2>1 DEF Sound, Endings
  <2> QED BY <1>0, <2>1, <2>2, <2>3 DEF EventsTyped
<1>6. ASSUME NEW type \in {"done", "error"}, EndTransfer(t, type)
      PROVE  /\ EventsTyped' /\ session' \in [Transfers -> States]
             /\ outcome' \in [Transfers -> {"none", "done", "error"}] /\ subs' = subs
             /\ \A u \in Transfers :
                  /\ \A x : In(x, events'[u]) => In(x, events[u]) \/ Sound(x)'
                  /\ HasEnding(events[u]) => HasEnding(events'[u])
                  /\ outcome'[u] = outcome[u] \/ outcome[u] = "none"
                  /\ \/ session'[u] = session[u]
                     \/ session[u] = "running" /\ HasEnding(events'[u])
                        /\ session'[u] \in {"done", "failed"}
  <2> DEFINE e == [id |-> CodeOf[t], type |-> type]
  <2>1. /\ e \in Event /\ e.type = type /\ e.id = CodeOf[t] /\ Emit(e) /\ subs' = subs
        /\ outcome[t] = "none" /\ outcome' = [outcome EXCEPT ![t] = type]
    BY <1>6 DEF EndTransfer, Event, Endings, TransfersConstants
  <2> HIDE DEF e
  <2>2. /\ events' \in [Transfers -> Seq(Event)] /\ session' \in [Transfers -> States]
        /\ \A u \in Transfers :
             /\ Len(events'[u]) <= SessionBuffer
             /\ \A x : In(x, events'[u]) => In(x, events[u]) \/ x = e
             /\ HasEnding(events[u]) => HasEnding(events'[u])
        /\ \A u \in Transfers :
              \/ session'[u] = session[u]
              \/ /\ session[u] = "running" /\ HasEnding(events'[u])
                 /\ session'[u] = IF e.type = "done" THEN "done" ELSE "failed"
    BY <2>1, EmitAdds
  <2>3. outcome' \in [Transfers -> {"none", "done", "error"}] /\ outcome'[t] = type
        /\ \A u \in Transfers : u # t => outcome'[u] = outcome[u]
    BY <1>0, <2>1
  <2>4. Sound(e)'
    BY <2>1, <2>3 DEF Sound
  <2> QED BY <1>0, <2>1, <2>2, <2>3, <2>4 DEF EventsTyped
<1> QED BY <1>1, <1>2, <1>3, <1>4, <1>5, <1>6 DEF Session

QueuesTyped ==
  queue \in [Clients -> Seq(Event)] /\ \A k \in Clients : Len(queue[k]) <= ClientBuffer

HistoryTyped == history \in Seq(Entry) /\ Len(history) <= MaxHistory

\* The watcher takes an event, and when that ends a transfer its code's record and
\* what it will say are that event's.
LEMMA WatcherTakes ==
  ASSUME TransfersConstants, TypeOK, NEW t \in Transfers, WatchEvent(t)
  PROVE  /\ watch[t].step = "loop" /\ watch'[t].step = "tell" /\ watch' \in [Transfers -> Watching]
         /\ \A u \in Transfers : u # t => watch'[u] = watch[u]
         /\ EventsTyped' /\ UNCHANGED <<queue, records>> /\ armed' \subseteq Timed
         /\ \A u \in Transfers : \A x : In(x, events'[u]) => In(x, events[u])
         /\ \A u \in Transfers : HasEnding(events[u]) =>
              HasEnding(events'[u]) \/ (u = t /\ watch'[t].say \in Endings)
         /\ \E x \in Event : In(x, events[t]) /\ watch'[t].say = x.type
         /\ \/ UNCHANGED <<record, history>> /\ watch'[t].say \notin Endings
            \/ \E r \in records :
                 /\ SameCode(r, t) /\ record'[r] = IF watch'[t].say = "done" THEN "done" ELSE "failed"
                 /\ watch'[t].say \in Endings /\ record' \in [Transfers -> States]
                 /\ \A u \in Transfers : u # r => record'[u] = record[u]
                 /\ HistoryTyped' /\ Remember(r, record'[r])
<1> DEFINE e == Head(events[t])
           st == IF e.type = "done" THEN "done" ELSE "failed"
<1>0. /\ EventsTyped /\ record \in [Transfers -> States] /\ armed \subseteq Timed
      /\ records \subseteq Transfers /\ "done" \in Ended /\ "failed" \in Ended /\ Ended \subseteq States
  BY DEF TypeOK, EventsTyped, Ended, States
<1>1. /\ watch[t].step = "loop" /\ events[t] # <<>> /\ events' = [events EXCEPT ![t] = Tail(events[t])]
      /\ watch' = [watch EXCEPT ![t] = [step |-> "tell", say |-> e.type]] /\ UNCHANGED queue
  BY DEF WatchEvent, clientVars
<1>2. /\ Tail(events[t]) \in Seq(Event) /\ Len(Tail(events[t])) = Len(events[t]) - 1
      /\ Len(events[t]) \in Nat \ {0} /\ e \in Event /\ In(e, events[t])
      /\ \A x : In(x, Tail(events[t])) => In(x, events[t])
      /\ \A x : In(x, events[t]) => In(x, Tail(events[t])) \/ x = e
  BY <1>0, <1>1, QueueTail DEF EventsTyped
<1>3. \/ e.type \in Endings /\ \E r \in records : SameCode(r, t) /\ Settle(r, st)
      \/ e.type \notin Endings /\ UNCHANGED daemonVars
  BY DEF WatchEvent
<1> HIDE DEF e
<1>4. e.type \in Endings \cup {"progress"}
  BY <1>2 DEF Event
<1>5. /\ watch' \in [Transfers -> Watching] /\ watch'[t].step = "tell" /\ watch'[t].say = e.type
      /\ \A u \in Transfers : u # t => watch'[u] = watch[u]
  BY <1>1, <1>4, WatchSays
<1>6. \A u \in Transfers : events'[u] = IF u = t THEN Tail(events[t]) ELSE events[u]
  BY <1>0, <1>1 DEF EventsTyped
<1>7. EventsTyped'
  <2>1. Len(events[t]) - 1 <= SessionBuffer
    BY <1>0, <1>2 DEF EventsTyped, TransfersConstants
  <2>2. events' \in [Transfers -> Seq(Event)]
    BY <1>0, <1>1, <1>2 DEF EventsTyped
  <2> QED BY <1>0, <1>2, <1>6, <2>1, <2>2 DEF EventsTyped
<1>8. HasEnding(events[t]) => HasEnding(Tail(events[t])) \/ e.type \in Endings
  <2>1. events[t] \in Seq(Event)
    BY <1>0 DEF EventsTyped
  <2> QED BY <1>2, <2>1, EndingIsIn
<1>9. ASSUME e.type \in Endings, NEW r \in records, SameCode(r, t), Settle(r, st)
      PROVE  /\ \E q \in records :
                  /\ SameCode(q, t) /\ record'[q] = IF watch'[t].say = "done" THEN "done" ELSE "failed"
                  /\ watch'[t].say \in Endings /\ record' \in [Transfers -> States]
                  /\ \A u \in Transfers : u # q => record'[u] = record[u]
                  /\ HistoryTyped' /\ Remember(q, record'[q])
             /\ records' = records /\ armed' \subseteq Timed
  <2>1. /\ st \in Ended /\ r \in Transfers /\ record' = [record EXCEPT ![r] = st]
        /\ armed' = armed \ {r} /\ Remember(r, st) /\ records' = records
    BY <1>0, <1>9 DEF Settle
  <2>2. st = IF watch'[t].say = "done" THEN "done" ELSE "failed"
    BY <1>5
  <2> HIDE DEF st
  <2>3. /\ record'[r] = st /\ record' \in [Transfers -> States]
        /\ \A u \in Transfers : u # r => record'[u] = record[u]
    BY <1>0, <2>1
  <2>4. HistoryTyped'
    BY <2>1, RememberAdds DEF HistoryTyped
  <2> QED BY <1>0, <1>5, <1>9, <2>1, <2>2, <2>3, <2>4
<1>10. CASE e.type \notin Endings /\ UNCHANGED daemonVars
  BY <1>0, <1>1, <1>2, <1>5, <1>6, <1>7, <1>8, <1>10 DEF daemonVars
<1>11. CASE e.type \in Endings /\ \E r \in records : SameCode(r, t) /\ Settle(r, st)
  <2>1. PICK r \in records : SameCode(r, t) /\ Settle(r, st)
    BY <1>11
  <2> HIDE DEF st
  <2>2. /\ \E q \in records :
             /\ SameCode(q, t) /\ record'[q] = IF watch'[t].say = "done" THEN "done" ELSE "failed"
             /\ watch'[t].say \in Endings /\ record' \in [Transfers -> States]
             /\ \A u \in Transfers : u # q => record'[u] = record[u]
             /\ HistoryTyped' /\ Remember(q, record'[q])
        /\ records' = records /\ armed' \subseteq Timed
    BY <1>9, <1>11, <2>1
  <2>3. \A u \in Transfers : HasEnding(events[u]) =>
              HasEnding(events'[u]) \/ (u = t /\ watch'[t].say \in Endings)
    BY <1>5, <1>6, <1>8
  <2>4. \E x \in Event : In(x, events[t]) /\ watch'[t].say = x.type
    BY <1>2, <1>5
  <2> QED BY <1>1, <1>2, <1>5, <1>6, <1>7, <2>2, <2>3, <2>4
<1> QED BY <1>3, <1>10, <1>11

\* The watcher finds its channel closed: its code's record, if it still runs, was
\* cancelled.
LEMMA WatcherEnds ==
  ASSUME TransfersConstants, TypeOK, Watched, NEW t \in Transfers, WatchClosed(t)
  PROVE  /\ watch[t].step = "loop" /\ events[t] = <<>> /\ t \notin subs
         /\ UNCHANGED <<events, queue, armed, records>>
         /\ watch' \in [Transfers -> Watching] /\ record' \in [Transfers -> States]
         /\ \A u \in Transfers : u # t => watch'[u] = watch[u]
         /\ HistoryTyped'
         /\ \E r \in records :
              /\ SameCode(r, t) /\ \A u \in Transfers : u # r => record'[u] = record[u]
              /\ \/ /\ record[r] = "running" /\ record'[r] = "canceled"
                    /\ watch'[t].step = "tell" /\ watch'[t].say = "cancelled"
                 \/ /\ record[r] # "running" /\ record'[r] = record[r]
                    /\ watch'[t].step = "ended" /\ watch'[t].say = watch[t].say
              /\ record'[r] \in Ended /\ Remember(r, record'[r])
<1>0. record \in [Transfers -> States] /\ records \subseteq Transfers
  BY DEF TypeOK
<1>1. /\ watch[t].step = "loop" /\ events[t] = <<>> /\ t \notin subs
      /\ UNCHANGED <<events, queue, armed, records>>
  BY DEF WatchClosed, lanternVars, clientVars
<1>2. PICK r \in records :
        /\ SameCode(r, t) /\ Remember(r, record'[r])
        /\ \/ /\ record[r] = "running" /\ record' = [record EXCEPT ![r] = "canceled"]
              /\ watch' = [watch EXCEPT ![t] = [step |-> "tell", say |-> "cancelled"]]
           \/ /\ record[r] # "running" /\ UNCHANGED record
              /\ watch' = [watch EXCEPT ![t].step = "ended"]
  BY DEF WatchClosed
<1>3. r \in Transfers /\ record[r] # "none"
  BY <1>0 DEF Watched, WatchedOf
<1>4. /\ watch' \in [Transfers -> Watching] /\ record' \in [Transfers -> States]
      /\ \A u \in Transfers : u # t => watch'[u] = watch[u]
      /\ \A u \in Transfers : u # r => record'[u] = record[u]
      /\ \/ /\ record[r] = "running" /\ record'[r] = "canceled"
            /\ watch'[t].step = "tell" /\ watch'[t].say = "cancelled"
         \/ /\ record[r] # "running" /\ record'[r] = record[r]
            /\ watch'[t].step = "ended" /\ watch'[t].say = watch[t].say
  <2>1. CASE /\ record[r] = "running" /\ record' = [record EXCEPT ![r] = "canceled"]
             /\ watch' = [watch EXCEPT ![t] = [step |-> "tell", say |-> "cancelled"]]
    <3>1. /\ watch' \in [Transfers -> Watching] /\ watch'[t].step = "tell"
          /\ watch'[t].say = "cancelled" /\ \A u \in Transfers : u # t => watch'[u] = watch[u]
      BY <2>1, WatchSays DEF Endings
    <3>2. record'[r] = "canceled" /\ record' \in [Transfers -> States]
          /\ \A u \in Transfers : u # r => record'[u] = record[u]
      BY <1>0, <1>3, <2>1 DEF States
    <3> QED BY <2>1, <3>1, <3>2
  <2>2. CASE /\ record[r] # "running" /\ UNCHANGED record
             /\ watch' = [watch EXCEPT ![t].step = "ended"]
    <3>1. /\ watch' \in [Transfers -> Watching]
          /\ watch'[t].step = "ended" /\ watch'[t].say = watch[t].say
          /\ \A u \in Transfers : u # t => watch'[u] = watch[u]
      BY <2>2, WatchGoes DEF WatchSteps
    <3> QED BY <1>0, <2>2, <3>1
  <2> QED BY <1>2, <2>1, <2>2
<1>5. record'[r] \in Ended
  BY <1>0, <1>3, <1>4 DEF States, Ended
<1>6. HistoryTyped'
  BY <1>2, <1>3, <1>5, RememberAdds DEF HistoryTyped
<1> QED BY <1>1, <1>2, <1>4, <1>5, <1>6

\* The watcher tells the clients what it has learnt.
LEMMA WatcherTells ==
  ASSUME TransfersConstants, TypeOK, NEW t \in Transfers, WatchTells(t)
  PROVE  /\ watch[t].step = "tell" /\ UNCHANGED <<events, record, records, armed, history>>
         /\ watch' \in [Transfers -> Watching] /\ watch'[t].say = watch[t].say
         /\ \A u \in Transfers : u # t => watch'[u] = watch[u]
         /\ watch'[t].step = IF watch[t].say \in Endings THEN "ended" ELSE "loop"
         /\ QueuesTyped'
         /\ \A k \in Clients : \A x : In(x, queue'[k]) =>
              In(x, queue[k]) \/ x = [id |-> CodeOf[t], type |-> watch[t].say]
<1> DEFINE e == [id |-> CodeOf[t], type |-> watch[t].say]
           s == IF watch[t].say \in Endings THEN "ended" ELSE "loop"
<1>1. /\ watch[t].step = "tell" /\ UNCHANGED <<events, record, records, armed, history>>
      /\ Broadcast(e) /\ watch' = [watch EXCEPT ![t].step = s]
  BY DEF WatchTells, lanternVars, daemonVars
<1>2. e \in Event /\ s \in WatchSteps
  <2>1. watch[t] \in Watching
    BY DEF TypeOK, Watching, WatchSteps
  <2> QED BY <2>1 DEF Watching, Event, WatchSteps, TransfersConstants
<1> HIDE DEF e, s
<1>3. /\ watch' \in [Transfers -> Watching] /\ watch'[t].step = s /\ watch'[t].say = watch[t].say
      /\ \A u \in Transfers : u # t => watch'[u] = watch[u]
  BY <1>1, <1>2, WatchGoes
<1>4. /\ queue' \in [Clients -> Seq(Event)]
      /\ \A k \in Clients : /\ Len(queue'[k]) <= ClientBuffer
                            /\ \A x : In(x, queue'[k]) => In(x, queue[k]) \/ x = e
  BY <1>1, <1>2, BroadcastAdds
<1> QED BY <1>1, <1>3, <1>4 DEF e, s, QueuesTyped

CancelSteps == {"idle", "close", "mark", "tell", "over"}

LEMMA CancelGoes ==
  ASSUME TypeOK, NEW t \in Transfers, NEW a \in Callers, NEW s \in CancelSteps, CancelGoto(t, a, s)
  PROVE  /\ cancel' \in [Transfers -> [Callers -> CancelSteps]] /\ cancel'[t][a] = s
         /\ \A u \in Transfers, b \in Callers : u # t \/ b # a => cancel'[u][b] = cancel[u][b]
<1>1. /\ cancel \in [Transfers -> [Callers -> CancelSteps]]
      /\ cancel' = [cancel EXCEPT ![t] = [cancel[t] EXCEPT ![a] = s]]
  BY DEF TypeOK, CancelSteps, CancelGoto
<1>2. [cancel[t] EXCEPT ![a] = s] \in [Callers -> CancelSteps]
  BY <1>1
<1> QED BY <1>1, <1>2

\* A step of Cancel(t): the call has begun, the session and the record may become
\* "canceled" if they still run, and the frame is about its code.
LEMMA CancelsOwn ==
  ASSUME TransfersConstants, TypeOK, NEW t \in Transfers, NEW a \in Callers, Cancelling(t, a)
  PROVE  /\ cancel' \in [Transfers -> [Callers -> CancelSteps]] /\ cancel'[t][a] # "idle"
         /\ \A u \in Transfers, b \in Callers : cancel[u][b] # "idle" => cancel'[u][b] # "idle"
         /\ session' \in [Transfers -> States] /\ record' \in [Transfers -> States]
         /\ \A u \in Transfers :
              /\ \/ session'[u] = session[u]
                 \/ u = t /\ session[t] = "running" /\ session'[t] = "canceled"
              /\ \/ record'[u] = record[u]
                 \/ u = t /\ record[t] = "running" /\ record'[t] = "canceled"
         /\ armed' \subseteq Timed /\ QueuesTyped'
         /\ \A k \in Clients : \A x : In(x, queue'[k]) =>
              In(x, queue[k]) \/ x = [id |-> CodeOf[t], type |-> "cancelled"]
<1>0. /\ cancel \in [Transfers -> [Callers -> CancelSteps]] /\ session \in [Transfers -> States]
      /\ record \in [Transfers -> States] /\ armed \subseteq Timed /\ QueuesTyped
      /\ "canceled" \in States /\ "canceled" \in Ended
  BY DEF TypeOK, CancelSteps, QueuesTyped, States, Ended
<1>1. ASSUME NEW s \in CancelSteps \ {"idle"}, CancelGoto(t, a, s)
      PROVE  /\ cancel' \in [Transfers -> [Callers -> CancelSteps]] /\ cancel'[t][a] # "idle"
             /\ \A u \in Transfers, b \in Callers : cancel[u][b] # "idle" => cancel'[u][b] # "idle"
  BY <1>1, CancelGoes
<1>2. CASE CancelStarts(t, a)
  <2> DEFINE s == IF record[t] = "running" THEN "close" ELSE "over"
  <2>1. CancelGoto(t, a, s) /\ armed' = armed \ {t} /\ UNCHANGED <<session, record, queue>>
    BY <1>2 DEF CancelStarts, lanternVars, clientVars
  <2>2. s \in CancelSteps \ {"idle"}
    BY DEF CancelSteps
  <2> HIDE DEF s
  <2> QED BY <1>0, <1>1, <2>1, <2>2 DEF QueuesTyped
<1>3. CASE CancelCloses(t, a)
  <2>1. CancelGoto(t, a, "mark") /\ Finish({t}, "canceled") /\ UNCHANGED <<armed, record, queue>>
    BY <1>3 DEF CancelCloses, daemonVars, clientVars
  <2>2. "mark" \in CancelSteps \ {"idle"}
    BY DEF CancelSteps
  <2>3. /\ session' \in [Transfers -> States]
        /\ \A u \in Transfers : \/ session'[u] = session[u]
                                \/ u = t /\ session[t] = "running" /\ session'[t] = "canceled"
    BY <1>0, <2>1, FinishOnce
  <2> QED BY <1>0, <1>1, <2>1, <2>2, <2>3 DEF QueuesTyped
<1>4. CASE CancelMarks(t, a)
  <2>1. /\ CancelGoto(t, a, "tell") /\ UNCHANGED <<session, armed, queue>>
        /\ record' = IF record[t] = "running" THEN [record EXCEPT ![t] = "canceled"] ELSE record
    BY <1>4 DEF CancelMarks, lanternVars, clientVars
  <2>2. "tell" \in CancelSteps \ {"idle"}
    BY DEF CancelSteps
  <2>3. /\ record' \in [Transfers -> States]
        /\ \A u \in Transfers : \/ record'[u] = record[u]
                                \/ u = t /\ record[t] = "running" /\ record'[t] = "canceled"
    BY <1>0, <2>1
  <2> QED BY <1>0, <1>1, <2>1, <2>2, <2>3 DEF QueuesTyped
<1>5. CASE CancelTells(t, a)
  <2> DEFINE e == [id |-> CodeOf[t], type |-> "cancelled"]
  <2>1. CancelGoto(t, a, "over") /\ Broadcast(e) /\ UNCHANGED <<session, record, armed>>
    BY <1>5 DEF CancelTells, lanternVars, daemonVars
  <2>2. "over" \in CancelSteps \ {"idle"} /\ e \in Event
    BY DEF CancelSteps, Event, Endings, TransfersConstants
  <2> HIDE DEF e
  <2>3. /\ queue' \in [Clients -> Seq(Event)]
        /\ \A k \in Clients : /\ Len(queue'[k]) <= ClientBuffer
                              /\ \A x : In(x, queue'[k]) => In(x, queue[k]) \/ x = e
    BY <2>1, <2>2, BroadcastAdds
  <2> QED BY <1>0, <1>1, <2>1, <2>2, <2>3 DEF QueuesTyped, e
<1> QED BY <1>2, <1>3, <1>4, <1>5 DEF Cancelling, Canceller

CommandSteps == {"idle", "opening", "stream", "polling", "told", "gone"}
Commands == [step : CommandSteps, of : Codes, told : States]

LEMMA CommandGoes ==
  ASSUME TypeOK, NEW k \in Clients, NEW s \in CommandSteps, client' = [client EXCEPT ![k].step = s]
  PROVE  /\ client' \in [Clients -> Commands]
         /\ \A j \in Clients : client'[j].of = client[j].of /\ client'[j].told = client[j].told
<1>1. client \in [Clients -> Commands] /\ client' = [client EXCEPT ![k] = [client[k] EXCEPT !.step = s]]
  BY DEF TypeOK, Commands, CommandSteps
<1>2. client[k] \in Commands /\ [client[k] EXCEPT !.step = s] \in Commands
  BY <1>1 DEF Commands
<1> QED BY <1>1, <1>2 DEF Commands

LEMMA CommandTold ==
  ASSUME TypeOK, NEW k \in Clients, NEW st \in States, Tell(k, st)
  PROVE  /\ client' \in [Clients -> Commands] /\ client'[k].told = st
         /\ client'[k].of = client[k].of
         /\ \A j \in Clients : j # k => client'[j] = client[j]
<1> DEFINE c == [[client[k] EXCEPT !.step = "told"] EXCEPT !.told = st]
<1>1. client \in [Clients -> Commands] /\ client' = [client EXCEPT ![k] = c]
  BY DEF TypeOK, Commands, CommandSteps, Tell
<1>2. client[k] \in Commands
  BY <1>1
<1>3. c \in Commands /\ c.told = st /\ c.of = client[k].of
  BY <1>2 DEF Commands, CommandSteps
<1> HIDE DEF c
<1> QED BY <1>1, <1>3

\* What a command is told is the ending a frame about its code names, or its record's.
LEMMA CommandLearns ==
  ASSUME TransfersConstants, TypeOK, NEW k \in Clients, Command(k)
  PROVE  /\ client' \in [Clients -> Commands] /\ QueuesTyped'
         /\ \A j \in Clients : \A x : In(x, queue'[j]) => In(x, queue[j])
         /\ \A j \in Clients :
              \/ client'[j].of = client[j].of /\ client'[j].told = client[j].told
              \/ client'[j].told = "none"
              \/ \E r \in Transfers : client'[j].of = CodeOf[r] /\ client'[j].told = record[r]
              \/ \E x \in Event : /\ In(x, queue[j]) /\ x.id = client'[j].of
                                  /\ x.type \in Endings /\ FrameType(client'[j].told) = x.type
<1>0. /\ client \in [Clients -> Commands] /\ record \in [Transfers -> States] /\ QueuesTyped
      /\ records \subseteq Transfers /\ CodeOf \in [Transfers -> Codes]
      /\ Len(<<>>) = 0 /\ <<>> \in Seq(Event) /\ ClientBuffer \in Nat
  BY DEF TypeOK, Commands, CommandSteps, QueuesTyped, TransfersConstants
<1>1. ASSUME queue' = [queue EXCEPT ![k] = <<>>]
      PROVE  QueuesTyped' /\ \A j \in Clients : \A x : In(x, queue'[j]) => In(x, queue[j])
  <2>1. queue' \in [Clients -> Seq(Event)] /\ \A j \in Clients : queue'[j] = IF j = k THEN <<>> ELSE queue[j]
    BY <1>0, <1>1 DEF QueuesTyped
  <2>2. \A x : ~In(x, <<>>)
    BY DEF In
  <2>3. Len(<<>>) <= ClientBuffer
    BY <1>0
  <2> QED BY <1>0, <2>1, <2>2, <2>3 DEF QueuesTyped
<1>2. CASE Subscribe(k)
  <2>1. client' = [client EXCEPT ![k].step = "stream"] /\ queue' = queue /\ "stream" \in CommandSteps
    BY <1>2 DEF Subscribe, CommandSteps
  <2> QED BY <1>0, <2>1, CommandGoes DEF QueuesTyped
<1>3. CASE StreamDrops(k)
  <2>1. /\ client' = [client EXCEPT ![k].step = "polling"] /\ queue' = [queue EXCEPT ![k] = <<>>]
        /\ "polling" \in CommandSteps
    BY <1>3 DEF StreamDrops, CommandSteps
  <2> QED BY <1>1, <2>1, CommandGoes
<1>4. CASE Interrupt(k)
  <2>1. /\ client' = [client EXCEPT ![k].step = "gone"] /\ queue' = [queue EXCEPT ![k] = <<>>]
        /\ "gone" \in CommandSteps
    BY <1>4 DEF Interrupt, CommandSteps
  <2> QED BY <1>1, <2>1, CommandGoes
<1>5. CASE Read(k)
  <2> DEFINE e == Head(queue[k])
  <2>1. /\ queue[k] # <<>> /\ queue' = [queue EXCEPT ![k] = Tail(queue[k])]
        /\ IF e.id = client[k].of /\ e.type \in Endings THEN Tell(k, Meaning(e.type)) ELSE UNCHANGED client
    BY <1>5 DEF Read
  <2>2. /\ Tail(queue[k]) \in Seq(Event) /\ Len(Tail(queue[k])) = Len(queue[k]) - 1
        /\ Len(queue[k]) \in Nat \ {0} /\ e \in Event /\ In(e, queue[k])
        /\ \A x : In(x, Tail(queue[k])) => In(x, queue[k])
    BY <1>0, <2>1, QueueTail DEF QueuesTyped
  <2> HIDE DEF e
  <2>3. QueuesTyped' /\ \A j \in Clients : \A x : In(x, queue'[j]) => In(x, queue[j])
    <3>1. queue' \in [Clients -> Seq(Event)]
          /\ \A j \in Clients : queue'[j] = IF j = k THEN Tail(queue[k]) ELSE queue[j]
      BY <1>0, <2>1, <2>2 DEF QueuesTyped
    <3>2. Len(queue[k]) - 1 <= ClientBuffer
      BY <1>0, <2>2 DEF QueuesTyped
    <3> QED BY <1>0, <2>2, <3>1, <3>2 DEF QueuesTyped
  <2>4. CASE e.id = client[k].of /\ e.type \in Endings
    <3>1. Meaning(e.type) \in States /\ FrameType(Meaning(e.type)) = e.type
      BY <2>4 DEF Meaning, States, FrameType, Endings
    <3>2. /\ client' \in [Clients -> Commands] /\ client'[k].told = Meaning(e.type)
          /\ client'[k].of = client[k].of /\ \A j \in Clients : j # k => client'[j] = client[j]
      BY <2>1, <2>4, <3>1, CommandTold
    <3>3. \A j \in Clients : j = k =>
            \E x \in Event : /\ In(x, queue[j]) /\ x.id = client'[j].of
                             /\ x.type \in Endings /\ FrameType(client'[j].told) = x.type
      BY <2>2, <2>4, <3>1, <3>2
    <3> QED BY <2>3, <3>2, <3>3
  <2>5. CASE ~(e.id = client[k].of /\ e.type \in Endings)
    BY <1>0, <2>1, <2>3, <2>5
  <2> QED BY <2>4, <2>5
<1>6. CASE Poll(k)
  <2>1. PICK r \in Transfers : CodeOf[r] = client[k].of /\ Tell(k, record[r]) /\ queue' = queue
    BY <1>0, <1>6 DEF Poll
  <2>2. /\ client' \in [Clients -> Commands] /\ client'[k].told = record[r]
        /\ client'[k].of = client[k].of /\ \A j \in Clients : j # k => client'[j] = client[j]
    BY <1>0, <2>1, CommandTold
  <2> QED BY <1>0, <2>1, <2>2 DEF QueuesTyped
<1>7. ASSUME NEW t \in Transfers, Follow(k, t)
      PROVE  /\ client' \in [Clients -> Commands] /\ queue' = queue
             /\ \A j \in Clients : \/ client'[j] = client[j]
                                   \/ client'[j].told = "none"
                                   \/ client'[j].of = CodeOf[t] /\ client'[j].told = record[t]
  <2> DEFINE c == IF record[t] \in Ended THEN [step |-> "told", of |-> CodeOf[t], told |-> record[t]]
                  ELSE [step |-> "opening", of |-> CodeOf[t], told |-> "none"]
  <2>1. client' = [client EXCEPT ![k] = c] /\ queue' = queue
    BY <1>7 DEF Follow
  <2>2. c \in Commands /\ c.of = CodeOf[t] /\ (c.told = "none" \/ c.told = record[t])
    BY <1>0 DEF Commands, CommandSteps, States
  <2> HIDE DEF c
  <2> QED BY <1>0, <2>1, <2>2
<1> QED BY <1>0, <1>2, <1>3, <1>4, <1>5, <1>6, <1>7 DEF Command, Client, QueuesTyped

-----------------------------------------------------------------------------
(* Types *)

LEMMA SessionTypes ==
  ASSUME TransfersConstants, TypeOK, NEW t \in Transfers, Session(t)
  PROVE  /\ reports' \in [Transfers -> 0..MaxProgress]
         /\ subs' \subseteq Transfers /\ armed' \subseteq Timed
<1>0. reports \in [Transfers -> 0..MaxProgress] /\ subs \subseteq Transfers /\ armed \subseteq Timed
  BY DEF TypeOK
<1>1. CASE Progress(t)
  <2>1. reports[t] < MaxProgress /\ reports' = [reports EXCEPT ![t] = reports[t] + 1]
        /\ UNCHANGED <<subs, armed>>
    BY <1>1 DEF Progress, daemonVars
  <2>2. reports[t] + 1 \in 0..MaxProgress
    BY <1>0, <2>1 DEF TransfersConstants
  <2> QED BY <1>0, <2>1, <2>2
<1>2. CASE ~Progress(t)
  <2>1. reports' = reports
    BY <1>2 DEF Session, OpenSession, OpenFails, AddRecord, Unsubscribe, EndTransfer, lanternVars
  <2>2. subs' \subseteq Transfers
    BY <1>0, <1>2
    DEF Session, OpenSession, OpenFails, AddRecord, Unsubscribe, EndTransfer, lanternVars
  <2>3. armed' \subseteq Timed
    BY <1>0, <1>2
    DEF Session, OpenSession, OpenFails, AddRecord, Unsubscribe, EndTransfer, daemonVars
  <2> QED BY <1>0, <2>1, <2>2, <2>3
<1> QED BY <1>1, <1>2

LEMMA TypesKept ==
  ASSUME TransfersConstants, TypeOK, Watched, [Next]_vars
  PROVE  TypeOK'
<1> DEFINE Typed ==
      /\ EventsTyped /\ QueuesTyped /\ HistoryTyped
      /\ watch \in [Transfers -> Watching] /\ client \in [Clients -> Commands]
      /\ cancel \in [Transfers -> [Callers -> CancelSteps]]
      /\ session \in [Transfers -> States] /\ record \in [Transfers -> States]
      /\ subs \subseteq Transfers /\ armed \subseteq Timed /\ records \subseteq Transfers
      /\ reports \in [Transfers -> 0..MaxProgress]
      /\ outcome \in [Transfers -> {"none", "done", "error"}]
<1>1. Typed
  BY DEF TypeOK, EventsTyped, QueuesTyped, HistoryTyped, Watching, WatchSteps, Commands, CommandSteps,
         CancelSteps, Entry
<1>2. Typed' => TypeOK'
  BY DEF TypeOK, EventsTyped, QueuesTyped, HistoryTyped, Watching, WatchSteps, Commands, CommandSteps,
         CancelSteps, Entry
<1>3. ASSUME NEW t \in Transfers, Session(t) PROVE Typed'
  <2>1. UNCHANGED <<history, client, queue, cancel>>
    BY <1>3, SessionFrame
  <2>2. EventsTyped' /\ session' \in [Transfers -> States]
        /\ outcome' \in [Transfers -> {"none", "done", "error"}]
    BY <1>3, SessionReports
  <2>3. /\ watch' \in [Transfers -> Watching] /\ record' \in [Transfers -> States]
        /\ records' \subseteq records \cup {t}
    BY <1>3, SessionSteps
  <2>4. /\ reports' \in [Transfers -> 0..MaxProgress]
        /\ subs' \subseteq Transfers /\ armed' \subseteq Timed
    BY <1>3, SessionTypes
  <2> QED BY <1>1, <2>1, <2>2, <2>3, <2>4 DEF QueuesTyped, HistoryTyped
<1>4. ASSUME NEW t \in Transfers, Watcher(t) PROVE Typed'
  <2>1. UNCHANGED <<session, subs, reports, outcome, client, cancel>>
    BY <1>4, WatcherFrame
  <2>2. CASE WatchEvent(t)
    <3>1. /\ watch' \in [Transfers -> Watching] /\ EventsTyped' /\ armed' \subseteq Timed
          /\ UNCHANGED <<queue, records>>
          /\ UNCHANGED <<record, history>> \/ (record' \in [Transfers -> States] /\ HistoryTyped')
      BY <2>2, WatcherTakes
    <3> QED BY <1>1, <2>1, <3>1 DEF QueuesTyped, HistoryTyped
  <2>3. CASE WatchClosed(t)
    <3>1. /\ watch' \in [Transfers -> Watching] /\ record' \in [Transfers -> States]
          /\ HistoryTyped' /\ UNCHANGED <<events, queue, armed, records>>
      BY <2>3, WatcherEnds
    <3> QED BY <1>1, <2>1, <3>1 DEF QueuesTyped, EventsTyped
  <2>4. CASE WatchTells(t)
    <3>1. /\ watch' \in [Transfers -> Watching] /\ QueuesTyped'
          /\ UNCHANGED <<events, record, records, armed, history>>
      BY <2>4, WatcherTells
    <3> QED BY <1>1, <2>1, <3>1 DEF HistoryTyped, EventsTyped
  <2> QED BY <1>4, <2>2, <2>3, <2>4 DEF Watcher
<1>5. ASSUME NEW t \in Transfers, NEW a \in Callers, Cancelling(t, a) PROVE Typed'
  <2>1. UNCHANGED <<subs, events, reports, outcome, records, history, client, watch>>
    BY <1>5, CancelFrame
  <2>2. /\ cancel' \in [Transfers -> [Callers -> CancelSteps]]
        /\ session' \in [Transfers -> States] /\ record' \in [Transfers -> States]
        /\ armed' \subseteq Timed /\ QueuesTyped'
    BY <1>5, CancelsOwn
  <2> QED BY <1>1, <2>1, <2>2 DEF HistoryTyped, EventsTyped
<1>6. ASSUME NEW k \in Clients, Command(k) PROVE Typed'
  <2>1. UNCHANGED <<lanternVars, daemonVars, watch, cancel>>
    BY <1>6, CommandFrame
  <2>2. client' \in [Clients -> Commands] /\ QueuesTyped'
    BY <1>6, CommandLearns
  <2> QED BY <1>1, <2>1, <2>2 DEF HistoryTyped, EventsTyped, lanternVars, daemonVars
<1>7. ASSUME UNCHANGED vars PROVE Typed'
  <2>1. /\ UNCHANGED <<session, subs, events, reports, outcome, record, records, armed, history>>
        /\ UNCHANGED <<client, queue>>
        /\ UNCHANGED <<watch, cancel>>
    BY <1>7 DEF vars, lanternVars, daemonVars, clientVars
  <2> QED BY <1>1, <2>1 DEF HistoryTyped, EventsTyped, QueuesTyped
<1> HIDE DEF Typed
<1> QED BY <1>2, <1>3, <1>4, <1>5, <1>6, <1>7, StepKinds

-----------------------------------------------------------------------------
(* The watcher, its record and its session *)

\* A watcher's step makes no record and unmakes none.
LEMMA WatcherRecords ==
  ASSUME TransfersConstants, TypeOK, Watched, NEW t \in Transfers, Watcher(t)
  PROVE  /\ records' = records
         /\ \A u \in Transfers : record'[u] # "none" <=> record[u] # "none"
<1>1. CASE WatchEvent(t)
  <2>1. /\ records' = records
        /\ \/ UNCHANGED record
           \/ \E r \in records : /\ record'[r] \in {"done", "failed"}
                                 /\ \A u \in Transfers : u # r => record'[u] = record[u]
    BY <1>1, WatcherTakes
  <2>2. \A r \in records : r \in Transfers /\ record[r] # "none"
    BY DEF TypeOK, Watched, WatchedOf
  <2> QED BY <2>1, <2>2
<1>2. CASE WatchClosed(t)
  <2>1. /\ records' = records
        /\ \E r \in records : /\ record'[r] \in Ended
                              /\ \A u \in Transfers : u # r => record'[u] = record[u]
    BY <1>2, WatcherEnds
  <2>2. \A r \in records : r \in Transfers /\ record[r] # "none"
    BY DEF TypeOK, Watched, WatchedOf
  <2> QED BY <2>1, <2>2 DEF Ended
<1>3. CASE WatchTells(t)
  BY <1>3, WatcherTells
<1> QED BY <1>1, <1>2, <1>3 DEF Watcher

\* Which watcher moves, and from where to where.
LEMMA WatcherMoves ==
  ASSUME TransfersConstants, TypeOK, Watched, NEW t \in Transfers, Watcher(t)
  PROVE  /\ watch[t].step \in {"loop", "tell"} /\ watch'[t].step \in {"loop", "tell", "ended"}
         /\ \A u \in Transfers : u # t => watch'[u] = watch[u]
<1>1. WatchEvent(t) => /\ watch[t].step = "loop" /\ watch'[t].step = "tell"
                       /\ \A u \in Transfers : u # t => watch'[u] = watch[u]
  BY WatcherTakes
<1>2. WatchClosed(t) => /\ watch[t].step = "loop" /\ watch'[t].step \in {"tell", "ended"}
                        /\ \A u \in Transfers : u # t => watch'[u] = watch[u]
  BY WatcherEnds
<1>3. WatchTells(t) => /\ watch[t].step = "tell" /\ watch'[t].step \in {"loop", "ended"}
                       /\ \A u \in Transfers : u # t => watch'[u] = watch[u]
  BY WatcherTells
<1> QED BY <1>1, <1>2, <1>3 DEF Watcher

LEMMA WatchedKept ==
  ASSUME TransfersConstants, TypeOK, Watched, [Next]_vars
  PROVE  Watched'
<1> SUFFICES ASSUME NEW u \in Transfers PROVE WatchedOf(u)'
  BY DEF Watched
<1>0. WatchedOf(u)
  BY DEF Watched
<1>1. ASSUME NEW t \in Transfers, Session(t) PROVE WatchedOf(u)'
  <2>1. /\ \/ watch'[u].step = watch[u].step
           \/ u = t /\ watch[t].step = "none" /\ record[t] = "none" /\ session[t] # "none"
              /\ watch'[t].step = IF record'[t] = "running" THEN "loop" ELSE "ended"
        /\ \/ record'[u] = record[u]
           \/ u = t /\ record[t] = "none" /\ record'[t] = "running" /\ session[t] # "none"
        /\ \/ records' = records
           \/ /\ records' = {s \in records : ~SameCode(s, t)} \cup {t}
              /\ record'[t] = "running" /\ watch'[t].step = "loop"
    BY <1>1, SessionSteps
  <2>2. /\ \/ session'[u] = session[u]
           \/ session[u] = "none" /\ session'[u] = "running" /\ u \in subs'
           \/ session[u] = "running" /\ session'[u] \in {"done", "failed"}
           \/ session[u] = "running" /\ session'[u] = "canceled"
        /\ u \notin subs' => u \notin subs \/ session[u] \in Ended
    BY <1>1, SessionReports
  <2>3. u \in records' => record'[u] # "none"
    BY <1>0, <2>1 DEF WatchedOf
  <2>4. record'[u] # "none" => watch'[u].step # "none"
    <3>1. CASE record'[u] = record[u]
      BY <1>0, <2>1, <3>1 DEF WatchedOf
    <3>2. CASE u = t /\ record[t] = "none" /\ record'[t] = "running"
      <4>1. watch'[t].step # "none"
        <5>1. AddRecord(t)
          BY <1>1, <3>2 DEF Session, OpenSession, OpenFails, Progress, Unsubscribe, EndTransfer, daemonVars
        <5>2. watch' = [watch EXCEPT ![t].step = "loop"]
          BY <5>1 DEF AddRecord
        <5> QED BY <5>2, WatchGoes DEF WatchSteps
      <4> QED BY <3>2, <4>1
    <3> QED BY <2>1, <3>1, <3>2
  <2> QED BY <1>0, <2>1, <2>2, <2>3, <2>4 DEF Ended, WatchedOf
<1>2. ASSUME NEW t \in Transfers, Watcher(t) PROVE WatchedOf(u)'
  <2>1. UNCHANGED <<session, subs>>
    BY <1>2, WatcherFrame
  <2>2. records' = records /\ (record'[u] # "none" <=> record[u] # "none")
    BY <1>2, WatcherRecords
  <2>3. /\ watch[t].step \in {"loop", "tell"} /\ watch'[t].step \in {"loop", "tell", "ended"}
        /\ u # t => watch'[u] = watch[u]
    BY <1>2, WatcherMoves
  <2> QED BY <1>0, <2>1, <2>2, <2>3 DEF WatchedOf
<1>3. ASSUME NEW t \in Transfers, NEW a \in Callers, Cancelling(t, a) PROVE WatchedOf(u)'
  <2>1. UNCHANGED <<subs, watch, records>>
    BY <1>3, CancelFrame
  <2>2. /\ session'[u] = session[u] \/ (session[u] = "running" /\ session'[u] = "canceled")
        /\ record'[u] = record[u] \/ (record[u] = "running" /\ record'[u] = "canceled")
    BY <1>3, CancelsOwn
  <2> QED BY <1>0, <2>1, <2>2 DEF Ended, WatchedOf
<1>4. ASSUME NEW k \in Clients, Command(k) PROVE WatchedOf(u)'
  BY <1>0, <1>4, CommandFrame DEF lanternVars, daemonVars, WatchedOf
<1>5. CASE UNCHANGED vars
  BY <1>0, <1>5 DEF vars, lanternVars, daemonVars, WatchedOf
<1> QED BY <1>1, <1>2, <1>3, <1>4, <1>5, StepKinds

LEMMA OneOfACodeKept ==
  ASSUME TransfersConstants, TypeOK, Watched, OneOfACode, [Next]_vars
  PROVE  OneOfACode'
<1>1. ASSUME records' = records PROVE OneOfACode'
  BY <1>1 DEF OneOfACode
<1>2. ASSUME NEW t \in Transfers, Session(t) PROVE OneOfACode'
  <2>1. CASE records' = records
    BY <1>1, <2>1
  <2>2. CASE records' = {s \in records : ~SameCode(s, t)} \cup {t}
    BY <2>2 DEF OneOfACode, SameCode
  <2> QED BY <1>2, <2>1, <2>2, SessionSteps
<1>3. (\E t \in Transfers : Session(t)) \/ records' = records
  BY StepKinds, WatcherRecords, CancelFrame, CommandFrame DEF vars, daemonVars
<1> QED BY <1>1, <1>2, <1>3

\* A watcher has taken its last event for good.
LEMMA SettledStays ==
  ASSUME TransfersConstants, TypeOK, Watched, [Next]_vars, NEW u \in Transfers, Settled(u)
  PROVE  Settled(u)'
<1>0. watch[u].step \in {"tell", "ended"}
  BY DEF Settled
<1>1. ASSUME NEW t \in Transfers, Session(t) PROVE Settled(u)'
  <2>1. /\ watch'[u].say = watch[u].say
        /\ watch'[u].step = watch[u].step \/ watch[u].step = "none"
    BY <1>1, SessionSteps
  <2> QED BY <1>0, <2>1 DEF Settled
<1>2. ASSUME NEW t \in Transfers, Watcher(t) PROVE Settled(u)'
  <2>1. CASE u = t
    <3>1. WatchTells(t)
      <4>1. WatchEvent(t) \/ WatchClosed(t) => watch[t].step = "loop"
        BY DEF WatchEvent, WatchClosed
      <4> QED BY <1>0, <1>2, <2>1, <4>1 DEF Watcher
    <3>2. watch[t].step = "tell"
          /\ watch'[t].step = IF watch[t].say \in Endings THEN "ended" ELSE "loop"
      BY <3>1, WatcherTells
    <3> QED BY <2>1, <3>2 DEF Settled
  <2>2. CASE u # t
    <3>1. watch'[u] = watch[u]
      <4>1. WatchEvent(t) => watch'[u] = watch[u]
        BY <2>2, WatcherTakes
      <4>2. WatchClosed(t) => watch'[u] = watch[u]
        BY <2>2, WatcherEnds
      <4>3. WatchTells(t) => watch'[u] = watch[u]
        BY <2>2, WatcherTells
      <4> QED BY <1>2, <4>1, <4>2, <4>3 DEF Watcher
    <3> QED BY <3>1 DEF Settled
  <2> QED BY <2>1, <2>2
<1>3. ASSUME NEW t \in Transfers, NEW a \in Callers, Cancelling(t, a) PROVE Settled(u)'
  <2>1. watch' = watch
    BY <1>3, CancelFrame
  <2> QED BY <2>1 DEF Settled
<1>4. ASSUME NEW k \in Clients, Command(k) PROVE Settled(u)'
  <2>1. watch' = watch
    BY <1>4, CommandFrame
  <2> QED BY <2>1 DEF Settled
<1>5. CASE UNCHANGED vars
  BY <1>5 DEF vars, Settled
<1> QED BY <1>1, <1>2, <1>3, <1>4, <1>5, StepKinds

\* Once somebody called Cancel, or a transfer came to an ending, it stays so.
LEMMA CancelledStays ==
  ASSUME TransfersConstants, TypeOK, [Next]_vars, NEW u \in Transfers, Cancelled(u)
  PROVE  Cancelled(u)'
<1>1. ASSUME NEW t \in Transfers, NEW a \in Callers, Cancelling(t, a) PROVE Cancelled(u)'
  <2>1. \A b \in Callers : cancel[u][b] # "idle" => cancel'[u][b] # "idle"
    BY <1>1, CancelsOwn
  <2> QED BY <2>1 DEF Cancelled
<1>2. CASE UNCHANGED cancel
  BY <1>2 DEF Cancelled
<1>3. \/ \E t \in Transfers, a \in Callers : Cancelling(t, a)
      \/ UNCHANGED cancel
  BY StepKinds, SessionFrame, WatcherFrame, CommandFrame DEF vars
<1> QED BY <1>1, <1>2, <1>3

LEMMA OutcomeStays ==
  ASSUME TransfersConstants, TypeOK, [Next]_vars, NEW u \in Transfers
  PROVE  outcome[u] # "none" => outcome'[u] = outcome[u]
<1>1. ASSUME NEW t \in Transfers, Session(t) PROVE outcome'[u] = outcome[u] \/ outcome[u] = "none"
  BY <1>1, SessionReports
<1>2. (\E t \in Transfers : Session(t)) \/ UNCHANGED outcome
  BY StepKinds, WatcherFrame, CancelFrame, CommandFrame DEF vars, lanternVars
<1> QED BY <1>1, <1>2

\* What is vouched for after the step.
Vouches(c, type) ==
  /\ type \in {"done", "error"} => \E v \in Transfers : outcome'[v] = type
  /\ type = "cancelled" =>
       \E t \in Transfers : CodeOf[t] = c /\ \E a \in Callers : cancel'[t][a] # "idle"

LEMMA VouchedStays ==
  ASSUME TransfersConstants, TypeOK, [Next]_vars, NEW c, NEW type, Vouched(c, type)
  PROVE  Vouches(c, type)
<1>1. CASE type \in {"done", "error"}
  <2>1. PICK v \in Transfers : outcome[v] = type
    BY <1>1 DEF Vouched, Happened
  <2>2. outcome'[v] = type
    BY <1>1, <2>1, OutcomeStays
  <2> QED BY <1>1, <2>2 DEF Vouches
<1>2. CASE type = "cancelled"
  <2>1. PICK t \in Transfers : CodeOf[t] = c /\ Cancelled(t)
    BY <1>2 DEF Vouched, CodeCancelled
  <2>2. \E a \in Callers : cancel'[t][a] # "idle"
    BY <2>1, CancelledStays DEF Cancelled
  <2> QED BY <1>2, <2>1, <2>2 DEF Vouches
<1>3. CASE type \notin {"done", "error", "cancelled"}
  BY <1>3 DEF Vouches
<1> QED BY <1>1, <1>2, <1>3

LEMMA SoundStays ==
  ASSUME TransfersConstants, TypeOK, [Next]_vars, NEW x, Sound(x)
  PROVE  Sound(x)'
<1>1. x \in Event /\ x.type # "cancelled" /\ x.type \in {"done", "error", "progress"}
  BY DEF Sound, Event, Endings
<1>2. CASE x.type # "progress"
  <2>1. PICK t \in Transfers : CodeOf[t] = x.id /\ outcome[t] = x.type
    BY <1>2 DEF Sound
  <2>2. outcome'[t] = x.type
    BY <1>1, <1>2, <2>1, OutcomeStays
  <2> QED BY <1>1, <2>1, <2>2 DEF Sound
<1> QED BY <1>1, <1>2 DEF Sound

-----------------------------------------------------------------------------
(* The history *)

\* Cancel marks only a record that runs, and no entry says that one runs.
LEMMA HistoryKept ==
  ASSUME TransfersConstants, TypeOK, Watched, HistoryAgrees, [Next]_vars
  PROVE  HistoryAgrees'
<1> DEFINE Frozen == history' = history /\ \A u \in Transfers :
                       record[u] \in Ended => record'[u] = record[u]
<1>1. ASSUME Frozen PROVE HistoryAgrees'
  <2> SUFFICES ASSUME NEW i \in DOMAIN history,
                      \A j \in DOMAIN history : j > i => history[j].of # history[i].of
               PROVE  record'[history[i].of] = history[i].state
    BY <1>1 DEF HistoryAgrees
  <2>0. history \in Seq(Entry)
    BY DEF TypeOK, Entry
  <2>1. history[i] \in Entry
    BY <2>0
  <2>2. record[history[i].of] = history[i].state
    BY DEF HistoryAgrees
  <2> QED BY <1>1, <2>1, <2>2 DEF Entry
<1>2. ASSUME NEW t \in Transfers, Session(t) PROVE Frozen
  <2>1. history' = history
    BY <1>2, SessionFrame
  <2>2. \A u \in Transfers : record'[u] = record[u] \/ record[u] = "none"
    BY <1>2, SessionSteps
  <2> QED BY <2>1, <2>2 DEF Ended
<1>3. ASSUME NEW t \in Transfers, Watcher(t) PROVE HistoryAgrees'
  <2>0. records \subseteq Transfers
    BY DEF TypeOK
  <2>1. CASE WatchEvent(t)
    <3>1. \/ UNCHANGED <<record, history>>
          \/ \E r \in records : /\ record'[r] \in Ended /\ Remember(r, record'[r])
                                /\ \A u \in Transfers : u # r => record'[u] = record[u]
      BY <2>1, WatcherTakes DEF Ended
    <3> QED BY <1>1, <2>0, <3>1, RememberAgrees
  <2>2. CASE WatchClosed(t)
    <3>1. \E r \in records : /\ record'[r] \in Ended /\ Remember(r, record'[r])
                             /\ \A u \in Transfers : u # r => record'[u] = record[u]
      BY <2>2, WatcherEnds
    <3> QED BY <2>0, <3>1, RememberAgrees
  <2>3. CASE WatchTells(t)
    BY <1>1, <2>3, WatcherTells
  <2> QED BY <1>3, <2>1, <2>2, <2>3 DEF Watcher
<1>4. ASSUME NEW t \in Transfers, NEW a \in Callers, Cancelling(t, a) PROVE Frozen
  <2>1. history' = history
    BY <1>4, CancelFrame
  <2>2. \A u \in Transfers : record'[u] = record[u] \/ record[u] = "running"
    BY <1>4, CancelsOwn
  <2> QED BY <2>1, <2>2 DEF Ended
<1>5. ASSUME NEW k \in Clients, Command(k) PROVE Frozen
  BY <1>5, CommandFrame DEF daemonVars
<1>6. UNCHANGED vars => Frozen
  BY DEF vars, daemonVars
<1> HIDE DEF Frozen
<1> QED BY <1>1, <1>2, <1>3, <1>4, <1>5, <1>6, StepKinds

-----------------------------------------------------------------------------
(* The session *)

\* A watcher whose step is its last stays there.
LEMMA EndedStays ==
  ASSUME TransfersConstants, TypeOK, Watched, [Next]_vars, NEW u \in Transfers, watch[u].step = "ended"
  PROVE  watch'[u].step = "ended"
<1>1. ASSUME NEW t \in Transfers, Session(t) PROVE watch'[u].step = "ended"
  <2>1. watch'[u].step = watch[u].step \/ watch[u].step = "none"
    BY <1>1, SessionSteps
  <2> QED BY <2>1
<1>2. ASSUME NEW t \in Transfers, Watcher(t) PROVE watch'[u].step = "ended"
  <2>1. WatchEvent(t) => watch[t].step = "loop" /\ (u # t => watch'[u] = watch[u])
    BY WatcherTakes
  <2>2. WatchClosed(t) => watch[t].step = "loop" /\ (u # t => watch'[u] = watch[u])
    BY WatcherEnds
  <2>3. WatchTells(t) => watch[t].step = "tell" /\ (u # t => watch'[u] = watch[u])
    BY WatcherTells
  <2> QED BY <1>2, <2>1, <2>2, <2>3 DEF Watcher
<1>3. ASSUME UNCHANGED watch PROVE watch'[u].step = "ended"
  BY <1>3
<1> QED BY <1>1, <1>2, <1>3, StepKinds, CancelFrame, CommandFrame DEF vars

LEMMA SessionOfKept ==
  ASSUME TransfersConstants, TypeOK, Watched, [Next]_vars, NEW u \in Transfers, SessionOf(u)
  PROVE  SessionOf(u)'
<1>0. /\ session[u] \in {"done", "failed"} => Settled(u) \/ HasEnding(events[u])
      /\ session[u] = "canceled" => Cancelled(u) \/ watch[u].step = "ended"
  BY DEF SessionOf
<1>1. /\ Settled(u) => Settled(u)'
      /\ Cancelled(u) => Cancelled(u)'
      /\ watch[u].step = "ended" => watch'[u].step = "ended"
  BY SettledStays, CancelledStays, EndedStays
<1>2. ASSUME session'[u] = session[u], HasEnding(events[u]) => HasEnding(events'[u]) \/ Settled(u)'
      PROVE  SessionOf(u)'
  BY <1>0, <1>1, <1>2 DEF SessionOf, HasEnding
<1>3. ASSUME NEW t \in Transfers, Session(t) PROVE SessionOf(u)'
  <2>1. /\ HasEnding(events[u]) => HasEnding(events'[u])
        /\ \/ session'[u] = session[u]
           \/ session[u] = "none" /\ session'[u] = "running" /\ u \in subs'
           \/ session[u] = "running" /\ HasEnding(events'[u]) /\ session'[u] \in {"done", "failed"}
           \/ session[u] = "running" /\ session'[u] = "canceled" /\ watch'[u].step = "ended"
    BY <1>3, SessionReports
  <2>2. CASE session'[u] = session[u]
    BY <1>2, <2>1, <2>2
  <2>3. CASE session'[u] = "running"
    BY <2>3 DEF SessionOf
  <2>4. CASE HasEnding(events'[u]) /\ session'[u] \in {"done", "failed"}
    BY <2>4 DEF SessionOf, HasEnding
  <2>5. CASE session'[u] = "canceled" /\ watch'[u].step = "ended"
    BY <2>5 DEF SessionOf
  <2> QED BY <2>1, <2>2, <2>3, <2>4, <2>5
<1>4. ASSUME NEW t \in Transfers, Watcher(t) PROVE SessionOf(u)'
  <2>1. session' = session
    BY <1>4, WatcherFrame
  <2>2. CASE WatchEvent(t)
    <3>1. /\ watch'[t].step = "tell"
          /\ HasEnding(events[u]) =>
               HasEnding(events'[u]) \/ (u = t /\ watch'[t].say \in Endings)
      BY <2>2, WatcherTakes
    <3>2. HasEnding(events[u]) => HasEnding(events'[u]) \/ Settled(u)'
      BY <3>1 DEF Settled
    <3> QED BY <1>2, <2>1, <3>2
  <2>3. CASE WatchClosed(t)
    <3>1. events' = events
      BY <2>3, WatcherEnds
    <3> QED BY <1>2, <2>1, <3>1
  <2>4. CASE WatchTells(t)
    <3>1. events' = events
      BY <2>4, WatcherTells
    <3> QED BY <1>2, <2>1, <3>1
  <2> QED BY <1>4, <2>2, <2>3, <2>4 DEF Watcher
<1>5. ASSUME NEW t \in Transfers, NEW a \in Callers, Cancelling(t, a) PROVE SessionOf(u)'
  <2>1. events' = events
    BY <1>5, CancelFrame
  <2>2. /\ session'[u] = session[u] \/ (u = t /\ session'[u] = "canceled")
        /\ cancel'[t][a] # "idle"
    BY <1>5, CancelsOwn
  <2>3. CASE session'[u] = session[u]
    BY <1>2, <2>1, <2>3
  <2>4. CASE u = t /\ session'[u] = "canceled"
    BY <2>2, <2>4 DEF SessionOf, Cancelled
  <2> QED BY <2>2, <2>3, <2>4
<1>6. ASSUME UNCHANGED <<session, events>> PROVE SessionOf(u)'
  BY <1>2, <1>6
<1>7. ASSUME NEW k \in Clients, Command(k) PROVE UNCHANGED <<session, events>>
  BY <1>7, CommandFrame DEF lanternVars
<1>8. UNCHANGED vars => UNCHANGED <<session, events>>
  BY DEF vars, lanternVars
<1> QED BY <1>3, <1>4, <1>5, <1>6, <1>7, <1>8, StepKinds

-----------------------------------------------------------------------------
(* What is said, from the event to the answer *)

LEMMA EventsKept ==
  ASSUME TransfersConstants, TypeOK, Watched, HonestEvents, [Next]_vars
  PROVE  HonestEvents'
<1> SUFFICES ASSUME NEW u \in Transfers, NEW x \in Event, In(x, events'[u]) PROVE Sound(x)'
  BY DEF HonestEvents, Event
<1>1. In(x, events[u]) => Sound(x)'
  BY SoundStays DEF HonestEvents
<1>2. ASSUME NEW t \in Transfers, Session(t) PROVE Sound(x)'
  BY <1>1, <1>2, SessionReports
<1>3. ASSUME NEW t \in Transfers, Watcher(t) PROVE In(x, events[u])
  <2>1. WatchEvent(t) => In(x, events[u])
    BY WatcherTakes
  <2>2. WatchClosed(t) => events' = events
    BY WatcherEnds
  <2>3. WatchTells(t) => events' = events
    BY WatcherTells
  <2> QED BY <1>3, <2>1, <2>2, <2>3 DEF Watcher
<1>4. (\E t \in Transfers : Session(t)) \/ (\E t \in Transfers : Watcher(t)) \/ UNCHANGED events
  BY StepKinds, CancelFrame, CommandFrame DEF vars, lanternVars
<1> QED BY <1>1, <1>2, <1>3, <1>4

\* A watcher that finds its channel closed without an ending serves a transfer
\* somebody cancelled.
LEMMA ClosedIsCancelled ==
  ASSUME TransfersConstants, TypeOK, Watched, NEW t \in Transfers, SessionOf(t),
         watch[t].step = "loop", events[t] = <<>>, t \notin subs
  PROVE  Cancelled(t)
<1>1. session[t] \in Ended
  BY DEF Watched, WatchedOf
<1>2. ~HasEnding(events[t]) /\ ~Settled(t)
  BY DEF HasEnding, Settled
<1> QED BY <1>1, <1>2 DEF SessionOf, Ended

LEMMA RecordsKept ==
  ASSUME TransfersConstants, TypeOK, Watched, HonestEvents, HonestRecords, [Next]_vars,
         \A t \in Transfers : SessionOf(t)
  PROVE  HonestRecords'
<1> DEFINE Says(v) == /\ Vouches(CodeOf[v], FrameType(record'[v]))
                      /\ Vouches(CodeOf[v], watch'[v].say)
<1> SUFFICES ASSUME NEW u \in Transfers
             PROVE  Says(u)
  BY DEF HonestRecords, Vouched, Vouches, Happened, CodeCancelled, Cancelled
<1>1. Vouches(CodeOf[u], FrameType(record[u])) /\ Vouches(CodeOf[u], watch[u].say)
  BY VouchedStays DEF HonestRecords
<1>2. ASSUME NEW t \in Transfers, Cancelled(t), SameCode(t, u) PROVE Vouches(CodeOf[u], "cancelled")
  BY <1>2, CancelledStays DEF Vouches, Cancelled, SameCode
<1>3. FrameType("canceled") = "cancelled" /\ FrameType("done") = "done" /\ FrameType("failed") = "error"
      /\ FrameType("running") = "progress" /\ Vouches(CodeOf[u], "progress")
  BY DEF FrameType, Vouches
<1>4. ASSUME NEW t \in Transfers, Session(t)
      PROVE  Says(u)
  <2>1. /\ watch'[u].say = watch[u].say
        /\ record'[u] = record[u] \/ record'[u] = "running"
    BY <1>4, SessionSteps
  <2> QED BY <1>1, <1>3, <2>1
<1>5. ASSUME NEW t \in Transfers, Watcher(t)
      PROVE  Says(u)
  <2>1. CASE WatchEvent(t)
    <3>1. /\ \A v \in Transfers : v # t => watch'[v] = watch[v]
          /\ \E x \in Event : In(x, events[t]) /\ watch'[t].say = x.type
          /\ \/ UNCHANGED record
             \/ \E q \in records :
                  /\ record'[q] = IF watch'[t].say = "done" THEN "done" ELSE "failed"
                  /\ watch'[t].say \in Endings
                  /\ \A v \in Transfers : v # q => record'[v] = record[v]
      BY <2>1, WatcherTakes
    <3>2. PICK x \in Event : In(x, events[t]) /\ watch'[t].say = x.type
      BY <3>1
    <3>3. Sound(x)
      BY <3>2 DEF HonestEvents
    <3>4. /\ x.type \in {"done", "error", "progress"}
          /\ x.type # "progress" => \E v \in Transfers : outcome[v] = x.type
      BY <3>3 DEF Sound, Event, Endings
    <3>5. Vouches(CodeOf[u], x.type)
      BY <3>4, OutcomeStays DEF Vouches
    <3>6. Vouches(CodeOf[u], watch'[u].say)
      BY <1>1, <3>1, <3>2, <3>5
    <3>7. record'[u] = record[u] \/ FrameType(record'[u]) = x.type
      BY <1>3, <3>1, <3>2, <3>4 DEF Endings
    <3> QED BY <1>1, <3>5, <3>6, <3>7
  <2>2. CASE WatchClosed(t)
    <3>1. /\ watch[t].step = "loop" /\ events[t] = <<>> /\ t \notin subs
          /\ \A v \in Transfers : v # t => watch'[v] = watch[v]
          /\ watch'[t].say \in {"cancelled", watch[t].say}
          /\ \E q \in records :
               /\ SameCode(q, t) /\ (record'[q] = "canceled" \/ record'[q] = record[q])
               /\ \A v \in Transfers : v # q => record'[v] = record[v]
      BY <2>2, WatcherEnds
    <3>2. Cancelled(t)
      BY <3>1, ClosedIsCancelled
    <3>3. SameCode(u, t) \/ record'[u] = record[u]
      BY <3>1
    <3>4. record'[u] = record[u] \/ record'[u] = "canceled"
      BY <3>1
    <3>5. SameCode(u, t) => Vouches(CodeOf[u], "cancelled")
      BY <1>2, <3>2 DEF SameCode
    <3>6. Vouches(CodeOf[u], FrameType(record'[u]))
      BY <1>1, <1>3, <3>3, <3>4, <3>5
    <3>7. Vouches(CodeOf[u], watch'[u].say)
      BY <1>1, <3>1, <3>5 DEF SameCode
    <3> QED BY <3>6, <3>7
  <2>3. CASE WatchTells(t)
    <3>1. /\ UNCHANGED record /\ watch'[t].say = watch[t].say
          /\ \A v \in Transfers : v # t => watch'[v] = watch[v]
      BY <2>3, WatcherTells
    <3>2. watch'[u].say = watch[u].say
      BY <3>1
    <3> QED BY <1>1, <3>1, <3>2
  <2> QED BY <1>5, <2>1, <2>2, <2>3 DEF Watcher
<1>6. ASSUME NEW t \in Transfers, NEW a \in Callers, Cancelling(t, a)
      PROVE  Says(u)
  <2>1. watch' = watch
    BY <1>6, CancelFrame
  <2>2. /\ cancel'[t][a] # "idle"
        /\ record'[u] = record[u] \/ (u = t /\ record'[u] = "canceled")
    BY <1>6, CancelsOwn
  <2>3. Vouches(CodeOf[t], "cancelled")
    BY <2>2 DEF Vouches
  <2> QED BY <1>1, <1>3, <2>1, <2>2, <2>3
<1>7. ASSUME UNCHANGED <<record, watch>>
      PROVE  Says(u)
  BY <1>1, <1>7
<1>8. ASSUME NEW k \in Clients, Command(k) PROVE UNCHANGED <<record, watch>>
  BY <1>8, CommandFrame DEF daemonVars
<1>9. UNCHANGED vars => UNCHANGED <<record, watch>>
  BY DEF vars, daemonVars
<1> QED BY <1>4, <1>5, <1>6, <1>7, <1>8, <1>9, StepKinds

LEMMA FramesKept ==
  ASSUME TransfersConstants, TypeOK, Watched, HonestRecords, HonestFrames, [Next]_vars
  PROVE  HonestFrames'
<1> SUFFICES ASSUME NEW k \in Clients, NEW x \in Event, In(x, queue'[k])
             PROVE  Vouches(x.id, x.type)
  BY DEF HonestFrames, Vouched, Vouches, Happened, CodeCancelled, Cancelled, Event
<1>1. In(x, queue[k]) => Vouches(x.id, x.type)
  BY VouchedStays DEF HonestFrames
<1>2. ASSUME NEW t \in Transfers, Watcher(t) PROVE Vouches(x.id, x.type)
  <2>1. WatchEvent(t) => queue' = queue
    BY WatcherTakes
  <2>2. WatchClosed(t) => queue' = queue
    BY WatcherEnds
  <2>3. CASE WatchTells(t)
    <3>1. In(x, queue[k]) \/ x = [id |-> CodeOf[t], type |-> watch[t].say]
      BY <2>3, WatcherTells
    <3>2. Vouches(CodeOf[t], watch[t].say)
      BY VouchedStays DEF HonestRecords
    <3> QED BY <1>1, <3>1, <3>2
  <2> QED BY <1>1, <1>2, <2>1, <2>2, <2>3 DEF Watcher
<1>3. ASSUME NEW t \in Transfers, NEW a \in Callers, Cancelling(t, a) PROVE Vouches(x.id, x.type)
  <2>1. /\ cancel'[t][a] # "idle"
        /\ In(x, queue[k]) \/ x = [id |-> CodeOf[t], type |-> "cancelled"]
    BY <1>3, CancelsOwn
  <2>2. Vouches(CodeOf[t], "cancelled")
    BY <2>1 DEF Vouches
  <2> QED BY <1>1, <2>1, <2>2
<1>4. ASSUME NEW j \in Clients, Command(j) PROVE Vouches(x.id, x.type)
  BY <1>1, <1>4, CommandLearns
<1>5. ASSUME queue' = queue PROVE Vouches(x.id, x.type)
  BY <1>1, <1>5
<1> QED BY <1>2, <1>3, <1>4, <1>5, StepKinds, SessionFrame DEF vars, clientVars

LEMMA AnswersKept ==
  ASSUME TransfersConstants, TypeOK, Watched, HonestRecords, HonestFrames, HonestAnswers, [Next]_vars
  PROVE  HonestAnswers'
<1> SUFFICES ASSUME NEW k \in Clients PROVE Vouches(client'[k].of, FrameType(client'[k].told))
  BY DEF HonestAnswers, Vouched, Vouches, Happened, CodeCancelled, Cancelled
<1>1. Vouches(client[k].of, FrameType(client[k].told))
  BY VouchedStays DEF HonestAnswers
<1>2. ASSUME NEW j \in Clients, Command(j) PROVE Vouches(client'[k].of, FrameType(client'[k].told))
  <2>1. \/ client'[k].of = client[k].of /\ client'[k].told = client[k].told
        \/ client'[k].told = "none"
        \/ \E r \in Transfers : client'[k].of = CodeOf[r] /\ client'[k].told = record[r]
        \/ \E x \in Event : /\ In(x, queue[k]) /\ x.id = client'[k].of
                            /\ x.type \in Endings /\ FrameType(client'[k].told) = x.type
    BY <1>2, CommandLearns
  <2>3. CASE client'[k].told = "none"
    BY <2>3 DEF Vouches, FrameType
  <2>4. ASSUME NEW r \in Transfers, client'[k].of = CodeOf[r], client'[k].told = record[r]
        PROVE  Vouches(client'[k].of, FrameType(client'[k].told))
    <3>1. Vouches(CodeOf[r], FrameType(record[r]))
      BY VouchedStays DEF HonestRecords
    <3> QED BY <2>4, <3>1
  <2>5. ASSUME NEW x \in Event, In(x, queue[k]), x.id = client'[k].of, FrameType(client'[k].told) = x.type
        PROVE  Vouches(client'[k].of, FrameType(client'[k].told))
    <3>1. Vouches(x.id, x.type)
      BY <2>5, VouchedStays DEF HonestFrames
    <3> QED BY <2>5, <3>1
  <2> QED BY <1>1, <2>1, <2>3, <2>4, <2>5
<1>3. ASSUME client' = client PROVE Vouches(client'[k].of, FrameType(client'[k].told))
  BY <1>1, <1>3
<1> QED BY <1>2, <1>3, StepKinds, SessionFrame, WatcherFrame, CancelFrame DEF vars, clientVars

-----------------------------------------------------------------------------
(* The theorems *)

LEMMA InvStarts ==
  ASSUME TransfersConstants, Init
  PROVE  TransfersInv
<1>1. /\ session = [t \in Transfers |-> "none"] /\ record = session
      /\ subs = {} /\ records = {} /\ armed = {} /\ events = [t \in Transfers |-> <<>>]
      /\ reports = [t \in Transfers |-> 0] /\ outcome = [t \in Transfers |-> "none"]
      /\ watch = [t \in Transfers |-> NotWatched]
      /\ cancel = [t \in Transfers |-> [a \in Callers |-> "idle"]]
      /\ history = <<>> /\ queue = [k \in Clients |-> <<>>]
  BY DEF Init
<1>2. PICK c \in Codes : client = [k \in Clients |-> [step |-> "idle", of |-> c, told |-> "none"]]
  BY DEF Init
<1>3. SessionBuffer \in Nat /\ ClientBuffer \in Nat /\ MaxHistory \in Nat /\ MaxProgress \in Nat
      /\ Len(<<>>) = 0
  BY DEF TransfersConstants
<1>4. TypeOK
  <2>1. /\ session \in [Transfers -> States] /\ record \in [Transfers -> States]
        /\ subs \subseteq Transfers /\ records \subseteq Transfers /\ armed \subseteq Timed
        /\ reports \in [Transfers -> 0..MaxProgress]
        /\ outcome \in [Transfers -> {"none", "done", "error"}]
        /\ cancel \in [Transfers -> [Callers -> {"idle", "close", "mark", "tell", "over"}]]
    BY <1>1, <1>3 DEF States
  <2>2. /\ events \in [Transfers -> Seq(Event)]
        /\ \A u \in Transfers : Len(events[u]) <= SessionBuffer
        /\ queue \in [Clients -> Seq(Event)] /\ \A k \in Clients : Len(queue[k]) <= ClientBuffer
        /\ history \in Seq([of : Transfers, state : Ended]) /\ Len(history) <= MaxHistory
    BY <1>1, <1>3
  <2>3. watch \in [Transfers -> [step : {"none", "loop", "tell", "ended"},
                              say : Endings \cup {"progress"}]]
    BY <1>1 DEF NotWatched, Endings
  <2>4. client \in [Clients -> [step : {"idle", "opening", "stream", "polling", "told", "gone"},
                              of : Codes, told : States]]
    BY <1>2 DEF States
  <2> QED BY <2>1, <2>2, <2>3, <2>4 DEF TypeOK
<1>5. \A x : ~In(x, <<>>)
  BY DEF In
<1>6. Watched /\ OneOfACode /\ HistoryAgrees /\ \A u \in Transfers : SessionOf(u)
  BY <1>1, <1>5 DEF Watched, WatchedOf, OneOfACode, HistoryAgrees, SessionOf, NotWatched
<1>7. HonestEvents /\ HonestFrames
  BY <1>1, <1>5 DEF HonestEvents, HonestFrames
<1>8. HonestRecords /\ HonestAnswers
  BY <1>1, <1>2 DEF HonestRecords, HonestAnswers, Vouched, FrameType, NotWatched
<1> QED BY <1>4, <1>6, <1>7, <1>8 DEF TransfersInv, Honest

LEMMA InvKept ==
  ASSUME TransfersConstants, TransfersInv, [Next]_vars
  PROVE  TransfersInv'
<1>1. /\ TypeOK /\ Watched /\ OneOfACode /\ HistoryAgrees /\ (\A t \in Transfers : SessionOf(t))
      /\ HonestEvents /\ HonestRecords /\ HonestFrames /\ HonestAnswers
  BY DEF TransfersInv, Honest
<1>2. TypeOK' /\ Watched'
  BY <1>1, TypesKept, WatchedKept
<1>3. OneOfACode' /\ HistoryAgrees'
  BY <1>1, OneOfACodeKept, HistoryKept
<1>4. ASSUME NEW t \in Transfers PROVE SessionOf(t)'
  BY <1>1, SessionOfKept
<1>5. HonestEvents' /\ HonestRecords' /\ HonestFrames' /\ HonestAnswers'
  BY <1>1, EventsKept, RecordsKept, FramesKept, AnswersKept
<1> QED BY <1>2, <1>3, <1>4, <1>5 DEF TransfersInv, Honest

\* The inductive invariant, from which the theorems below follow.
THEOREM TransfersInvariant ==
  ASSUME TransfersConstants
  PROVE  Spec => []TransfersInv
<1>1. Init => TransfersInv
  BY InvStarts
<1>2. TransfersInv /\ [Next]_vars => TransfersInv'
  BY InvKept
<1> QED BY <1>1, <1>2, PTL DEF Spec

\* What the history says last of a record is what the record says, however many
\* transfers of however many codes end, are cancelled, time out and are started again
\* at once (Fetch, watch, Cancel, pushHistoryLocked).
THEOREM HistoryIsFinal ==
  ASSUME TransfersConstants
  PROVE  Spec => []HistoryAgrees
<1>1. TransfersInv => HistoryAgrees
  BY DEF TransfersInv
<1> QED BY <1>1, TransfersInvariant, PTL

\* A record that can be looked up runs only while its own watcher has an event to take.
SettledRests == \A t \in records : Settled(t) => record[t] # "running"

\* No watcher of t's code has an event to take.
Quiet(t) == \A s \in Transfers : SameCode(s, t) => watch[s].step = "none" \/ Settled(s)

LEMMA SettledKept ==
  ASSUME TransfersConstants, TypeOK, Watched, OneOfACode, SettledRests, [Next]_vars
  PROVE  /\ \A u \in records : Quiet(u) => record'[u] = record[u]
         /\ SettledRests'
<1>0. /\ records \subseteq Transfers
      /\ \A u \in records : record[u] # "none" /\ watch[u].step # "none"
      /\ \A u \in records : Settled(u) => record[u] # "running"
  BY DEF TypeOK, Watched, WatchedOf, SettledRests
<1> DEFINE Rests == /\ \A u \in records : Quiet(u) => record'[u] = record[u]
                    /\ \A u \in records' : Settled(u)' => record'[u] # "running"
<1>1. ASSUME record' = record, watch' = watch, records' = records PROVE Rests
  BY <1>0, <1>1 DEF Settled
<1>2. ASSUME NEW t \in Transfers, Session(t) PROVE Rests
  <2>1. \A u \in Transfers :
           /\ watch'[u].say = watch[u].say
           /\ \/ watch'[u].step = watch[u].step
              \/ u = t /\ watch[t].step = "none" /\ record[t] = "none"
           /\ record'[u] = record[u] \/ (u = t /\ record[t] = "none")
    BY <1>2, SessionSteps
  <2>2. \/ records' = records
        \/ /\ records' = {s \in records : ~SameCode(s, t)} \cup {t}
           /\ watch'[t].step = "loop"
    BY <1>2, SessionSteps
  <2>3. \A u \in records : record'[u] = record[u] /\ (Settled(u)' => Settled(u))
    BY <1>0, <2>1 DEF Settled
  <2>4. \A u \in records' : u \in records \/ ~Settled(u)'
    BY <2>2 DEF Settled
  <2> QED BY <1>0, <2>3, <2>4
<1>3. ASSUME NEW t \in Transfers, Watcher(t) PROVE Rests
  <2>1. CASE WatchEvent(t)
    <3>1. /\ watch[t].step = "loop" /\ watch'[t].step = "tell" /\ records' = records
          /\ \A v \in Transfers : v # t => watch'[v] = watch[v]
          /\ \/ UNCHANGED record /\ watch'[t].say \notin Endings
             \/ \E r \in records :
                  /\ SameCode(r, t) /\ record'[r] = IF watch'[t].say = "done" THEN "done" ELSE "failed"
                  /\ \A v \in Transfers : v # r => record'[v] = record[v]
      BY <2>1, WatcherTakes
    <3>2. CASE UNCHANGED record /\ watch'[t].say \notin Endings
      <4>1. \A u \in Transfers : Settled(u)' => Settled(u)
        BY <3>1, <3>2 DEF Settled
      <4> QED BY <1>0, <3>1, <3>2, <4>1
    <3>3. ASSUME NEW r \in records, SameCode(r, t), record'[r] \in {"done", "failed"},
                 \A v \in Transfers : v # r => record'[v] = record[v]
          PROVE  Rests
      <4>1. ~Quiet(r)
        BY <3>1, <3>3 DEF Quiet, Settled, SameCode
      <4>2. \A u \in records : u # r => u # t
        BY <3>3 DEF OneOfACode
      <4>3. \A u \in records : u # r => (Settled(u)' => Settled(u))
        BY <1>0, <3>1, <4>2 DEF Settled
      <4> QED BY <1>0, <3>1, <3>3, <4>1, <4>3
    <3> QED BY <3>1, <3>2, <3>3
  <2>2. CASE WatchClosed(t)
    <3>1. /\ watch[t].step = "loop" /\ records' = records
          /\ \A v \in Transfers : v # t => watch'[v] = watch[v]
      BY <2>2, WatcherEnds
    <3>2. PICK r \in records : /\ SameCode(r, t) /\ record'[r] \in Ended
                              /\ \A v \in Transfers : v # r => record'[v] = record[v]
      BY <2>2, WatcherEnds
    <3>3. ~Quiet(r)
      BY <3>1, <3>2 DEF Quiet, Settled, SameCode
    <3>4. \A u \in records : u # r => u # t
      BY <3>2 DEF OneOfACode
    <3>5. \A u \in records : u # r => (Settled(u)' => Settled(u))
      BY <1>0, <3>1, <3>4 DEF Settled
    <3> QED BY <1>0, <3>1, <3>2, <3>3, <3>5 DEF Ended
  <2>3. CASE WatchTells(t)
    <3>1. /\ watch[t].step = "tell" /\ UNCHANGED <<record, records>> /\ watch'[t].say = watch[t].say
          /\ \A v \in Transfers : v # t => watch'[v] = watch[v]
          /\ watch'[t].step = IF watch[t].say \in Endings THEN "ended" ELSE "loop"
      BY <2>3, WatcherTells
    <3>2. \A u \in Transfers : Settled(u)' => Settled(u)
      BY <3>1 DEF Settled
    <3> QED BY <1>0, <3>1, <3>2
  <2> QED BY <1>3, <2>1, <2>2, <2>3 DEF Watcher
<1>4. ASSUME NEW t \in Transfers, NEW a \in Callers, Cancelling(t, a) PROVE Rests
  <2>1. /\ watch' = watch /\ records' = records
        /\ \A u \in Transfers : record'[u] = record[u] \/ (record[u] = "running" /\ record'[u] = "canceled")
    BY <1>4, CancelFrame, CancelsOwn
  <2>2. \A u \in records : Quiet(u) => Settled(u)
    BY <1>0 DEF Quiet, SameCode
  <2>3. \A u \in Transfers : Settled(u)' <=> Settled(u)
    BY <2>1 DEF Settled
  <2> QED BY <1>0, <2>1, <2>2, <2>3
<1>5. ASSUME NEW k \in Clients, Command(k) PROVE Rests
  BY <1>1, <1>5, CommandFrame DEF daemonVars
<1>6. ASSUME UNCHANGED vars PROVE Rests
  <2>1. UNCHANGED <<record, watch, records>>
    BY <1>6 DEF vars, daemonVars
  <2> QED BY <1>1, <2>1
<1> HIDE DEF Rests
<1>7. Rests
  BY <1>2, <1>3, <1>4, <1>5, <1>6, StepKinds
<1> QED BY <1>7 DEF Rests, SettledRests

\* Once every watcher of a code has taken the ending of its transfer, or found its
\* channel closed, nothing changes the record the code has: no later event, no call of
\* Cancel that had begun before, for this attempt or an earlier one, no timer.  The
\* hypothesis is about all the watchers of the code: while an earlier attempt's is
\* still at work, it writes what it takes into the record of the attempt that
\* replaced its own (Fetch, watch, Cancel).
THEOREM EndingIsFinal ==
  ASSUME TransfersConstants
  PROVE  Spec => [][\A t \in records : Quiet(t) => record'[t] = record[t]]_vars
<1>1. Init => SettledRests
  BY DEF Init, SettledRests
<1>2. TransfersInv /\ SettledRests /\ [Next]_vars => SettledRests'
  BY SettledKept DEF TransfersInv
<1>3. TransfersInv /\ SettledRests /\ [Next]_vars =>
        [\A t \in records : Quiet(t) => record'[t] = record[t]]_vars
  BY SettledKept DEF TransfersInv
<1> QED BY <1>1, <1>2, <1>3, TransfersInvariant, PTL DEF Spec

\* Of any number of transfers: a record that says done or failed, and a command that
\* reports it, name an ending some transfer of the daemon came to, and "cancelled"
\* is recorded and reported only of a code somebody cancelled a transfer of.
THEOREM EndingsHappened ==
  ASSUME TransfersConstants
  PROVE  Spec => [](HonestRecords /\ HonestAnswers)
<1>1. TransfersInv => HonestRecords /\ HonestAnswers
  BY DEF TransfersInv, Honest
<1> QED BY <1>1, TransfersInvariant, PTL

\* With one code in use, however often it is fetched, a command is told what happened
\* to it, and the record says it, over the stream, over polling and before either,
\* whatever buffers drop and whoever cancels.  The hypothesis is needed: a watcher
\* hears of every transfer, and takes the ending of another code for its own.
THEOREM AloneToldIsTrue ==
  ASSUME TransfersConstants, NEW only, Codes = {only}
  PROVE  Spec => [](ToldIsTrue /\ RecordIsTrue)
<1>1. TransfersInv => ToldIsTrue /\ RecordIsTrue
  <2> SUFFICES ASSUME TransfersInv PROVE ToldIsTrue /\ RecordIsTrue
    OBVIOUS
  <2>0. \A t \in Transfers : CodeOf[t] = only
    BY DEF TransfersConstants
  <2>1. HonestRecords /\ HonestAnswers /\ client \in [Clients -> Commands]
    BY DEF TransfersInv, Honest, TypeOK, Commands, CommandSteps
  <2>2. ASSUME NEW c, NEW st \in {"done", "failed"}, Vouched(c, FrameType(st))
        PROVE  \E t \in Transfers : CodeOf[t] = only /\ outcome[t] = Truth(st)
    BY <2>0, <2>2 DEF Vouched, FrameType, Truth, Happened
  <2>3. RecordIsTrue
    BY <2>0, <2>1, <2>2 DEF RecordIsTrue, HonestRecords, SameCode
  <2>4. ASSUME NEW k \in Clients
        PROVE  /\ client[k].told \in {"done", "failed"} =>
                    \E t \in Transfers : CodeOf[t] = client[k].of /\ outcome[t] = Truth(client[k].told)
               /\ client[k].told = "canceled" => CodeCancelled(client[k].of)
    <3>1. client[k].of = only /\ Vouched(client[k].of, FrameType(client[k].told))
      BY <2>1 DEF HonestAnswers, Commands
    <3>2. client[k].told = "canceled" => CodeCancelled(client[k].of)
      BY <3>1 DEF Vouched, FrameType
    <3> QED BY <2>2, <3>1, <3>2
  <2> QED BY <2>3, <2>4 DEF ToldIsTrue, CodeCancelled, Cancelled
<1> QED BY <1>1, TransfersInvariant, PTL

-----------------------------------------------------------------------------
(* Uploads *)

\* A request whose upload is being named tries one of the file names.
LEMMA CandidateName ==
  ASSUME UploadsConstants, UploadsTypeOK, NEW r \in Requests
  PROVE  Candidate(r) \in Names
<1>1. CASE try[r] = 1
  BY <1>1 DEF UploadsConstants, UploadsTypeOK, Candidate
<1>2. CASE try[r] # 1
  <2>1. try[r] \in 2..Last
    BY <1>2 DEF UploadsConstants, UploadsTypeOK
  <2> QED BY <1>2, <2>1 DEF UploadsConstants, UploadsTypeOK, Candidate
<1> QED BY <1>1, <1>2

\* Every step keeps what each handler owns and what each file is.
LEMMA UploadsInductive ==
  ASSUME UploadsConstants, IInv, [UploadsNext]_uploadsVars
  PROVE  IInv'
<1> USE DEF UploadsConstants, IInv, UploadsTypeOK, Steps, Active
<1>1. CASE Crash
  BY <1>1 DEF Crash
<1>2. ASSUME NEW r \in Requests, Handle(r) PROVE IInv'
  <2>0. Candidate(r) \in Names
    BY CandidateName
  <2>1. CASE Begin(r)
    BY <2>1 DEF Begin
  <2>2. CASE Create(r)
    BY <2>0, <2>2 DEF Create
  <2>3. CASE NextName(r)
    <3>1. CASE try[r] < Last
      <4>1. try' = [try EXCEPT ![r] = @ + 1] /\ UNCHANGED <<owner, whole, step, name, path>>
        BY <2>3, <3>1 DEF NextName
      <4>2. try' \in [Requests -> 1..Last]
        BY <3>1, <4>1
      <4> QED BY <4>1, <4>2
    <3>2. CASE ~(try[r] < Last)
      <4>1. step' = [step EXCEPT ![r] = "failed"] /\ UNCHANGED <<owner, whole, try, name, path>>
        BY <2>3, <3>2 DEF NextName
      <4>2. step[r] = "naming"
        BY <2>3 DEF NextName
      <4> QED BY <4>1, <4>2
    <3> QED BY <3>1, <3>2
  <2>4. CASE CannotCreate(r)
    BY <2>4 DEF CannotCreate
  <2>5. CASE Store(r)
    BY <2>5 DEF Store
  <2>6. CASE Discard(r)
    BY <2>6 DEF Discard
  <2> QED BY <1>2, <2>1, <2>2, <2>3, <2>4, <2>5, <2>6 DEF Handle
<1>3. CASE UNCHANGED uploadsVars
  BY <1>3 DEF uploadsVars
<1> QED BY <1>1, <1>2, <1>3 DEF UploadsNext

\* An upload that was answered keeps a whole file of its own, whoever else asks for its
\* name, fails or dies, and one that failed leaves nothing (postUploads).
THEOREM UploadsAreKept ==
  ASSUME UploadsConstants
  PROVE  UploadsSpec => []UploadsKept
<1>1. UploadsInit => IInv
  BY DEF UploadsConstants, UploadsInit, IInv, UploadsTypeOK, Steps, Active
<1>2. IInv => UploadsKept
  BY DEF UploadsConstants, IInv, UploadsTypeOK, UploadsKept
<1>3. IInv /\ [UploadsNext]_uploadsVars => IInv'
  BY UploadsInductive
<1> QED BY <1>1, <1>2, <1>3, PTL DEF UploadsSpec

=============================================================================
