-------------------------------- MODULE Mcp --------------------------------
(***************************************************************************)
(* The bridge between an agent and the daemon: Serve, handle and callTool  *)
(* of internal/mcpserver/server.go, over Client.Do of                      *)
(* pkg/lanternclient/client.go.                                            *)
(*                                                                         *)
(* The agent's host writes lines, may close the input, and may go away     *)
(* (the context is cancelled).  One goroutine reads lines and hands them   *)
(* over an unbuffered channel; Serve takes them, asks the daemon and       *)
(* answers.  The daemon's reply to a request it carried out may be lost.   *)
(***************************************************************************)
EXTENDS Naturals, Sequences

CONSTANTS
  Scripts  \* what the host may write: sequences of kinds of lines

\* A line: a request the daemon is asked about; one it is asked to delete
\* something by; one answered here (ping, tools/list, a call that lacks an
\* argument, an unknown method); one that is never answered, for it has no id or
\* its method is notifications/initialized or notifications/cancelled, with an
\* id or without; one skipped (blank, or not JSON); one too long to be read.
Kinds == {"call", "delete", "local", "notification", "skipped", "long"}

ASSUME ScriptsAssumption == Scripts \subseteq Seq(Kinds)

VARIABLES
  script,     \* the lines the host means to write
  written,    \* how many of them it has written
  wakes,      \* whether closing the input wakes a read parked in it: true of a
              \* pipe, false of an input that is no Closer and of a blocking file
              \* as os.Stdin mostly is
  closed,     \* who closed the input: "no", "host" or "serve"
  cancelled,  \* the context is done
  reader,     \* the reading goroutine: "reading", "sending", "failing" or "ended"
  read,       \* how many lines it has read
  serve,      \* Serve: "select", "decide", "asking", "answering" or how it returned
  taken,      \* how many lines Serve has taken
  reply,      \* what became of the request asked: "done"; "cut", the connection
              \* ended before an answer; "late", none came in time; or "failed"
  acted,      \* history: the requests the daemon carried out
  out         \* the answers written

mcpVars == <<script, wakes, written, closed, cancelled, reader, read, serve, taken, reply, acted, out>>
host == <<script, wakes, written, cancelled>>

Returned == {"end", "error", "cancelled"}
Answer == [id : Nat, ok : BOOLEAN]

McpTypeOK ==
  /\ script \in Scripts /\ wakes \in BOOLEAN /\ written \in 0..Len(script)
  /\ closed \in {"no", "host", "serve"} /\ cancelled \in BOOLEAN
  /\ reader \in {"reading", "sending", "failing", "ended"}
  /\ serve \in {"select", "decide", "asking", "answering"} \cup Returned
  /\ taken <= read /\ read <= written
  /\ reply \in {"done", "cut", "late", "failed"}
  /\ acted \subseteq 1..Len(script)
  /\ \A i \in DOMAIN out : out[i] \in Answer

McpInit ==
  /\ script \in Scripts /\ wakes \in BOOLEAN /\ written = 0 /\ closed = "no" /\ cancelled = FALSE
  /\ reader = "reading" /\ read = 0
  /\ serve = "select" /\ taken = 0 /\ reply = "done"
  /\ acted = {} /\ out = <<>>

---------------------------------------------------------------------------
(* The host. *)

HostWrites ==
  /\ closed = "no" /\ written < Len(script)
  /\ written' = written + 1
  /\ UNCHANGED <<script, wakes, closed, cancelled, reader, read, serve, taken, reply, acted, out>>

HostCloses ==
  /\ closed = "no"
  /\ closed' = "host"
  /\ UNCHANGED <<host, reader, read, serve, taken, reply, acted, out>>

HostCancels ==
  /\ ~cancelled /\ cancelled' = TRUE
  /\ UNCHANGED <<script, wakes, written, closed, reader, read, serve, taken, reply, acted, out>>

---------------------------------------------------------------------------
(* The reading goroutine. *)

Done == serve \in Returned  \* the channel done is closed when Serve returns

ReaderGoes(to) == reader' = to /\ UNCHANGED <<host, closed, serve, taken, reply, acted, out>>

\* Scan: a line, an error, or the end of the input.
Scan ==
  /\ reader = "reading"
  /\ \/ /\ closed # "serve" /\ read < written /\ script[read + 1] # "long"
        /\ read' = read + 1 /\ ReaderGoes("sending")
     \/ /\ closed = "serve" \/ (read < written /\ script[read + 1] = "long")
        /\ ReaderGoes("failing") /\ UNCHANGED read
     \/ /\ closed = "host" /\ read = written
        /\ ReaderGoes("ended") /\ UNCHANGED read

Abandon ==
  /\ reader \in {"sending", "failing"} /\ Done
  /\ ReaderGoes("ended") /\ UNCHANGED read

---------------------------------------------------------------------------
(* Serve. *)

Returns(how) ==
  /\ serve' = how
  /\ UNCHANGED <<host, reader, read, taken, reply, acted, out>>

\* Both cancellation returns close the input, to release a parked reader.  An
\* input that cannot be woken leaves the reader where it was.
ReleaseReader == closed' = IF wakes THEN "serve" ELSE closed

SelectCancelled == serve = "select" /\ cancelled /\ ReleaseReader /\ Returns("cancelled")

SelectEnd == serve = "select" /\ reader = "ended" /\ Returns("end") /\ UNCHANGED closed

SelectError ==
  /\ serve = "select" /\ reader = "failing"
  /\ reader' = "ended" /\ serve' = "error"
  /\ UNCHANGED <<host, closed, read, taken, reply, acted, out>>

SelectLine ==
  /\ serve = "select" /\ reader = "sending"
  /\ reader' = "reading" /\ taken' = read
  /\ serve' = IF script[read] = "skipped" THEN "select" ELSE "decide"
  /\ UNCHANGED <<host, closed, read, reply, acted, out>>

Handles ==
  /\ serve' = CASE script[taken] = "notification" -> "select"
                [] script[taken] = "local" -> "answering"
                [] OTHER -> "asking"
  /\ reply' = "done"
  /\ UNCHANGED <<host, closed, reader, read, taken, acted, out>>

\* Mutant: only the select releases the reader.
DecideWithoutRelease ==
  /\ serve = "decide"
  /\ IF cancelled THEN Returns("cancelled") /\ UNCHANGED closed ELSE Handles

\* The context is looked at once more before the request is handled.
Decide ==
  /\ serve = "decide"
  /\ IF cancelled THEN ReleaseReader /\ Returns("cancelled") ELSE Handles

\* One HTTP call, bounded by the client's timeout: carried out and reported,
\* carried out or not and never reported, or refused.
RoundTrip ==
  \/ reply' = "done" /\ acted' = acted \cup {taken}
  \/ reply' \in {"cut", "late"} /\ acted' \in {acted, acted \cup {taken}}
  \/ reply' = "failed" /\ UNCHANGED acted

Ask ==
  /\ serve = "asking" /\ serve' = "answering"
  /\ RoundTrip
  /\ UNCHANGED <<host, closed, reader, read, taken, out>>

\* A delete takes a connection that ended for a success: its error text says EOF.
Succeeds == reply = "done" \/ (reply = "cut" /\ script[taken] = "delete")

\* Mutant: a failed call is reported and then answered like any other.
RespondTwice ==
  /\ serve = "answering" /\ serve' = "select"
  /\ out' = (IF Succeeds THEN out ELSE Append(out, [id |-> taken, ok |-> FALSE]))
              \o << [id |-> taken, ok |-> Succeeds] >>
  /\ UNCHANGED <<host, closed, reader, read, taken, reply, acted>>

Respond ==
  /\ serve = "answering" /\ serve' = "select"
  /\ out' = Append(out, [id |-> taken, ok |-> Succeeds])
  /\ UNCHANGED <<host, closed, reader, read, taken, reply, acted>>

Host == HostWrites \/ HostCloses \/ HostCancels
Reader == Scan \/ Abandon
Server == SelectCancelled \/ SelectEnd \/ SelectError \/ SelectLine \/ Decide \/ Ask \/ Respond

McpNext == Host \/ Reader \/ Server
McpSpec == McpInit /\ [][McpNext]_mcpVars

\* Goroutines are scheduled and every call to the daemon times out.
McpFairness == WF_mcpVars(Reader) /\ WF_mcpVars(Server)

---------------------------------------------------------------------------
(* Properties. *)

Answerable(i) == script[i] \in {"call", "delete", "local"}
Pending == IF serve \in {"decide", "asking", "answering"} THEN {taken} ELSE {}

\* The requests taken whose answer is due by now.
Due == {i \in 1..taken : Answerable(i) /\ i \notin Pending}
Answered == {out[k].id : k \in DOMAIN out}

\* Requests are answered in the order they came, each once and nothing else,
\* and none is passed over except by a cancellation, which cuts off at most the
\* one taken last.
AnswersInOrder ==
  /\ \A j, k \in DOMAIN out : j < k => out[j].id < out[k].id
  /\ Answered \subseteq Due
  /\ Due \ Answered \subseteq (IF serve = "cancelled" THEN {taken} ELSE {})

\* Whoever calls Serve gets control back when the context is cancelled or the
\* input ends.  No goroutine stays behind on the input once it has ended, nor,
\* where closing it wakes a read, once the context is cancelled; an input that
\* cannot be woken keeps its reader until the host writes or closes.
ServeEnds ==
  /\ cancelled \/ closed = "host" ~> Done
  /\ (cancelled /\ wakes) \/ closed = "host" ~> reader = "ended"

\* What is reported as deleted was deleted: a call answered with a success was
\* carried out by the daemon.
SuccessIsTrue == \A i \in DOMAIN out : out[i].ok /\ script[out[i].id] # "local" => out[i].id \in acted

=============================================================================
