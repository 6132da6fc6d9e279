---------------------------- MODULE Rendezvous ----------------------------
(***************************************************************************)
(* Finding the device behind a share code: AdvertiseLocal, Advertise,      *)
(* DiscoverLocal, ClearLocal and Discover of internal/p2p/rendezvous.go,   *)
(* for one code.                                                           *)
(*                                                                         *)
(* A share is announced in a file of the sharer's data directory and by a  *)
(* record in the DHT, which other nodes forget in time.  Lookups poll both *)
(* until their time is up.  Times are abstract: a lookup's deadline        *)
(* passes, the hour passes, a pause ends, at any moment.                   *)
(***************************************************************************)
EXTENDS Naturals

CONSTANTS
  Lookers,    \* lookups of the code
  Near,       \* those of them that read the sharer's rendezvous directory
  Own,        \* those of Near that the sharer's own node makes
  First, Cap, \* advertiseRetryInterval <= maxAdvertiseRetryInterval, from 1
  MaxFaults   \* bound: provides that fail, records forgotten, files damaged

VARIABLES
  share,    \* "none", "open" (its context runs) or "over"
  file,     \* the local advertisement: "none", "good" or "damaged"
  adv,      \* Advertise: "off", "providing", "resting", "pausing" or "ended"
  backoff,  \* how long the next pause is
  record,   \* whether a lookup in the DHT yields the sharer
  look,     \* the step each lookup is at
  over,     \* the lookup's context: "no", "deadline" or "cancelled"
  faults    \* steps taken against the bound

vars == <<share, file, adv, backoff, record, look, over, faults>>
sharer == <<share, adv, backoff>>
lookup == <<look, over>>

Ends == {"found local", "found remote", "failed"}

TypeOK ==
  /\ share \in {"none", "open", "over"}
  /\ file \in {"none", "good", "damaged"}
  /\ adv \in {"off", "providing", "resting", "pausing", "ended"}
  /\ backoff \in First..Cap
  /\ record \in BOOLEAN
  /\ look \in [Lookers -> {"idle", "local", "consume", "discard", "dht", "select", "check"} \cup Ends]
  /\ over \in [Lookers -> {"no", "deadline", "cancelled"}]
  /\ faults \in 0..MaxFaults

Init ==
  /\ share = "none" /\ file = "none" /\ adv = "off" /\ backoff = First /\ record = FALSE
  /\ look = [l \in Lookers |-> "idle"]
  /\ over = [l \in Lookers |-> "no"]
  /\ faults = 0

Fault == faults < MaxFaults /\ faults' = faults + 1

---------------------------------------------------------------------------
(* The sharer. *)

\* shareWithCode: the file appears whole, by a rename, and the share goes on
\* without it being provided yet.
AdvertiseLocal ==
  /\ share = "none" /\ share' = "open"
  /\ file' = "good" /\ adv' = "providing"
  /\ UNCHANGED <<backoff, record, lookup, faults>>

\* serveShare and completeShareRead take the local advertisement away.
Served ==
  /\ share = "open" /\ share' = "over" /\ file' = "none"
  /\ UNCHANGED <<adv, backoff, record, lookup, faults>>

\* A session that is cancelled, or whose time is up, only ends its context.
Cancelled ==
  /\ share = "open" /\ share' = "over"
  /\ UNCHANGED <<file, adv, backoff, record, lookup, faults>>

Provided ==
  /\ adv = "providing" /\ share = "open"
  /\ record' = TRUE /\ adv' = "resting" /\ backoff' = First
  /\ UNCHANGED <<share, file, lookup, faults>>

\* Mutant: a provide that fails ends the advertisement.
GiveUp ==
  /\ adv = "providing" /\ Fault /\ adv' = "ended"
  /\ UNCHANGED <<share, file, backoff, record, lookup>>

ProvideFails ==
  /\ adv = "providing" /\ share = "open" /\ Fault
  /\ adv' = "pausing"
  /\ UNCHANGED <<share, file, backoff, record, lookup>>

\* The pause doubles up to ten minutes; the ticker brings the next provide.
Resume ==
  /\ \/ /\ adv = "pausing"
        /\ backoff' = IF 2 * backoff > Cap THEN Cap ELSE 2 * backoff
     \/ adv = "resting" /\ UNCHANGED backoff
  /\ adv' = "providing"
  /\ UNCHANGED <<share, file, record, lookup, faults>>

\* Wherever it is, a context that is done ends Advertise; a provide under way
\* may still have been heard.
AdvertiseEnds ==
  /\ share = "over" /\ adv \in {"providing", "resting", "pausing"}
  /\ adv' = "ended"
  /\ record' \in IF adv = "providing" THEN {record, TRUE} ELSE {record}
  /\ UNCHANGED <<share, file, backoff, lookup, faults>>

Advertise == Provided \/ ProvideFails \/ Resume \/ AdvertiseEnds

\* Other nodes drop the record; the disk spoils the file.
Forgotten ==
  /\ record /\ Fault /\ record' = FALSE
  /\ UNCHANGED <<sharer, file, lookup>>

Damaged ==
  /\ file = "good" /\ Fault /\ file' = "damaged"
  /\ UNCHANGED <<sharer, record, lookup>>

---------------------------------------------------------------------------
(* A lookup. *)

Goes(l, to) ==
  /\ look' = [look EXCEPT ![l] = to]
  /\ UNCHANGED <<sharer, record, over, faults>>

Begin(l) == look[l] = "idle" /\ Goes(l, "local") /\ UNCHANGED file

\* The file is read; what comes of it is a step of its own.
DiscoverLocal(l) ==
  /\ look[l] = "local"
  /\ Goes(l, IF over[l] # "no" \/ l \notin Near \/ file = "none" THEN "dht"
             ELSE IF file = "good" THEN "consume" ELSE "discard")
  /\ UNCHANGED file

\* What is good is cleared and returned, what is damaged is removed; another
\* lookup, or the end of the share, may have removed it by then.
ClearLocal(l) ==
  /\ look[l] \in {"consume", "discard"}
  /\ Goes(l, IF look[l] = "consume" THEN "found local" ELSE "dht")
  /\ file' = "none"

\* Mutant: the query is not bound to the time a lookup has.
FindForever(l) ==
  /\ look[l] = "dht"
  /\ record /\ l \notin Own /\ Goes(l, "found remote")
  /\ UNCHANGED file

\* FindProviders may find nothing in its three seconds; a node passes over
\* itself.
FindProviders(l) ==
  /\ look[l] = "dht"
  /\ \/ record /\ over[l] = "no" /\ l \notin Own /\ Goes(l, "found remote")
     \/ Goes(l, "select")
  /\ UNCHANGED file

\* The poll timer fires, or the context is done, or both and either is taken.
SelectPoll(l) == look[l] = "select" /\ Goes(l, "check") /\ UNCHANGED file

SelectDone(l) == look[l] = "select" /\ over[l] # "no" /\ Goes(l, "failed") /\ UNCHANGED file

Check(l) ==
  /\ look[l] = "check"
  /\ Goes(l, IF over[l] = "deadline" THEN "failed" ELSE "local")
  /\ UNCHANGED file

Discover(l) ==
  Begin(l) \/ DiscoverLocal(l) \/ ClearLocal(l) \/ FindProviders(l)
  \/ SelectPoll(l) \/ SelectDone(l) \/ Check(l)

\* The deadline passes, the caller goes away.
Active(l) == look[l] \notin {"idle"} \cup Ends

DeadlinePasses(l) ==
  /\ Active(l) /\ over[l] = "no" /\ over' = [over EXCEPT ![l] = "deadline"]
  /\ UNCHANGED <<sharer, file, record, look, faults>>

CallerCancels(l) ==
  /\ Active(l) /\ over[l] = "no" /\ over' = [over EXCEPT ![l] = "cancelled"]
  /\ UNCHANGED <<sharer, file, record, look, faults>>

Next ==
  \/ AdvertiseLocal \/ Served \/ Cancelled \/ Advertise \/ Forgotten \/ Damaged
  \/ \E l \in Lookers : Discover(l) \/ DeadlinePasses(l) \/ CallerCancels(l)

Spec == Init /\ [][Next]_vars

\* Goroutines are scheduled and time passes; a select with two ready cases takes
\* each of them in the long run; a provide that is retried for ever succeeds.
Fairness ==
  /\ WF_vars(Resume \/ AdvertiseEnds) /\ SF_vars(Provided)
  /\ \A l \in Lookers :
       /\ WF_vars(Discover(l)) /\ WF_vars(DeadlinePasses(l)) /\ SF_vars(SelectDone(l))

FairSpec == Spec /\ Fairness

---------------------------------------------------------------------------
(* Properties. *)

\* Whoever looks a code up gets an answer: neither a lost file, a DHT that
\* answers nothing nor a share that ended keeps Discover from returning.
LookupsEnd == \A l \in Lookers : Active(l) ~> look[l] \in Ends

\* "Only ctx cancellation ends the loop": while a share is open, a record that
\* is missing, because the provide failed or the network forgot it, is provided
\* again.
OfferRenewed == share = "open" /\ ~record ~> record \/ share = "over"

===========================================================================
