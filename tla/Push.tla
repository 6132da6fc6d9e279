-------------------------------- MODULE Push --------------------------------
(***************************************************************************)
(* Pushing a file or a directory to a paired device: writeFS on the        *)
(* sending side, and on the receiving side the write branch of serveFS,    *)
(* fsWrite and expandArchive of internal/p2p/fs.go.                        *)
(*                                                                         *)
(* One stream carries one push: a request, an acknowledgement that the     *)
(* receiver is ready, the content, and a response.  A file is staged next  *)
(* to its destination and renamed over it.  A directory arrives as an      *)
(* archive, is expanded into a staging directory, and replaces an existing *)
(* tree by moving that aside first.  Streams run concurrently, the sender  *)
(* may give up at any time, and the receiving process may die.             *)
(*                                                                         *)
(* Abstractions.                                                           *)
(*   - A thing on disk is a file or a tree with some body; an archive and  *)
(*     the tree it expands to have the same body.  No tree is empty.       *)
(*   - The stream delivers the bytes that were sent; a sender whose digest *)
(*     is wrong sends a body its request does not describe.                *)
(***************************************************************************)
EXTENDS Integers, FiniteSets

CONSTANTS
  Streams,   \* the streams pushes arrive on
  Names,     \* destinations, siblings in one directory
  Bodies,    \* what can be sent
  Broken,    \* bodies UnpackZip refuses: not an archive, bad entries, too big
  Requests,  \* the pushes senders make
  Found,     \* what a destination may hold before any push
  MaxPushes, \* bound: pushes attempted
  MaxEdits,  \* bound: steps of the receiving device's user
  MaxFaults, \* bound: streams that break and calls that fail
  MaxCrashes, \* bound: deaths of the receiving process
  None

Request == [name : Names, unpack : BOOLEAN, overwrite : BOOLEAN, allowed : BOOLEAN,
            digest : Bodies \cup {None}, body : Bodies]
Thing == [kind : {"file", "tree"}, body : Bodies]
Tree == {x \in Thing : x.kind = "tree"}

ASSUME PushAssumption ==
  /\ Broken \subseteq Bodies
  /\ Requests \subseteq Request
  /\ None \in Found /\ Found \subseteq Thing \cup {None}
  /\ None \notin Thing /\ None \notin Bodies /\ None \notin Request
  /\ MaxPushes \in Nat /\ MaxEdits \in Nat /\ MaxFaults \in Nat /\ MaxCrashes \in Nat

VARIABLES
  place,     \* place[n]: what is at the destination n
  dirs,      \* whether the directory that holds the destinations exists
  temp,      \* temp[s]: the .lantern-push-* file of stream s: absent, empty or full
  stage,     \* stage[s]: the .lantern-unpack-* tree of stream s, or None
  aside,     \* aside[s]: the .lantern-replaced-* thing of stream s, or None
  stray,     \* such things left behind for good, with the destination they came from
  req,       \* req[s]: the request on stream s
  cli,       \* cli[s]: what the sender waits for, or how its push ended
  srv,       \* srv[s]: the step of fsWrite on stream s
  landed,    \* history: requests whose content reached its destination
  last,      \* history: last[n]: the last thing at n, until the user removes it
  pushes, edits, faults, crashes  \* steps taken against the bounds

disk == <<place, dirs, temp, stage, aside, stray>>
bounds == <<pushes, edits, faults, crashes>>
vars == <<disk, req, cli, srv, landed, last, bounds>>

\* Before the checks, up to the acknowledgement, the content, and the two
\* ways to place it.
ServerSteps == {"idle", "asked", "admitted", "parented", "ready", "arrived",
                "synced", "renamed", "expanding", "expanded", "displacing",
                "placing", "putback", "placed", "swept", "stored", "failed"}
ClientSteps == {"idle", "asked", "ready", "sent", "stored", "refused", "lost"}

TypeOK ==
  /\ place \in [Names -> Thing \cup {None}]
  /\ dirs \in BOOLEAN
  /\ temp \in [Streams -> {"none", "empty", "full"}]
  /\ stage \in [Streams -> Tree \cup {None}]
  /\ aside \in [Streams -> Thing \cup {None}]
  /\ stray \subseteq Names \X Thing
  /\ req \in [Streams -> Request \cup {None}]
  /\ cli \in [Streams -> ClientSteps]
  /\ srv \in [Streams -> ServerSteps]
  /\ landed \subseteq Requests
  /\ last \in [Names -> Thing \cup {None}]
  /\ pushes \in 0..MaxPushes /\ edits \in 0..MaxEdits /\ faults \in 0..MaxFaults
  /\ crashes \in 0..MaxCrashes

Init ==
  /\ place \in [Names -> Found]
  /\ dirs \in {d \in BOOLEAN : (\E n \in Names : place[n] # None) => d}
  /\ temp = [s \in Streams |-> "none"]
  /\ stage = [s \in Streams |-> None]
  /\ aside = [s \in Streams |-> None]
  /\ stray = {}
  /\ req = [s \in Streams |-> None]
  /\ cli = [s \in Streams |-> "idle"]
  /\ srv = [s \in Streams |-> "idle"]
  /\ landed = {}
  /\ last = place
  /\ pushes = 0 /\ edits = 0 /\ faults = 0 /\ crashes = 0

-----------------------------------------------------------------------------
(* Helpers *)

Dest(s) == req[s].name
Shape(r) == IF r.unpack THEN "tree" ELSE "file"
Content(r) == [kind |-> Shape(r), body |-> r.body]

\* The shape of what is at n.
Is(n, kind) == place[n] # None /\ place[n].kind = kind

Goto(s, step) == srv' = [srv EXCEPT ![s] = step]

\* Something is at n now.
Put(n, x) ==
  /\ place' = [place EXCEPT ![n] = x]
  /\ last' = [last EXCEPT ![n] = x]

Fault == faults < MaxFaults /\ faults' = faults + 1

\* The checks fsWrite makes before it touches the disk: the policy, the path
\* and the size (allowed), the shape of what is there, the overwrite request
\* and the presence of a digest.
Admissible(r) ==
  /\ r.allowed
  /\ place[r.name] # None => place[r.name].kind = Shape(r) /\ r.overwrite
  /\ r.digest # None

-----------------------------------------------------------------------------
(* The sending side *)

Ask(s, r) ==
  /\ pushes < MaxPushes /\ pushes' = pushes + 1
  /\ cli[s] \in {"idle", "stored", "refused", "lost"} /\ srv[s] = "idle"
  /\ cli' = [cli EXCEPT ![s] = "asked"]
  /\ req' = [req EXCEPT ![s] = r]
  /\ Goto(s, "asked")
  /\ UNCHANGED <<disk, landed, last, edits, faults, crashes>>

\* The content follows once the receiver has agreed, and not before.
SendContent(s) ==
  /\ cli[s] = "ready"
  /\ cli' = [cli EXCEPT ![s] = "sent"]
  /\ UNCHANGED <<disk, req, srv, landed, last, bounds>>

\* Thirty seconds of silence, or a broken stream: the sender reports an error,
\* and the receiver goes on with what it has.
GiveUp(s) ==
  /\ Fault
  /\ cli[s] \in {"asked", "ready", "sent"}
  /\ cli' = [cli EXCEPT ![s] = "lost"]
  /\ UNCHANGED <<disk, req, srv, landed, last, pushes, edits, crashes>>

-----------------------------------------------------------------------------
(* fsWrite *)

Admit(s) ==
  /\ srv[s] = "asked"
  /\ Goto(s, IF Admissible(req[s]) THEN "admitted" ELSE "failed")
  /\ UNCHANGED <<disk, req, cli, landed, last, bounds>>

MakeParents(s) ==
  /\ srv[s] = "admitted"
  /\ dirs' = TRUE
  /\ Goto(s, "parented")
  /\ UNCHANGED <<place, temp, stage, aside, stray, req, cli, landed, last, bounds>>

\* Create the staging file and tell the sender to go ahead.
CreateTemp(s) ==
  /\ srv[s] = "parented"
  /\ temp' = [temp EXCEPT ![s] = "empty"]
  /\ Goto(s, "ready")
  /\ cli' = IF cli[s] = "asked" THEN [cli EXCEPT ![s] = "ready"] ELSE cli
  /\ UNCHANGED <<place, dirs, stage, aside, stray, req, landed, last, bounds>>

Receive(s) ==
  /\ srv[s] = "ready"
  /\ cli[s] = "sent"
  /\ temp' = [temp EXCEPT ![s] = "full"]
  /\ Goto(s, "arrived")
  /\ UNCHANGED <<place, dirs, stage, aside, stray, req, cli, landed, last, bounds>>

\* Mutant of TimeOut: the stream has no read deadline.
WaitForSender(s) ==
  /\ srv[s] = "ready"
  /\ cli[s] = "lost"
  /\ Goto(s, "failed")
  /\ UNCHANGED <<disk, req, cli, landed, last, bounds>>

\* The read deadline of idleStream, or the end of a stream the sender left.
TimeOut(s) ==
  /\ srv[s] = "ready"
  /\ cli[s] # "sent"
  /\ Goto(s, "failed")
  /\ UNCHANGED <<disk, req, cli, landed, last, bounds>>

\* Mutant of CheckDigest: the digest is compared, and the result dropped.
TrustSender(s) ==
  /\ srv[s] = "arrived"
  /\ Goto(s, "synced")
  /\ UNCHANGED <<disk, req, cli, landed, last, bounds>>

\* Verify the digest before anything becomes visible at the destination.
CheckDigest(s) ==
  /\ srv[s] = "arrived"
  /\ Goto(s, IF req[s].digest = req[s].body THEN "synced" ELSE "failed")
  /\ UNCHANGED <<disk, req, cli, landed, last, bounds>>

\* A file is renamed over whatever file is there now; a directory is not
\* replaced by a file.
RenameFile(s) ==
  /\ srv[s] = "synced" /\ ~req[s].unpack
  /\ \/ /\ ~Is(Dest(s), "tree")
        /\ Put(Dest(s), Content(req[s]))
        /\ landed' = landed \cup {req[s]}
        /\ temp' = [temp EXCEPT ![s] = "none"]
        /\ Goto(s, "renamed")
     \/ /\ Is(Dest(s), "tree")
        /\ Goto(s, "failed")
        /\ UNCHANGED <<place, last, landed, temp>>
  /\ UNCHANGED <<dirs, stage, aside, stray, req, cli, bounds>>

\* The reply describes what is at the destination by then.
StatPlaced(s) ==
  /\ srv[s] \in {"renamed", "swept"}
  /\ Goto(s, IF place[Dest(s)] # None THEN "stored" ELSE "failed")
  /\ UNCHANGED <<disk, req, cli, landed, last, bounds>>

-----------------------------------------------------------------------------
(* expandArchive *)

\* Check the shape again and make the staging directory.
StageTree(s) ==
  /\ srv[s] = "synced" /\ req[s].unpack
  /\ Goto(s, IF Is(Dest(s), "file") THEN "failed" ELSE "expanding")
  /\ UNCHANGED <<disk, req, cli, landed, last, bounds>>

\* UnpackZip fills the staging directory; a refused archive leaves part of it,
\* which the deferred clean-up removes.
Unpack(s) ==
  /\ srv[s] = "expanding"
  /\ stage' = [stage EXCEPT ![s] = Content(req[s])]
  /\ Goto(s, IF req[s].body \in Broken THEN "failed" ELSE "expanded")
  /\ UNCHANGED <<place, dirs, temp, aside, stray, req, cli, landed, last, bounds>>

LookAgain(s) ==
  /\ srv[s] = "expanded"
  /\ Goto(s, IF place[Dest(s)] # None THEN "displacing" ELSE "placing")
  /\ UNCHANGED <<disk, req, cli, landed, last, bounds>>

\* Mutant of Displace: the old tree is removed before the new one is in place.
RemoveOld(s) ==
  /\ srv[s] = "displacing"
  /\ place' = [place EXCEPT ![Dest(s)] = None]
  /\ Goto(s, "placing")
  /\ UNCHANGED <<dirs, temp, stage, aside, stray, req, cli, landed, last, bounds>>

\* Move what is at the destination aside.
Displace(s) ==
  /\ srv[s] = "displacing"
  /\ \/ /\ place[Dest(s)] # None
        /\ aside' = [aside EXCEPT ![s] = place[Dest(s)]]
        /\ place' = [place EXCEPT ![Dest(s)] = None]
        /\ Goto(s, "placing")
     \/ /\ place[Dest(s)] = None
        /\ Goto(s, "failed")
        /\ UNCHANGED <<place, aside>>
  /\ UNCHANGED <<dirs, temp, stage, stray, req, cli, landed, last, bounds>>

\* Mutant of PlaceTree: the error of the last rename is dropped.
PlaceUnchecked(s) ==
  /\ srv[s] = "placing"
  /\ IF place[Dest(s)] = None
     THEN Put(Dest(s), stage[s]) /\ landed' = landed \cup {req[s]}
     ELSE UNCHANGED <<place, last, landed>>
  /\ stage' = [stage EXCEPT ![s] = None]
  /\ Goto(s, "placed")
  /\ UNCHANGED <<dirs, temp, aside, stray, req, cli, bounds>>

\* A directory is renamed only to a name that is free.
PlaceTree(s) ==
  /\ srv[s] = "placing"
  /\ \/ /\ place[Dest(s)] = None
        /\ Put(Dest(s), stage[s])
        /\ landed' = landed \cup {req[s]}
        /\ stage' = [stage EXCEPT ![s] = None]
        /\ Goto(s, "placed")
     \/ /\ place[Dest(s)] # None
        /\ Goto(s, IF aside[s] # None THEN "putback" ELSE "failed")
        /\ UNCHANGED <<place, last, landed, stage>>
  /\ UNCHANGED <<dirs, temp, aside, stray, req, cli, bounds>>

\* Mutant of PutBack: the old tree is not put back.
LeaveAside(s) ==
  /\ srv[s] = "putback"
  /\ Goto(s, "failed")
  /\ UNCHANGED <<disk, req, cli, landed, last, bounds>>

\* Put the old thing back.  The error of this rename is dropped.
PutBack(s) ==
  /\ srv[s] = "putback"
  /\ Goto(s, "failed")
  /\ \/ /\ place[Dest(s)] # None => Is(Dest(s), "file") /\ aside[s].kind = "file"
        /\ Put(Dest(s), aside[s])
        /\ aside' = [aside EXCEPT ![s] = None]
     \/ /\ place[Dest(s)] # None
        /\ ~(Is(Dest(s), "file") /\ aside[s].kind = "file")
        /\ UNCHANGED <<place, last, aside>>
  /\ UNCHANGED <<dirs, temp, stage, stray, req, cli, landed, bounds>>

\* Drop the old tree once the new one is in place.
Sweep(s) ==
  /\ srv[s] = "placed"
  /\ aside' = [aside EXCEPT ![s] = None]
  /\ Goto(s, "swept")
  /\ UNCHANGED <<place, dirs, temp, stage, stray, req, cli, landed, last, bounds>>

-----------------------------------------------------------------------------
(* Failure, the response, and the deferred clean-up *)

\* A call fails on its own: no space, no permission, a broken disk.
Break(s) ==
  /\ Fault
  /\ \/ srv[s] \in {"admitted", "parented", "ready", "arrived", "synced", "renamed",
                    "expanding", "expanded", "displacing", "putback", "swept"}
        /\ Goto(s, "failed")
     \/ srv[s] = "placing"
        /\ Goto(s, IF aside[s] # None THEN "putback" ELSE "failed")
  /\ UNCHANGED <<disk, req, cli, landed, last, pushes, edits, crashes>>

\* The response, if the sender still listens, then the deferred calls.
Respond(s) ==
  /\ srv[s] \in {"stored", "failed"}
  /\ cli' = IF cli[s] \in {"asked", "ready", "sent"}
            THEN [cli EXCEPT ![s] = IF srv[s] = "stored" THEN "stored" ELSE "refused"]
            ELSE cli
  /\ temp' = [temp EXCEPT ![s] = "none"]
  /\ stage' = [stage EXCEPT ![s] = None]
  /\ aside' = [aside EXCEPT ![s] = None]
  /\ stray' = IF aside[s] = None THEN stray ELSE stray \cup {<<Dest(s), aside[s]>>}
  /\ Goto(s, "idle")
  /\ UNCHANGED <<place, dirs, req, landed, last, bounds>>

\* The receiving process dies: the destinations and what was moved aside stay,
\* every stream breaks.  Staging names are never read again.
Crash ==
  /\ crashes < MaxCrashes /\ crashes' = crashes + 1
  /\ \E s \in Streams : srv[s] # "idle"
  /\ stray' = stray \cup {<<Dest(s), aside[s]>> : s \in {t \in Streams : aside[t] # None}}
  /\ temp' = [s \in Streams |-> "none"]
  /\ stage' = [s \in Streams |-> None]
  /\ aside' = [s \in Streams |-> None]
  /\ srv' = [s \in Streams |-> "idle"]
  /\ cli' = [s \in Streams |-> IF cli[s] \in {"asked", "ready", "sent"} THEN "lost" ELSE cli[s]]
  /\ UNCHANGED <<place, dirs, req, landed, last, pushes, edits, faults>>

\* The receiving device's user removes or creates something.
UserRemoves(n) ==
  /\ edits < MaxEdits /\ edits' = edits + 1
  /\ place[n] # None
  /\ place' = [place EXCEPT ![n] = None]
  /\ last' = [last EXCEPT ![n] = None]
  /\ UNCHANGED <<dirs, temp, stage, aside, stray, req, cli, srv, landed, pushes, faults, crashes>>

UserPlaces(n, x) ==
  /\ edits < MaxEdits /\ edits' = edits + 1
  /\ dirs /\ place[n] = None
  /\ Put(n, x)
  /\ UNCHANGED <<dirs, temp, stage, aside, stray, req, cli, srv, landed, pushes, faults, crashes>>

-----------------------------------------------------------------------------

Sender(s) == (\E r \in Requests : Ask(s, r)) \/ SendContent(s) \/ GiveUp(s)

Receiver(s) ==
  \/ Admit(s) \/ MakeParents(s) \/ CreateTemp(s) \/ Receive(s) \/ TimeOut(s)
  \/ CheckDigest(s) \/ RenameFile(s) \/ StatPlaced(s) \/ StageTree(s) \/ Unpack(s)
  \/ LookAgain(s) \/ Displace(s) \/ PlaceTree(s) \/ PutBack(s) \/ Sweep(s)
  \/ Respond(s)

User == \E n \in Names : UserRemoves(n) \/ \E x \in Found \ {None} : UserPlaces(n, x)

Next ==
  \/ \E s \in Streams : Sender(s) \/ Receiver(s) \/ Break(s)
  \/ User
  \/ Crash

Spec == Init /\ [][Next]_vars

\* The handler's goroutine runs, and its deadlines fire.
FairSpec == Spec /\ \A s \in Streams : WF_vars(Receiver(s))

-----------------------------------------------------------------------------
(* Properties *)

\* What is at a destination is what the user put there or the whole content of
\* a push that was permitted, whose bytes matched the sender's digest and whose
\* archive expanded: a push that is refused, breaks off or dies half-way shows
\* nothing of itself (CheckDigest before anything is placed, and the staging).
OnlyVerified ==
  \A n \in Names :
     \/ place[n] \in Found
     \/ \E r \in landed : /\ r.name = n /\ place[n] = Content(r)
                          /\ r.allowed /\ r.digest = r.body
                          /\ ~(r.unpack /\ r.body \in Broken)

\* Whatever fails, dies or races, the last thing a destination held is still at
\* the destination or next to it under the name it was moved aside to
\* (expandArchive removes the old tree only once the new one is in place).
NeverLost ==
  \A n \in Names : last[n] # None =>
     \/ place[n] = last[n]
     \/ \E s \in Streams : aside[s] = last[n] /\ Dest(s) = n
     \/ <<n, last[n]>> \in stray

\* Once every push has ended, a destination that held something holds
\* something: a failed push does not cost the operator what was already there.
\* A receiver that dies between expandArchive's two renames does cost it, and so
\* does a second failing call, of the rename that puts the old tree back: what
\* was there is then under the name it was moved aside to (NeverLost).
DestinationKept ==
  crashes = 0 /\ faults <= 1 /\ (\A s \in Streams : srv[s] = "idle") =>
    \A n \in Names : last[n] # None => place[n] # None

\* A sender that was told its push is stored had its content at the
\* destination, however the receiver's later steps went.
StoredMeansLanded ==
  \A s \in Streams : cli[s] = "stored" => req[s] \in landed

\* Something is replaced only by a push that asked for it.
ReplacedOnRequest ==
  [][\A n \in Names : place[n] # None /\ place'[n] \notin {None, place[n]} =>
       \E s \in Streams : srv'[s] # srv[s] /\ Dest(s) = n /\ req[s].overwrite]_vars

\* Every push ends: a sender that goes silent does not hold the handler, its
\* staging file and its stream for ever.
AlwaysReleased == \A s \in Streams : srv[s] # "idle" ~> srv[s] = "idle"

=============================================================================
