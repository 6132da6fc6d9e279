----------------------------- MODULE PushProofs -----------------------------
(***************************************************************************)
(* What TLC checks of two streams and one destination, for any number of   *)
(* streams, destinations, bodies, requests, failures and crashes.          *)
(*                                                                         *)
(* Two ties carry it: what a stream has established about its request by   *)
(* the step it is at, and that a thing moved aside belongs to a stream     *)
(* that has still to put it back, drop it or leave it behind.              *)
(***************************************************************************)
EXTENDS Push, TLAPS

\* The steps after the digest was compared, and after the push was admitted.
Checked == {"synced", "renamed", "expanding", "expanded", "displacing", "placing",
            "putback", "placed", "swept", "stored"}
Permitted == {"admitted", "parented", "ready", "arrived"} \cup Checked

\* The steps at which a stream may hold what it moved aside.
Holding == {"placing", "putback", "placed", "failed"}

\* x may be at n: it was found there, or it is the content of a verified push.
Verified(n, x) ==
  \/ x \in Found
  \/ \E r \in landed : /\ r.name = n /\ x = Content(r)
                       /\ r.allowed /\ r.digest = r.body
                       /\ ~(r.unpack /\ r.body \in Broken)

\* A stream at work has a request.
HasRequest == \A s \in Streams : srv[s] # "idle" => req[s] \in Requests

\* What a request is known to be at each step.
Vetted == \A s \in Streams :
  /\ srv[s] \in Permitted => req[s].allowed
  /\ srv[s] \in Checked => req[s].digest = req[s].body
  /\ srv[s] \in {"expanding", "expanded", "displacing", "placing"} => req[s].unpack
  /\ srv[s] \in {"expanded", "displacing", "placing"} =>
       req[s].body \notin Broken /\ stage[s] = Content(req[s])

AsideOwned == \A s \in Streams :
  /\ aside[s] # None => srv[s] \in Holding /\ Verified(Dest(s), aside[s])
  /\ srv[s] = "putback" => aside[s] # None

\* What is at a destination is the last thing that was.
Current == \A n \in Names : place[n] # None => last[n] = place[n]

\* NeverLost, without the thing aside of a stream about to drop it.
Kept == \A n \in Names : last[n] # None =>
  \/ place[n] = last[n]
  \/ \E s \in Streams : aside[s] = last[n] /\ Dest(s) = n /\ srv[s] # "placed"
  \/ <<n, last[n]>> \in stray

\* A stream has landed its push by the time it says so.
Landed == \A s \in Streams :
  srv[s] \in {"renamed", "placed", "swept", "stored"} \/ cli[s] = "stored" => req[s] \in landed

\* While n is empty a stream is yet to fill it, and no call of its own failed
\* but, at most, the one that makes it put the old tree back.
Refilling(n, s) ==
  /\ aside[s] # None /\ Dest(s) = n
  /\ srv[s] = "placing" \/ (srv[s] = "putback" /\ faults = 1)

Refilled ==
  crashes = 0 /\ faults <= 1 =>
    \A n \in Names : last[n] # None => place[n] # None \/ \E s \in Streams : Refilling(n, s)

\* The inductive invariant.
Ties ==
  /\ HasRequest /\ Vetted /\ AsideOwned /\ OnlyVerified
  /\ Current /\ Kept /\ Landed /\ Refilled

PushInv == TypeOK /\ Ties

-----------------------------------------------------------------------------
(* Types *)

LEMMA ContentIsThing ==
  ASSUME NEW r \in Request
  PROVE  Content(r) \in Thing /\ (r.unpack => Content(r) \in Tree)
BY DEF Request, Content, Shape, Thing, Tree

\* Every step of a sender keeps the types.
LEMMA SenderTypes ==
  ASSUME TypeOK, NEW s \in Streams, Sender(s) \/ Break(s) PROVE TypeOK'
<1> USE PushAssumption DEF TypeOK, Goto, Fault, disk, bounds, ServerSteps, ClientSteps
<1>1. ASSUME NEW r \in Requests, Ask(s, r) PROVE TypeOK'
  BY <1>1 DEF Ask
<1>2. CASE SendContent(s)
  BY <1>2 DEF SendContent
<1>3. CASE GiveUp(s)
  BY <1>3 DEF GiveUp
<1>4. CASE Break(s)
  BY <1>4 DEF Break
<1> QED BY <1>1, <1>2, <1>3, <1>4 DEF Sender

\* Every step of a handler keeps the types.
LEMMA ReceiverTypes ==
  ASSUME TypeOK, HasRequest, Vetted, AsideOwned, NEW s \in Streams, Receiver(s)
  PROVE  TypeOK'
<1> USE PushAssumption DEF TypeOK, Goto, disk, bounds, ServerSteps, ClientSteps
<1>0. srv[s] # "idle" => /\ req[s] \in Request /\ Dest(s) \in Names
                         /\ req[s] \in Requests
                         /\ Content(req[s]) \in Thing
                         /\ req[s].unpack => Content(req[s]) \in Tree
  BY ContentIsThing DEF HasRequest, Request, Dest
<1>1. CASE Admit(s)
  BY <1>1 DEF Admit
<1>2. CASE MakeParents(s)
  BY <1>2 DEF MakeParents
<1>3. CASE CreateTemp(s)
  BY <1>3 DEF CreateTemp
<1>4. CASE Receive(s)
  BY <1>4 DEF Receive
<1>5. CASE TimeOut(s)
  BY <1>5 DEF TimeOut
<1>6. CASE CheckDigest(s)
  BY <1>6 DEF CheckDigest
<1>7. CASE RenameFile(s)
  BY <1>0, <1>7 DEF RenameFile, Put
<1>8. CASE StatPlaced(s)
  BY <1>8 DEF StatPlaced
<1>9. CASE StageTree(s)
  BY <1>9 DEF StageTree
<1>10. CASE Unpack(s)
  BY <1>0, <1>10 DEF Unpack, Vetted
<1>11. CASE LookAgain(s)
  BY <1>11 DEF LookAgain
<1>12. CASE Displace(s)
  BY <1>0, <1>12 DEF Displace
<1>13. CASE PlaceTree(s)
  BY <1>0, <1>13 DEF PlaceTree, Put, Tree
<1>14. CASE PutBack(s)
  BY <1>0, <1>14 DEF PutBack, Put
<1>15. CASE Sweep(s)
  BY <1>15 DEF Sweep
<1>16. CASE Respond(s)
  BY <1>0, <1>16 DEF Respond
<1> QED BY <1>1, <1>2, <1>3, <1>4, <1>5, <1>6, <1>7, <1>8, <1>9, <1>10, <1>11,
           <1>12, <1>13, <1>14, <1>15, <1>16 DEF Receiver

\* So do a crash of the receiving process and the user.
LEMMA OtherTypes ==
  ASSUME TypeOK, HasRequest, AsideOwned, Crash \/ User PROVE TypeOK'
<1> USE PushAssumption DEF TypeOK, ServerSteps, ClientSteps
<1>1. CASE Crash
  <2>1. ASSUME NEW s \in Streams, aside[s] # None PROVE <<Dest(s), aside[s]>> \in Names \X Thing
    <3>1. req[s] \in Request
      BY <2>1 DEF AsideOwned, Holding, HasRequest
    <3> QED BY <2>1, <3>1 DEF Request, Dest
  <2>2. stray' \subseteq Names \X Thing
    BY <1>1, <2>1 DEF Crash
  <2> QED BY <1>1, <2>2 DEF Crash
<1>2. ASSUME NEW n \in Names, UserRemoves(n) PROVE TypeOK'
  BY <1>2 DEF UserRemoves
<1>3. ASSUME NEW n \in Names, NEW x \in Found \ {None}, UserPlaces(n, x) PROVE TypeOK'
  BY <1>3 DEF UserPlaces, Put
<1> QED BY <1>1, <1>2, <1>3 DEF User

-----------------------------------------------------------------------------
(* Steps that leave the destinations alone *)

\* A stream that holds nothing aside moves on.
LEMMA QuietStep ==
  ASSUME PushInv, NEW s \in Streams, NEW x \in ServerSteps,
         srv' = [srv EXCEPT ![s] = x], srv[s] \notin Holding, x # "putback",
         UNCHANGED <<place, aside, stray, req, landed, last, bounds>>
  PROVE  AsideOwned' /\ OnlyVerified' /\ Current' /\ Kept' /\ Refilled'
<1> USE DEF PushInv, Ties, TypeOK, bounds
<1>1. AsideOwned'
  BY DEF AsideOwned, Verified, Dest
<1>2. OnlyVerified'
  BY DEF OnlyVerified
<1>3. Current'
  BY DEF Current
<1>4. Kept'
  BY DEF Kept, AsideOwned, Holding, Dest
<1>5. Refilled'
  BY DEF Refilled, Refilling, AsideOwned, Holding, Dest
<1> QED BY <1>1, <1>2, <1>3, <1>4, <1>5

\* The steps of the protocol and of the checks.
LEMMA ChecksKeep ==
  ASSUME PushInv, NEW s \in Streams,
         \/ Admit(s) \/ MakeParents(s) \/ CreateTemp(s) \/ Receive(s) \/ TimeOut(s)
         \/ CheckDigest(s) \/ StatPlaced(s) \/ StageTree(s) \/ Unpack(s) \/ LookAgain(s)
  PROVE  Ties'
<1> DEFINE Quiet(x) == /\ x \in ServerSteps /\ srv' = [srv EXCEPT ![s] = x]
                       /\ srv[s] \notin Holding /\ x # "putback"
                       /\ UNCHANGED <<place, aside, stray, req, landed, last, bounds>>
           Ours == HasRequest' /\ Vetted' /\ Landed'
<1>0. ASSUME NEW x, Quiet(x) PROVE AsideOwned' /\ OnlyVerified' /\ Current' /\ Kept' /\ Refilled'
  BY <1>0, QuietStep
<1>1. SUFFICES (\E x : Quiet(x)) /\ Ours
  BY <1>0 DEF Ties
<1> USE DEF PushInv, Ties, TypeOK, HasRequest, Vetted, Landed, Permitted, Checked, Holding,
            Goto, disk, bounds, ServerSteps
<1>2. CASE Admit(s)
  <2>1. Quiet(IF Admissible(req[s]) THEN "admitted" ELSE "failed")
    BY <1>2 DEF Admit, Admissible
  <2>2. Ours
    BY <1>2 DEF Admit, Admissible
  <2> QED BY <2>1, <2>2
<1>3. CASE MakeParents(s)
  <2>1. Quiet("parented")
    BY <1>3 DEF MakeParents
  <2>2. Ours
    BY <1>3 DEF MakeParents
  <2> QED BY <2>1, <2>2
<1>4. CASE CreateTemp(s)
  <2>1. Quiet("ready")
    BY <1>4 DEF CreateTemp
  <2>2. Ours
    BY <1>4 DEF CreateTemp
  <2> QED BY <2>1, <2>2
<1>5. CASE Receive(s)
  <2>1. Quiet("arrived")
    BY <1>5 DEF Receive
  <2>2. Ours
    BY <1>5 DEF Receive
  <2> QED BY <2>1, <2>2
<1>6. CASE TimeOut(s)
  <2>1. Quiet("failed")
    BY <1>6 DEF TimeOut
  <2>2. Ours
    BY <1>6 DEF TimeOut
  <2> QED BY <2>1, <2>2
<1>7. CASE CheckDigest(s)
  <2>1. Quiet(IF req[s].digest = req[s].body THEN "synced" ELSE "failed")
    BY <1>7 DEF CheckDigest
  <2>2. Ours
    BY <1>7 DEF CheckDigest
  <2> QED BY <2>1, <2>2
<1>8. CASE StatPlaced(s)
  <2>1. Quiet(IF place[Dest(s)] # None THEN "stored" ELSE "failed")
    BY <1>8 DEF StatPlaced
  <2>2. Ours
    BY <1>8 DEF StatPlaced
  <2> QED BY <2>1, <2>2
<1>9. CASE StageTree(s)
  <2>1. Quiet(IF Is(Dest(s), "file") THEN "failed" ELSE "expanding")
    BY <1>9 DEF StageTree
  <2>2. Ours
    BY <1>9 DEF StageTree
  <2> QED BY <2>1, <2>2
<1>10. CASE Unpack(s)
  <2>1. Quiet(IF req[s].body \in Broken THEN "failed" ELSE "expanded")
    BY <1>10 DEF Unpack
  <2>2. Ours
    BY <1>10 DEF Unpack
  <2> QED BY <2>1, <2>2
<1>11. CASE LookAgain(s)
  <2>1. Quiet(IF place[Dest(s)] # None THEN "displacing" ELSE "placing")
    BY <1>11 DEF LookAgain
  <2>2. Ours
    BY <1>11 DEF LookAgain
  <2> QED BY <2>1, <2>2
<1> QED BY <1>2, <1>3, <1>4, <1>5, <1>6, <1>7, <1>8, <1>9, <1>10, <1>11

-----------------------------------------------------------------------------
(* Steps that change what is at a destination *)

\* A verified file is renamed over its destination.
LEMMA RenameKeeps ==
  ASSUME PushInv, TypeOK', NEW s \in Streams, RenameFile(s) PROVE Ties'
<1> USE DEF PushInv, Ties, TypeOK, Goto, bounds
<1>1. CASE srv' = [srv EXCEPT ![s] = "failed"] /\ UNCHANGED <<place, last, landed, temp>>
  <2>1. /\ srv[s] \notin Holding /\ "failed" \in ServerSteps
        /\ UNCHANGED <<aside, stray, req, stage, cli>>
    BY DEF RenameFile, Holding, ServerSteps
  <2>2. AsideOwned' /\ OnlyVerified' /\ Current' /\ Kept' /\ Refilled'
    BY <1>1, <2>1, QuietStep DEF RenameFile
  <2>3. HasRequest' /\ Vetted' /\ Landed'
    BY <1>1, <2>1 DEF RenameFile, HasRequest, Vetted, Landed, Permitted, Checked
  <2> QED BY <2>2, <2>3
<1>2. CASE /\ Put(Dest(s), Content(req[s])) /\ landed' = landed \cup {req[s]}
           /\ srv' = [srv EXCEPT ![s] = "renamed"]
  <2>1. /\ srv[s] = "synced" /\ ~req[s].unpack /\ req[s] \in Requests /\ req[s] \in Request
        /\ req[s].allowed /\ req[s].digest = req[s].body /\ Dest(s) \in Names
        /\ UNCHANGED <<aside, stray, req, stage, cli, bounds>>
    BY PushAssumption DEF RenameFile, HasRequest, Vetted, Permitted, Checked, Dest, Request
  <2>2. /\ place' = [place EXCEPT ![Dest(s)] = Content(req[s])]
        /\ last' = [last EXCEPT ![Dest(s)] = Content(req[s])]
        /\ Content(req[s]) # None
    BY <1>2, <2>1, ContentIsThing, PushAssumption DEF Put
  <2>3. HasRequest' /\ Vetted'
    BY <1>2, <2>1 DEF HasRequest, Vetted, Permitted, Checked
  <2>4. Landed'
    BY <1>2, <2>1 DEF Landed
  <2>5. AsideOwned'
    BY <1>2, <2>1 DEF AsideOwned, Holding, Verified, Dest
  <2>6. OnlyVerified'
    BY <1>2, <2>1, <2>2 DEF OnlyVerified, Dest
  <2>7. Current'
    BY <2>1, <2>2 DEF Current
  <2>8. Kept'
    BY <1>2, <2>1, <2>2 DEF Kept, Dest
  <2>9. Refilled'
    BY <1>2, <2>1, <2>2 DEF Refilled, Refilling, Dest
  <2> QED BY <2>3, <2>4, <2>5, <2>6, <2>7, <2>8, <2>9
<1> QED BY <1>1, <1>2 DEF RenameFile

\* What is at the destination is moved aside.
LEMMA DisplaceKeeps ==
  ASSUME PushInv, TypeOK', NEW s \in Streams, Displace(s) PROVE Ties'
<1> USE DEF PushInv, Ties, TypeOK, Goto, bounds
<1>1. CASE srv' = [srv EXCEPT ![s] = "failed"] /\ UNCHANGED <<place, aside>>
  <2>1. /\ srv[s] \notin Holding /\ "failed" \in ServerSteps
        /\ UNCHANGED <<stray, req, stage, cli, landed, last>>
    BY DEF Displace, Holding, ServerSteps
  <2>2. AsideOwned' /\ OnlyVerified' /\ Current' /\ Kept' /\ Refilled'
    BY <1>1, <2>1, QuietStep DEF Displace
  <2>3. HasRequest' /\ Vetted' /\ Landed'
    BY <1>1, <2>1 DEF Displace, HasRequest, Vetted, Landed, Permitted, Checked
  <2> QED BY <2>2, <2>3
<1>2. CASE /\ place[Dest(s)] # None /\ aside' = [aside EXCEPT ![s] = place[Dest(s)]]
           /\ place' = [place EXCEPT ![Dest(s)] = None]
           /\ srv' = [srv EXCEPT ![s] = "placing"]
  <2>1. /\ srv[s] = "displacing" /\ req[s] \in Request /\ Dest(s) \in Names /\ aside[s] = None
        /\ UNCHANGED <<stray, req, stage, cli, landed, last, bounds>>
    BY PushAssumption DEF Displace, HasRequest, AsideOwned, Holding, Dest, Request
  <2>2. HasRequest' /\ Vetted'
    BY <1>2, <2>1 DEF HasRequest, Vetted, Permitted, Checked
  <2>3. Landed'
    BY <1>2, <2>1 DEF Landed
  <2>4. AsideOwned'
    BY <1>2, <2>1 DEF AsideOwned, Holding, Verified, Dest, OnlyVerified
  <2>5. OnlyVerified'
    BY <1>2, <2>1, PushAssumption DEF OnlyVerified
  <2>6. Current'
    BY <1>2, <2>1 DEF Current
  <2>7. Kept'
    BY <1>2, <2>1 DEF Kept, Current, Dest
  <2>8. Refilled'
    BY <1>2, <2>1 DEF Refilled, Refilling, Dest
  <2> QED BY <2>2, <2>3, <2>4, <2>5, <2>6, <2>7, <2>8
<1> QED BY <1>1, <1>2 DEF Displace

\* The expanded tree is renamed to a free name, or its owner turns back.
LEMMA PlaceKeeps ==
  ASSUME PushInv, TypeOK', NEW s \in Streams, PlaceTree(s) PROVE Ties'
<1> USE DEF PushInv, Ties, TypeOK, Goto, bounds
<1>0. /\ srv[s] = "placing" /\ req[s] \in Requests /\ req[s] \in Request /\ Dest(s) \in Names
      /\ req[s].allowed /\ req[s].digest = req[s].body /\ req[s].body \notin Broken
      /\ stage[s] = Content(req[s]) /\ Content(req[s]) # None
      /\ UNCHANGED <<aside, stray, req, cli, bounds>>
  BY PushAssumption, ContentIsThing
     DEF PlaceTree, HasRequest, Vetted, Permitted, Checked, Dest, Request
<1>1. CASE /\ place[Dest(s)] # None
           /\ srv' = [srv EXCEPT ![s] = IF aside[s] # None THEN "putback" ELSE "failed"]
           /\ UNCHANGED <<place, last, landed, stage>>
  <2>1. HasRequest' /\ Vetted' /\ Landed'
    BY <1>0, <1>1 DEF HasRequest, Vetted, Landed, Permitted, Checked
  <2>2. AsideOwned' /\ OnlyVerified' /\ Current'
    BY <1>0, <1>1 DEF AsideOwned, Holding, Verified, Dest, OnlyVerified, Current
  <2>3. Kept'
    BY <1>0, <1>1 DEF Kept, Dest
  <2>4. Refilled'
    BY <1>0, <1>1 DEF Refilled, Refilling, Dest
  <2> QED BY <2>1, <2>2, <2>3, <2>4
<1>2. CASE /\ place[Dest(s)] = None /\ Put(Dest(s), stage[s])
           /\ landed' = landed \cup {req[s]}
           /\ stage' = [stage EXCEPT ![s] = None] /\ srv' = [srv EXCEPT ![s] = "placed"]
  <2>1. /\ place' = [place EXCEPT ![Dest(s)] = Content(req[s])]
        /\ last' = [last EXCEPT ![Dest(s)] = Content(req[s])]
    BY <1>0, <1>2 DEF Put
  <2>2. HasRequest' /\ Vetted'
    BY <1>0, <1>2 DEF HasRequest, Vetted, Permitted, Checked
  <2>3. Landed'
    BY <1>0, <1>2 DEF Landed
  <2>4. AsideOwned'
    BY <1>0, <1>2 DEF AsideOwned, Holding, Verified, Dest
  <2>5. OnlyVerified'
    BY <1>0, <1>2, <2>1 DEF OnlyVerified, Dest
  <2>6. Current'
    BY <1>0, <2>1 DEF Current
  <2>7. Kept'
    BY <1>0, <1>2, <2>1 DEF Kept, Dest
  <2>8. Refilled'
    BY <1>0, <1>2, <2>1 DEF Refilled, Refilling, Dest
  <2> QED BY <2>2, <2>3, <2>4, <2>5, <2>6, <2>7, <2>8
<1> QED BY <1>1, <1>2 DEF PlaceTree

\* The old thing is put back, or stays aside where something took its place.
LEMMA PutBackKeeps ==
  ASSUME PushInv, TypeOK', NEW s \in Streams, PutBack(s) PROVE Ties'
<1> USE DEF PushInv, Ties, TypeOK, Goto, bounds
<1>0. /\ srv[s] = "putback" /\ req[s] \in Request /\ Dest(s) \in Names
      /\ aside[s] # None /\ Verified(Dest(s), aside[s])
      /\ srv' = [srv EXCEPT ![s] = "failed"]
      /\ UNCHANGED <<stray, req, cli, stage, landed, bounds>>
  BY PushAssumption DEF PutBack, HasRequest, AsideOwned, Dest, Request
<1>1. HasRequest' /\ Vetted' /\ Landed'
  BY <1>0 DEF HasRequest, Vetted, Landed, Permitted, Checked
<1>2. CASE UNCHANGED <<place, last, aside>> /\ place[Dest(s)] # None
  <2>1. AsideOwned' /\ OnlyVerified' /\ Current'
    BY <1>0, <1>2 DEF AsideOwned, Holding, Verified, Dest, OnlyVerified, Current
  <2>2. Kept'
    BY <1>0, <1>2 DEF Kept, Dest
  <2>3. Refilled'
    BY <1>0, <1>2 DEF Refilled, Refilling, Dest
  <2> QED BY <1>1, <2>1, <2>2, <2>3
<1>3. CASE Put(Dest(s), aside[s]) /\ aside' = [aside EXCEPT ![s] = None]
  <2>1. /\ place' = [place EXCEPT ![Dest(s)] = aside[s]]
        /\ last' = [last EXCEPT ![Dest(s)] = aside[s]]
    BY <1>3 DEF Put
  <2>2. AsideOwned'
    BY <1>0, <1>3 DEF AsideOwned, Holding, Verified, Dest
  <2>3. OnlyVerified'
    BY <1>0, <2>1 DEF OnlyVerified, Verified
  <2>4. Current'
    BY <1>0, <2>1 DEF Current
  <2>5. Kept'
    BY <1>0, <1>3, <2>1 DEF Kept, Dest
  <2>6. Refilled'
    BY <1>0, <1>3, <2>1 DEF Refilled, Refilling, Dest
  <2> QED BY <1>1, <2>2, <2>3, <2>4, <2>5, <2>6
<1> QED BY <1>2, <1>3 DEF PutBack

-----------------------------------------------------------------------------
(* Steps that end something *)

\* The old tree goes once the new one is in place, and a stream that answers
\* leaves behind what it could not put back.
LEMMA EndingsKeep ==
  ASSUME PushInv, TypeOK', NEW s \in Streams, Sweep(s) \/ Respond(s) PROVE Ties'
<1> USE DEF PushInv, Ties, TypeOK, Goto, bounds
<1>1. CASE Sweep(s)
  <2>0. /\ srv[s] = "placed" /\ srv' = [srv EXCEPT ![s] = "swept"]
        /\ aside' = [aside EXCEPT ![s] = None]
        /\ UNCHANGED <<place, stray, req, cli, stage, landed, last, bounds>>
    BY <1>1 DEF Sweep
  <2>1. HasRequest' /\ Vetted' /\ Landed'
    BY <2>0 DEF HasRequest, Vetted, Landed, Permitted, Checked
  <2>2. AsideOwned' /\ OnlyVerified' /\ Current'
    BY <2>0 DEF AsideOwned, Holding, Verified, Dest, OnlyVerified, Current
  <2>3. Kept'
    BY <2>0 DEF Kept, Dest
  <2>4. Refilled'
    BY <2>0 DEF Refilled, Refilling, Dest
  <2> QED BY <2>1, <2>2, <2>3, <2>4
<1>2. CASE Respond(s)
  <2>0. /\ srv[s] \in {"stored", "failed"} /\ srv' = [srv EXCEPT ![s] = "idle"]
        /\ aside' = [aside EXCEPT ![s] = None] /\ stage' = [stage EXCEPT ![s] = None]
        /\ stray' = IF aside[s] = None THEN stray ELSE stray \cup {<<Dest(s), aside[s]>>}
        /\ UNCHANGED <<place, req, landed, last, bounds>>
    BY <1>2 DEF Respond
  <2>1. HasRequest' /\ Vetted'
    BY <2>0 DEF HasRequest, Vetted, Permitted, Checked
  <2>2. Landed'
    BY <1>2, <2>0 DEF Respond, Landed
  <2>3. AsideOwned' /\ OnlyVerified' /\ Current'
    BY <2>0 DEF AsideOwned, Holding, Verified, Dest, OnlyVerified, Current
  <2>4. Kept'
    BY <2>0 DEF Kept, Dest
  <2>5. Refilled'
    BY <2>0 DEF Refilled, Refilling, Dest
  <2> QED BY <2>1, <2>2, <2>3, <2>4, <2>5
<1> QED BY <1>1, <1>2

\* The receiving process dies.
LEMMA CrashKeeps ==
  ASSUME PushInv, TypeOK', Crash PROVE Ties'
<1> USE DEF PushInv, Ties, TypeOK, Crash
<1>1. HasRequest' /\ Vetted' /\ Landed'
  BY DEF HasRequest, Vetted, Landed, Permitted, Checked
<1>2. AsideOwned' /\ OnlyVerified' /\ Current'
  BY DEF AsideOwned, OnlyVerified, Current
<1>3. Kept'
  BY DEF Kept, Dest
<1>4. Refilled'
  BY DEF Refilled
<1> QED BY <1>1, <1>2, <1>3, <1>4

\* A call fails.
LEMMA BreakKeeps ==
  ASSUME PushInv, TypeOK', NEW s \in Streams, Break(s) PROVE Ties'
<1> USE DEF PushInv, Ties, TypeOK, Goto
<1>0. /\ faults' = faults + 1 /\ crashes' = crashes
      /\ UNCHANGED <<place, aside, stray, stage, req, cli, landed, last>>
  BY DEF Break, Fault, disk
<1>1. PICK x \in {"failed", "putback"} :
        /\ srv' = [srv EXCEPT ![s] = x] /\ srv[s] \notin {"idle", "placed"}
        /\ srv[s] # "placing" => x = "failed"
        /\ srv[s] = "placing" => (x = "putback" <=> aside[s] # None)
  BY DEF Break
<1>2. HasRequest' /\ Vetted' /\ Landed'
  BY <1>0, <1>1 DEF HasRequest, Vetted, Landed, Permitted, Checked
<1>3. AsideOwned' /\ OnlyVerified' /\ Current'
  BY <1>0, <1>1 DEF AsideOwned, Holding, Verified, Dest, OnlyVerified, Current
<1>4. Kept'
  BY <1>0, <1>1 DEF Kept, Dest
<1>5. Refilled'
  BY <1>0, <1>1 DEF Refilled, Refilling, AsideOwned, Holding, Dest
<1> QED BY <1>2, <1>3, <1>4, <1>5

\* A sender asks, sends or gives up.
LEMMA SenderKeeps ==
  ASSUME PushInv, TypeOK', NEW s \in Streams, Sender(s) PROVE Ties'
<1> USE DEF PushInv, Ties, TypeOK, Goto, disk
<1>1. ASSUME NEW r \in Requests, Ask(s, r) PROVE Ties'
  <2>0. /\ srv[s] = "idle" /\ srv' = [srv EXCEPT ![s] = "asked"]
        /\ cli' = [cli EXCEPT ![s] = "asked"] /\ req' = [req EXCEPT ![s] = r]
        /\ UNCHANGED <<place, aside, stray, stage, landed, last, faults, crashes>>
    BY <1>1 DEF Ask
  <2>1. HasRequest' /\ Vetted' /\ Landed'
    BY <2>0 DEF HasRequest, Vetted, Landed, Permitted, Checked
  <2>2. aside[s] = None
    BY <2>0 DEF AsideOwned, Holding
  <2>3. AsideOwned' /\ OnlyVerified' /\ Current'
    BY <2>0, <2>2 DEF AsideOwned, Verified, Dest, OnlyVerified, Current
  <2>4. Kept'
    BY <2>0, <2>2 DEF Kept, Dest
  <2>5. Refilled'
    BY <2>0, <2>2 DEF Refilled, Refilling, Dest
  <2> QED BY <2>1, <2>3, <2>4, <2>5
<1>2. ASSUME /\ UNCHANGED <<place, aside, stray, stage, req, srv, landed, last, crashes>>
             /\ faults' \in {faults, faults + 1}
             /\ cli' \in {[cli EXCEPT ![s] = "sent"], [cli EXCEPT ![s] = "lost"]}
      PROVE  Ties'
  <2>1. HasRequest' /\ Vetted' /\ Landed'
    BY <1>2 DEF HasRequest, Vetted, Landed
  <2>2. AsideOwned' /\ OnlyVerified' /\ Current' /\ Kept'
    BY <1>2 DEF AsideOwned, Verified, Dest, OnlyVerified, Current, Kept
  <2>3. Refilled'
    BY <1>2 DEF Refilled, Refilling, Dest
  <2> QED BY <2>1, <2>2, <2>3
<1>3. CASE SendContent(s)
  BY <1>2, <1>3 DEF SendContent, bounds
<1>4. CASE GiveUp(s)
  BY <1>2, <1>4 DEF GiveUp, Fault
<1> QED BY <1>1, <1>3, <1>4 DEF Sender

\* The user removes or creates something.
LEMMA UserKeeps ==
  ASSUME PushInv, TypeOK', User PROVE Ties'
<1> USE PushAssumption DEF PushInv, Ties, TypeOK
<1>1. PICK n \in Names, x \in Found :
        /\ place' = [place EXCEPT ![n] = x] /\ last' = [last EXCEPT ![n] = x]
        /\ UNCHANGED <<stage, aside, stray, req, cli, srv, landed, faults, crashes>>
  BY DEF User, UserRemoves, UserPlaces, Put
<1>2. HasRequest' /\ Vetted' /\ Landed'
  BY <1>1 DEF HasRequest, Vetted, Landed
<1>3. AsideOwned'
  BY <1>1 DEF AsideOwned, Verified, Dest
<1>4. OnlyVerified' /\ Current'
  BY <1>1 DEF OnlyVerified, Current
<1>5. Kept'
  BY <1>1 DEF Kept, Dest
<1>6. Refilled'
  BY <1>1 DEF Refilled, Refilling, Dest
<1> QED BY <1>2, <1>3, <1>4, <1>5, <1>6

-----------------------------------------------------------------------------
(* The theorems *)

LEMMA Initially == Init => PushInv
<1> SUFFICES ASSUME Init PROVE PushInv
  OBVIOUS
<1> USE PushAssumption DEF Init
<1>1. TypeOK
  BY DEF TypeOK, ServerSteps, ClientSteps
<1>2. HasRequest /\ Vetted /\ AsideOwned /\ Landed
  BY DEF HasRequest, Vetted, AsideOwned, Landed, Permitted, Checked
<1>3. OnlyVerified /\ Current /\ Kept /\ Refilled
  BY DEF OnlyVerified, Current, Kept, Refilled
<1> QED BY <1>1, <1>2, <1>3 DEF PushInv, Ties

LEMMA Inductive == PushInv /\ [Next]_vars => PushInv'
<1> SUFFICES ASSUME PushInv, [Next]_vars PROVE PushInv'
  OBVIOUS
<1> USE DEF PushInv
<1>0. HasRequest /\ Vetted /\ AsideOwned
  BY DEF Ties
<1>1. ASSUME NEW s \in Streams, Receiver(s) PROVE PushInv'
  <2>1. TypeOK'
    BY <1>0, <1>1, ReceiverTypes
  <2>2. CASE \/ Admit(s) \/ MakeParents(s) \/ CreateTemp(s) \/ Receive(s) \/ TimeOut(s)
             \/ CheckDigest(s) \/ StatPlaced(s) \/ StageTree(s) \/ Unpack(s) \/ LookAgain(s)
    BY <2>1, <2>2, ChecksKeep
  <2>3. CASE RenameFile(s)
    BY <2>1, <2>3, RenameKeeps
  <2>4. CASE Displace(s)
    BY <2>1, <2>4, DisplaceKeeps
  <2>5. CASE PlaceTree(s)
    BY <2>1, <2>5, PlaceKeeps
  <2>6. CASE PutBack(s)
    BY <2>1, <2>6, PutBackKeeps
  <2>7. CASE Sweep(s) \/ Respond(s)
    BY <2>1, <2>7, EndingsKeep
  <2> QED BY <1>1, <2>2, <2>3, <2>4, <2>5, <2>6, <2>7 DEF Receiver
<1>2. ASSUME NEW s \in Streams, Sender(s) PROVE PushInv'
  BY <1>2, SenderTypes, SenderKeeps
<1>3. ASSUME NEW s \in Streams, Break(s) PROVE PushInv'
  BY <1>3, SenderTypes, BreakKeeps
<1>4. CASE User
  BY <1>0, <1>4, OtherTypes, UserKeeps
<1>5. CASE Crash
  BY <1>0, <1>5, OtherTypes, CrashKeeps
<1>6. CASE UNCHANGED vars
  <2>1. TypeOK'
    BY <1>6 DEF vars, disk, bounds, TypeOK
  <2>2. HasRequest' /\ Vetted' /\ Landed'
    BY <1>6 DEF vars, disk, bounds, Ties, HasRequest, Vetted, Landed
  <2>3. AsideOwned' /\ OnlyVerified' /\ Current'
    BY <1>6 DEF vars, disk, bounds, Ties, AsideOwned, Verified, Dest, OnlyVerified, Current
  <2>4. Kept' /\ Refilled'
    BY <1>6 DEF vars, disk, bounds, Ties, Kept, Refilled, Refilling, Dest
  <2> QED BY <2>1, <2>2, <2>3, <2>4 DEF Ties
<1> QED BY <1>1, <1>2, <1>3, <1>4, <1>5, <1>6 DEF Next

LEMMA Always == Spec => []PushInv
BY Initially, Inductive, PTL DEF Spec

\* A destination holds what was there or the whole content of a permitted push
\* whose digest matched and whose archive expanded, and nothing else ever
\* (fsWrite's checks before the rename, expandArchive's staging).
THEOREM NothingUnverified == Spec => []OnlyVerified
<1>1. PushInv => OnlyVerified
  BY DEF PushInv, Ties
<1> QED BY <1>1, Always, PTL

\* The last thing a destination held is there, or next to it where it was moved
\* aside, after any number of failures and crashes (expandArchive).
THEOREM LastIsKept == Spec => []NeverLost
<1>1. PushInv => NeverLost
  BY DEF PushInv, Ties, Kept, NeverLost
<1> QED BY <1>1, Always, PTL

\* One failed call, and any number of refused, silent and racing pushes, never
\* leave a destination empty that held something (expandArchive puts the old
\* tree back).
THEOREM NoCostOfOneFailure == Spec => []DestinationKept
<1>1. PushInv => DestinationKept
  BY DEF PushInv, Ties, Refilled, Refilling, DestinationKept
<1> QED BY <1>1, Always, PTL

\* A sender that was told its push is stored had it at the destination
\* (fsWrite's response).
THEOREM StoredIsTrue == Spec => []StoredMeansLanded
<1>1. PushInv => StoredMeansLanded
  BY DEF PushInv, Ties, Landed, StoredMeansLanded
<1> QED BY <1>1, Always, PTL

=============================================================================
