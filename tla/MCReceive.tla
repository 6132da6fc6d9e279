----------------------------- MODULE MCReceive ------------------------------
(***************************************************************************)
(* A receiver: an instance of Frames, the encrypted stream it reads; one   *)
(* of Receive, two fetches of one code as when a user tries again while    *)
(* the first attempt is still on its way out; and one of Rendezvous, a     *)
(* lookup of a code.  Receive has the outcome of a lookup and of a stream  *)
(* and none of their state, so part, chosen once, says which of the three  *)
(* moves, and the run is the three state spaces side by side.              *)
(***************************************************************************)
EXTENDS Frames, Receive

CONSTANTS Lookers, Near, Own, First, Cap, MaxLosses  \* of Rendezvous

OneCode == [f \in 1..MaxFetches |-> CHOOSE c \in Codes : TRUE]

VARIABLES
  part,  \* the component that moves
  share, notice, adv, backoff, record, look, over, losses

Rendezvous == INSTANCE Rendezvous WITH file <- notice, faults <- losses, MaxFaults <- MaxLosses

ASSUME PartsAssumption ==
  /\ FramesConstants /\ ReceiveConstants
  /\ Own \subseteq Near /\ Near \subseteq Lookers
  /\ First \in Nat \ {0} /\ Cap \in Nat /\ First <= Cap

rendezvousVars == <<share, notice, adv, backoff, record, look, over, losses>>
all == <<part, framesVars, vars, rendezvousVars>>

ReceiverInit ==
  /\ part \in {"frames", "receive", "rendezvous"}
  /\ FramesInit /\ Init /\ Rendezvous!Init

OnlyFrames == part = "frames" /\ UNCHANGED <<part, vars, rendezvousVars>>
OnlyReceive == part = "receive" /\ UNCHANGED <<part, framesVars, rendezvousVars>>
OnlyRendezvous == part = "rendezvous" /\ UNCHANGED <<part, framesVars, vars>>

ReceiverNext ==
  \/ OnlyFrames /\ FramesNext
  \/ OnlyReceive /\ Next
  \/ OnlyRendezvous /\ Rendezvous!Next

\* The fairness of each specification, for the part that moves.
ReceiverFairness ==
  /\ \A f \in 1..MaxFetches : WF_all(OnlyReceive /\ Works(f))
  /\ WF_all(OnlyRendezvous /\ (Rendezvous!Resume \/ Rendezvous!AdvertiseEnds))
  /\ SF_all(OnlyRendezvous /\ Rendezvous!Provided)
  /\ \A l \in Lookers :
       /\ WF_all(OnlyRendezvous /\ Rendezvous!Discover(l))
       /\ WF_all(OnlyRendezvous /\ Rendezvous!DeadlinePasses(l))
       /\ SF_all(OnlyRendezvous /\ Rendezvous!SelectDone(l))

ReceiverSpec == ReceiverInit /\ [][ReceiverNext]_all /\ ReceiverFairness

-----------------------------------------------------------------------------
(* The properties of Rendezvous, under their own names. *)

\* A lookup of a code returns, whatever it meets.
LookupsEnd == Rendezvous!LookupsEnd

\* A share that is open is provided again whenever its record is missing.
OfferRenewed == Rendezvous!OfferRenewed

=============================================================================
