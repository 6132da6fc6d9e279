----------------------------- MODULE MCDownloads -----------------------------
(***************************************************************************)
(* Two instances of Download.  The one that is extended has two codes, one *)
(* per route, and hard links, and is asked what may not happen; L has one  *)
(* code and a source that grows, shrinks and changes, on a file system     *)
(* without hard links, and is asked what must happen.  They share no       *)
(* state, so part, chosen once, says which of them moves, and the run is   *)
(* the two state spaces side by side.                                      *)
(***************************************************************************)
EXTENDS MCDownload, DownloadInvariant

CONSTANTS
  n1,
  LiveEdits, LiveFaults  \* the bounds of L

VARIABLES
  part,  \* the instance that moves
  lOffer, lBody, lDest, lPartial, lData, lCkpt, lClaims, lDl, lVouched, lEdits, lFaults

L == INSTANCE DownloadLiveness WITH
       Codes <- {c1}, Names <- {n1}, Contents <- ThreeContents,
       RoutesOf <- [c \in {c1} |-> {"read"}],
       HardLinks <- FALSE, MaxEdits <- LiveEdits, MaxFaults <- LiveFaults,
       offer <- lOffer, body <- lBody, dest <- lDest, partial <- lPartial, data <- lData,
       ckpt <- lCkpt, claims <- lClaims, dl <- lDl, vouched <- lVouched,
       edits <- lEdits, faults <- lFaults

liveVars ==
  <<lOffer, lBody, lDest, lPartial, lData, lCkpt, lClaims, lDl, lVouched, lEdits, lFaults>>
all == <<part, vars, liveVars>>

DownloadsInit == part \in {"safe", "live"} /\ Init /\ L!Init

OnlySafe == part = "safe" /\ UNCHANGED <<part, liveVars>>
OnlyLive == part = "live" /\ UNCHANGED <<part, vars>>

DownloadsNext ==
  \/ OnlySafe /\ Next
  \/ OnlyLive /\ L!Next

\* The fairness of Download, for the part that is asked what must happen.
DownloadsSpec ==
  /\ DownloadsInit /\ [][DownloadsNext]_all
  /\ \A w \in Workers : WF_all(OnlyLive /\ (L!Begin(w) \/ L!Proceed(w)))

EventuallyLands == L!EventuallyLands

=============================================================================
