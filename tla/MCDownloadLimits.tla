-------------------------- MODULE MCDownloadLimits --------------------------
(***************************************************************************)
(* Instances of Download for what does not hold of it: the limits of the   *)
(* properties of DownloadInvariant and DownloadLiveness.                   *)
(***************************************************************************)
EXTENDS MCDownload, DownloadInvariant, DownloadLiveness, TLC

WorkerSymmetry == Permutations(Workers)

\* A code is shared once, as ShareSession makes up a new one for every share; what
\* is shared under it is still edited.
Shared == \A c \in Codes : offer[c] # None => offer'[c] = offer[c]

OnceSpec == Init /\ [][Next /\ Shared]_vars /\ Fairness

=============================================================================
