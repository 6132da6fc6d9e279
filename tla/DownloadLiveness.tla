--------------------------- MODULE DownloadLiveness ---------------------------
(***************************************************************************)
(* What Download brings about, under FairSpec: a share that can land does. *)
(* An exception is needed, and the property that does without it is kept   *)
(* beside, since it is what the code's documentation says.                 *)
(***************************************************************************)
EXTENDS Download

\* The sender's share is as it was registered and offered with its digest, its
\* name is free, and there will be no more faults and edits.
Settled(c) ==
  /\ edits = MaxEdits /\ faults = MaxFaults
  /\ \A w \in Workers : dl[w] = Idle
  /\ offer[c] # None
  /\ offer[c].digest = Digest(body[c])
  /\ dest[offer[c].name] = None
Lands(c) == offer[c] # None /\ dest[offer[c].name] # None

\* What was left behind counts no more bytes than the file now has, and, where
\* receiveFile reads it, is about the same name.  The code asks for both: a
\* checkpoint past the size is refused by SaveResume and cleared by nobody, and
\* receiveFile refuses a header whose name is not the checkpoint's.
Resumes(c) ==
  ckpt[c] # None => /\ ckpt[c].off <= offer[c].size
                    /\ "share" \in RoutesOf[c] => ckpt[c].name = offer[c].name

\* A settled share is eventually in place, whatever crashes, cancellations and
\* refused bodies left on the disk, a checkpoint of more bytes than the file
\* has excepted: any other checkpoint, partial or claim keeps nobody out for
\* good (LoadResume, the truncation in FetchFS, cleanupPartial).
EventuallyLands == \A c \in Codes : Settled(c) /\ Resumes(c) ~> Lands(c)

\* The same without the exception, as LoadResume says: "Corrupt or stale entries
\* are removed and treated as no resume."  It is not what FetchFS does: the file
\* it resolves may have become shorter than the checkpoint.
StaleNeverBlocks == \A c \in Codes : Settled(c) ~> Lands(c)

=============================================================================
