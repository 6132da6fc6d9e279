----------------------------- MODULE Placement -----------------------------
(***************************************************************************)
(* What a download promises, seen from the output directory: a name goes   *)
(* from absent to a whole file in one step, the file is content somebody   *)
(* vouched for under that name, and it stays as it is until the user       *)
(* removes it.  There are no partial files, no claims and no crashes here. *)
(* Download implements this specification.                                 *)
(***************************************************************************)
CONSTANTS Names, Bytes, Digest(_), None

VARIABLES
  file,     \* file[n]: the content at outputDir/n, or None
  vouched   \* the <<name, digest>> pairs a share or the user stands for

pvars == <<file, vouched>>

PInit == file = [n \in Names |-> None] /\ vouched = {}

\* A share is registered: its name and digest may land from now on.
Vouch ==
  /\ vouched \subseteq vouched'
  /\ UNCHANGED file

\* A download lands: a whole file, vouched for under this name.
Land(n) ==
  /\ file[n] = None
  /\ file'[n] \in Bytes
  /\ <<n, Digest(file'[n])>> \in vouched
  /\ file' = [file EXCEPT ![n] = file'[n]]
  /\ UNCHANGED vouched

\* The user's own files come and go.
UserWrites(n) ==
  /\ file[n] = None
  /\ file'[n] \in Bytes
  /\ file' = [file EXCEPT ![n] = file'[n]]
  /\ vouched' = vouched \cup {<<n, Digest(file'[n])>>}

UserDeletes(n) ==
  /\ file' = [file EXCEPT ![n] = None]
  /\ UNCHANGED vouched

PNext == Vouch \/ \E n \in Names : Land(n) \/ UserWrites(n) \/ UserDeletes(n)

PSpec == PInit /\ [][PNext]_pvars

=============================================================================
