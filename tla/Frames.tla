------------------------------- MODULE Frames -------------------------------
(***************************************************************************)
(* The encrypted file stream between a sender and a receiver:              *)
(* EncryptedWriter and EncryptedReader of internal/crypto/crypto.go over   *)
(* WriteFull of internal/protocol/metadata.go.                             *)
(*                                                                         *)
(* Bytes are numbered from 1 in the order they are written.  A frame on    *)
(* the wire is the range of bytes it carries; each is sealed on its own,   *)
(* so nothing but its place in the stream ties it to the one before.  The  *)
(* connection may be cut within a frame or between two, a frame may arrive *)
(* altered, and the two sides run at their own pace.                       *)
(***************************************************************************)
EXTENDS Naturals, Sequences

CONSTANTS
  Size,       \* bytes the sender has
  ChunkSize,  \* bytes in a full frame
  MaxDamages  \* bound: cuts and altered frames

\* What the theorems about this module assume.
FramesConstants ==
  Size \in Nat /\ ChunkSize \in Nat \ {0} /\ MaxDamages \in Nat

VARIABLES
  taken,   \* bytes Write has accepted
  held,    \* how many of them are in the writer's buffer
  writer,  \* "writing", "closed" or "failed"
  wire,    \* frames on their way: first byte, last byte, intact or not
  tail,    \* how the wire ends: "open", "end" (cleanly) or "torn"
  buf,     \* the decrypted bytes the reader has not handed out, as a range
  err,     \* the reader's sticky error: "none", "eof" or "broken"
  got,     \* history: the bytes handed out, in order
  damages  \* steps taken against the bound

framesVars == <<taken, held, writer, wire, tail, buf, err, got, damages>>

Span(i, j) == [first |-> i, last |-> j]
Count(r) == (r.last + 1) - r.first

FramesTypeOK ==
  /\ taken \in 0..Size /\ held \in 0..ChunkSize /\ held <= taken
  /\ writer \in {"writing", "closed", "failed"}
  /\ wire \in Seq([first : 1..Size, last : 1..Size, intact : BOOLEAN])
  /\ tail \in {"open", "end", "torn"}
  /\ buf \in [first : 1..Size + 1, last : 0..Size]
  /\ err \in {"none", "eof", "broken"}
  /\ got \in Seq(1..Size)
  /\ damages \in 0..MaxDamages

FramesInit ==
  /\ taken = 0 /\ held = 0 /\ writer = "writing"
  /\ wire = <<>> /\ tail = "open"
  /\ buf = Span(1, 0) /\ err = "none" /\ got = <<>>
  /\ damages = 0

---------------------------------------------------------------------------
(* The writer. *)

Frame == [first |-> taken - held + 1, last |-> taken, intact |-> TRUE]

\* Write fills the buffer while there is room in it.
Write ==
  /\ writer = "writing" /\ taken < Size /\ held < ChunkSize
  /\ \E n \in 1..ChunkSize - held :
       taken + n <= Size /\ taken' = taken + n /\ held' = held + n
  /\ UNCHANGED <<writer, wire, tail, buf, err, got, damages>>

\* flush empties the buffer before the frame is written, written or not.
Flush(after) ==
  /\ held' = 0
  /\ \/ tail = "open" /\ wire' = Append(wire, Frame) /\ writer' = after
     \/ tail # "open" /\ writer' = "failed" /\ UNCHANGED wire
  /\ UNCHANGED <<taken, tail, buf, err, got, damages>>

\* Write needs room for more.
FlushFull == writer = "writing" /\ held = ChunkSize /\ taken < Size /\ Flush("writing")

\* CloseWriter flushes the tail chunk; the stream is closed behind it.
CloseWriter ==
  /\ writer = "writing" /\ taken = Size
  /\ IF held > 0 THEN Flush("closed")
     ELSE writer' = "closed" /\ UNCHANGED <<taken, held, wire, tail, buf, err, got, damages>>

EndStream ==
  /\ writer # "writing" /\ tail = "open"
  /\ tail' = "end"
  /\ UNCHANGED <<taken, held, writer, wire, buf, err, got, damages>>

---------------------------------------------------------------------------
(* The connection. *)

Damage == damages < MaxDamages /\ damages' = damages + 1
          /\ UNCHANGED <<taken, held, writer, buf, err, got>>

\* Frames that were on their way are lost, the first of them perhaps in part.
Cut ==
  /\ Damage /\ tail = "open"
  /\ \E n \in 0..Len(wire) : wire' = SubSeq(wire, 1, n)
  /\ tail' \in {"end", "torn"}

Alter ==
  /\ Damage
  /\ \E i \in DOMAIN wire : wire[i].intact /\ wire' = [wire EXCEPT ![i].intact = FALSE]
  /\ UNCHANGED tail

---------------------------------------------------------------------------
(* The reader. *)

\* Read hands out some of what is decrypted.
Read ==
  /\ Count(buf) > 0
  /\ \E n \in 1..Count(buf) :
       /\ got' = got \o [i \in 1..n |-> buf.first + i - 1]
       /\ buf' = [buf EXCEPT !.first = @ + n]
  /\ UNCHANGED <<taken, held, writer, wire, tail, err, damages>>

\* Mutant: a frame that does not open is passed over.
ReadNextChunk ==
  /\ Count(buf) = 0 /\ err = "none"
  /\ \/ /\ wire # <<>> /\ wire' = Tail(wire)
        /\ IF Head(wire).intact
           THEN buf' = Span(Head(wire).first, Head(wire).last) ELSE UNCHANGED buf
        /\ UNCHANGED err
     \/ /\ wire = <<>> /\ tail # "open"
        /\ err' = IF tail = "end" THEN "eof" ELSE "broken"
        /\ UNCHANGED <<wire, buf>>
  /\ UNCHANGED <<taken, held, writer, tail, got, damages>>

\* readChunk: the next frame, the end between two frames, or an error that is
\* kept for every later Read.
ReadChunk ==
  /\ Count(buf) = 0 /\ err = "none"
  /\ \/ /\ wire # <<>> /\ wire' = Tail(wire)
        /\ IF Head(wire).intact
           THEN buf' = Span(Head(wire).first, Head(wire).last) /\ UNCHANGED err
           ELSE err' = "broken" /\ UNCHANGED buf
     \/ /\ wire = <<>> /\ tail # "open"
        /\ err' = IF tail = "end" THEN "eof" ELSE "broken"
        /\ UNCHANGED <<wire, buf>>
  /\ UNCHANGED <<taken, held, writer, tail, got, damages>>

FramesNext == Write \/ FlushFull \/ CloseWriter \/ EndStream \/ Cut \/ Alter \/ Read \/ ReadChunk
FramesSpec == FramesInit /\ [][FramesNext]_framesVars

---------------------------------------------------------------------------
(* Properties. *)

\* What the reader hands out is a prefix of what was written, with no byte
\* missing, repeated or out of place; and when neither the writer failed nor the
\* connection was cut, the end it reports is the end of the file.
StreamIsPrefix ==
  /\ \A i \in DOMAIN got : got[i] = i
  /\ Len(got) <= taken
  /\ err = "eof" /\ damages = 0 => Len(got) = Size

=============================================================================
